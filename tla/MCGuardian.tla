----------------------------- MODULE MCGuardian -----------------------------
(***************************************************************************)
(* Instances of Guardian: kid is protected by the configuration and pal by *)
(* some of the control room's rules, both on this server; troll, elsewhere, *)
(* is blocked by the configuration; aunt, elsewhere, is allowed by some of *)
(* the control room's rules and by nothing else.                           *)
(***************************************************************************)
EXTENDS Guardian, TLC

CONSTANTS
  kid, pal, aunt, troll,
  home, away,            \* server names
  lobby,                 \* a room
  t1, t2                 \* tasks

MCUsers == {kid, pal, aunt, troll}
MCLocal == {kid, pal}
MCNames == MCUsers \cup {home, away}
MCServerOf == [u \in MCUsers |-> IF u \in MCLocal THEN home ELSE away]
MCLower == [n \in MCNames |-> n]
MCValid ==
  [k \in Kinds |-> IF k \in {"allowed_server", "blocked_server"} THEN {home, away} ELSE MCUsers]
MCMatches == {<<n, n>> : n \in MCNames}
MCNoRules == [none |-> TRUE]
MCNoRequest == [noRequest |-> TRUE]

MCStatic ==
  Build({<<"protected_user", kid>>, <<"allowed_server", home>>, <<"blocked_user", troll>>})
\* The room protects pal and allows the other server, aunt's and troll's.
MCOffers ==
  {Build({<<"protected_user", pal>>, <<"allowed_server", away>>, <<"allowed_user", troll>>})}

Ask(call, actor, target, opens, invited) ==
  [call |-> call, actor |-> actor, target |-> target, room |-> lobby,
   opens |-> opens, invited |-> invited]

\* pal is in the room; kid has an invite from before the module was installed.
StaleInvite ==
  [r \in {lobby} |-> [u \in MCUsers |->
     CASE u = kid -> "invite" [] u = pal -> "join" [] OTHER -> "leave"]]
EarlyRooms == {StaleInvite}

\* Joins, invites in both directions, a call that may open a room, and one that
\* is let through without asking for the rules.
MCRequests ==
  {Ask("user_may_join_room", kid, kid, FALSE, b) : b \in BOOLEAN}
  \cup {Ask("federated_user_may_invite", aunt, kid, FALSE, FALSE),
        Ask("user_may_invite", kid, troll, FALSE, FALSE),
        Ask("user_may_send_state_event", pal, pal, TRUE, FALSE),
        Ask("check_event_allowed", troll, troll, TRUE, FALSE)}

TaskSymmetry == Permutations(Tasks)
=============================================================================
