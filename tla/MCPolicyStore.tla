---------------------------- MODULE MCPolicyStore ----------------------------
(***************************************************************************)
(* Instances of PolicyStore: a family server whose control room a parent   *)
(* (mum) and the bot write to, and which a user elsewhere (out) is in.     *)
(***************************************************************************)
EXTENDS PolicyStore, TLC

CONSTANTS
  kid, pal, mum, bot, out,   \* kid is statically protected; out is remote
  troll,                     \* a remote user, statically blocked
  t1, t2,                    \* tasks
  school, key                \* a server name, a state key that names nothing

\* Records of constants, which TLC evaluates once.
Universe ==
  [users |-> {kid, pal, mum, bot, out, troll},
   names |-> {kid, pal, mum, bot, out, troll, school, key},
   mine |-> {kid, pal, mum, bot},
   servers |-> [u \in {kid, pal, mum, bot, out, troll} |-> IF u \in {out, troll} THEN school ELSE key],
   lower |-> [n \in {kid, pal, mum, bot, out, troll, school, key} |-> n],
   valid |-> [k \in Kinds |-> IF k \in {"allowed_server", "blocked_server"} THEN {school}
                              ELSE {kid, pal, mum, bot, out, troll}],
   matches |-> {<<n, n>> : n \in {kid, pal, mum, bot, out, troll, school, key}}]
MCUsers == Universe.users
MCNames == Universe.names
MCServerOf == Universe.servers
MCLower == Universe.lower
MCValid == Universe.valid
MCMatches == Universe.matches
MCMine == Universe.mine

Configured == [static |-> Build({<<"protected_user", kid>>, <<"blocked_user", troll>>})]
MCStatic == Configured.static

Readable(may) == [readable |-> TRUE, may |-> may]
EmptyRoom(levels) ==
  [entry |-> [s \in Slots |-> Removed], levels |-> levels, present |-> TRUE]
MCNoRules == [none |-> TRUE]
MCRemoved == [removed |-> TRUE]

\* Who may write what: authority run.
AuthoritySenders == {mum, bot, out}
AuthoritySlots == {<<"protected_user", key>>, <<"allowed_server", school>>}
AuthorityEntities == {pal, troll}
BotMayAll == Readable({bot} \X Kinds)
OutMayServers == Readable({<<bot, "protected_user">>, <<out, "allowed_server">>})
AuthorityLevels == {BotMayAll, OutMayServers, Unreadable}
AuthorityStart == EmptyRoom(OutMayServers)

\* One entry and one sender: interleavings, timing and liveness runs.
OneSender == {bot}
OneSlot == {<<"protected_user", key>>}
OneEntity == {pal}
BotLevels == {BotMayAll}
ProtectedStart ==
  [entry |-> [s \in Slots |-> [entity |-> pal, sender |-> bot]], levels |-> BotMayAll, present |-> TRUE]

TaskSymmetry == Permutations(Tasks)
=============================================================================
