----------------------------- MODULE PowerLevels -----------------------------
(***************************************************************************)
(* Who may change rules, as the module and the bot compute it from the     *)
(* control room's m.room.power_levels and m.room.create events (policy.py, *)
(* shared by both), and as the homeserver decides it.                      *)
(*                                                                         *)
(* A room is a record: content is that of the power levels, or Absent;     *)
(* creator, extra and version come from the create event. A level that is  *)
(* missing, or no number, is Absent. An event type is named by its kind.   *)
(***************************************************************************)
EXTENDS Integers

CONSTANTS
  Absent,
  POWER_INFINITE,
  Versions, NO_CREATOR_POWER_VERSIONS,
  CREATOR_POWER_VERSIONS,  \* the homeserver's own list (MSC4289)
  MAX_LEVEL         \* what the homeserver takes for a level at most

ASSUME PowerAssumption ==
  /\ Absent \notin Int
  /\ MAX_LEVEL \in Nat /\ POWER_INFINITE \in Int /\ MAX_LEVEL < POWER_INFINITE
  /\ 100 <= MAX_LEVEL
  /\ CREATOR_POWER_VERSIONS = Versions \ NO_CREATOR_POWER_VERSIONS

Level == {n \in Int : n <= MAX_LEVEL}
Contents(users, types) ==
  [users : [users -> Level \cup {Absent}], users_default : Level \cup {Absent},
   events : [types -> Level \cup {Absent}], state_default : Level \cup {Absent}]
RoomRecords(users, types) ==
  [content : Contents(users, types) \cup {Absent},
   creator : users, extra : SUBSET users, version : Versions]
-----------------------------------------------------------------------------
\* _int
AsInt(value, default) == IF value = Absent THEN default ELSE value

SupportsCreatorPower(room) == room.version \notin NO_CREATOR_POWER_VERSIONS

\* user_power_level, and event_power_level for a state event.
ListedUserPower(room, u) ==
  IF room.content = Absent THEN 0
  ELSE AsInt(room.content.users[u], AsInt(room.content.users_default, 0))
UserPower(room, u) ==
  IF SupportsCreatorPower(room) /\ u \in {room.creator} \cup room.extra THEN POWER_INFINITE
  ELSE ListedUserPower(room, u)

EventPower(room, type) ==
  IF room.content = Absent THEN 50
  ELSE AsInt(room.content.events[type], AsInt(room.content.state_default, 50))

\* What the bot makes of it, to whom missing power levels are empty ones.
BotHolds(room, u, type) == UserPower(room, u) >= EventPower(room, type)

\* What the module makes of it, for a local sender who is no server admin.
ModuleRefuses(room, u, type) ==
  room.content = Absent \/ UserPower(room, u) < EventPower(room, type)
-----------------------------------------------------------------------------
(***************************************************************************)
(* The homeserver: in the newer room versions creators may do anything;    *)
(* a room without power levels gives its creator 100 and others nothing.   *)
(***************************************************************************)
Held(room, u) ==
  CASE room.content = Absent -> IF u = room.creator THEN 100 ELSE 0
    [] room.content # Absent /\ room.content.users[u] # Absent -> room.content.users[u]
    [] room.content # Absent /\ room.content.users[u] = Absent ->
         IF room.content.users_default # Absent THEN room.content.users_default ELSE 0
Needed(room, type) ==
  IF room.content # Absent /\ room.content.events[type] # Absent
  THEN room.content.events[type]
  ELSE IF room.content # Absent /\ room.content.state_default # Absent
  THEN room.content.state_default ELSE 50
RoomAllows(room, u, type) ==
  \/ room.version \in CREATOR_POWER_VERSIONS /\ (u = room.creator \/ u \in room.extra)
  \/ Held(room, u) >= Needed(room, type)
=============================================================================
