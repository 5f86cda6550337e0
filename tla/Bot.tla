--------------------------------- MODULE Bot ---------------------------------
(***************************************************************************)
(* The commands of the maubot plugin that change rules                     *)
(* (bot/guardian_bot/__init__.py). A command is a task that reads the room *)
(* to see whether its sender may do this, and only then writes, as the     *)
(* bot; adding writes one state event, removing lists the room once more   *)
(* and clears every matching event, one at a time. Between any two of      *)
(* these requests power levels change and people write events by hand.     *)
(***************************************************************************)
EXTENDS Policy, PowerLevels

CONSTANTS
  Tasks,
  People,     \* who is in the control room
  Local,      \* names that are user IDs of this server
  Guard,      \* the bot's own user
  Admins,     \* the plugin's admins; nobody in it means no such list
  Keys,       \* state keys
  KeyOf,      \* state_key_for
  Commands,   \* [verb, kind, entity] records people send
  LevelChoices,  \* the room's power levels and creators, as they may be
  Removed,    \* an empty content
  NoCommand, NoOne,
  HandKinds,  \* bound: the kinds of event people write by hand
  MaxChanges  \* bound: how often the room is changed by other than the bot

Kept == Names \cup {Removed}
Slots == Kinds \X Keys
CommandSet == [verb : {"add", "remove"}, kind : Kinds, entity : Names]

ASSUME BotAssumption ==
  /\ Admins \subseteq People /\ Guard \notin People /\ NoOne \notin People
  /\ Local \subseteq Names
  /\ KeyOf \in [Names -> Keys]
  /\ Commands \subseteq CommandSet /\ NoCommand \notin CommandSet
  /\ LevelChoices \subseteq RoomRecords(People \cup {Guard}, Kinds)
  /\ Removed \notin Names
  /\ MaxChanges \in Nat

VARIABLES
  entry,    \* [Slots -> the entity of the state event, or Removed]
  levels,   \* the room's power levels and creators
  pc,       \* [Tasks -> the request the command waits for, or its reply]
  cmd,      \* [Tasks -> the command]
  sender,   \* [Tasks -> who sent it]
  keys,     \* [Tasks -> state keys still to clear]
  allowed,  \* ghost: [Tasks -> the sender could have done it himself since asking]
  touched,  \* ghost: [Tasks -> somebody else wrote that kind since the listing]
  changes   \* counted for its bound

room == <<entry, levels>>
tasks == <<pc, cmd, sender, keys>>
vars == <<room, tasks, allowed, touched, changes>>

Init ==
  /\ entry \in [Slots -> {Removed}]
  /\ levels \in LevelChoices
  /\ pc = [t \in Tasks |-> "idle"]
  /\ cmd = [t \in Tasks |-> NoCommand]
  /\ sender = [t \in Tasks |-> NoOne]
  /\ keys = [t \in Tasks |-> {}]
  /\ allowed = [t \in Tasks |-> FALSE]
  /\ touched = [t \in Tasks |-> FALSE]
  /\ changes = 0
-----------------------------------------------------------------------------
Replies == {"added", "removed", "refused", "failed"}
Running == {"checking", "listing", "writing", "clearing"}

\* The entries a removal is about, whatever state key they were written with.
Matching(c) ==
  {k \in Keys : /\ entry[<<c.kind, k>>] # Removed
                /\ Lower[entry[<<c.kind, k>>]] = Lower[c.entity]}

To(t, where) == pc' = [pc EXCEPT ![t] = where]

\* What the ghosts see of a step: rights the sender has or gets, and writes of
\* others while a removal is under way.
Watch ==
  /\ allowed' = [t \in Tasks |->
       /\ pc'[t] # "idle"
       /\ \/ allowed[t]
          \/ RoomAllows(levels, sender'[t], cmd'[t].kind)
          \/ RoomAllows(levels', sender'[t], cmd'[t].kind)]
  /\ touched' = [t \in Tasks |->
       /\ pc'[t] \in {"clearing", "removed"}
       /\ \/ touched[t]
          \/ \E k \in Keys : /\ entry'[<<cmd'[t].kind, k>>] # entry[<<cmd'[t].kind, k>>]
                             /\ entry'[<<cmd'[t].kind, k>>] # Removed]

\* protect() takes a user of this server, and nobody protects himself.
Unprotectable(p, c) ==
  /\ c.verb = "add" /\ c.kind = "protected_user"
  /\ c.entity \notin Local \/ c.entity = p

\* A command in the control room; somebody not in the list gets no further.
Ask(t, p, c) ==
  /\ pc[t] = "idle"
  /\ cmd' = [cmd EXCEPT ![t] = c]
  /\ sender' = [sender EXCEPT ![t] = p]
  /\ To(t, IF Unprotectable(p, c) \/ (Admins # {} /\ p \notin Admins) THEN "refused"
           ELSE "checking")
  /\ UNCHANGED <<room, keys, changes>>

UncheckedMayMutate(t) ==
  /\ pc[t] = "checking"
  /\ LET c == cmd[t]
     IN To(t, CASE c.verb = "remove" -> "listing"
                [] c.verb = "add" /\ c.entity \in Valid[c.kind] -> "writing"
                [] OTHER -> "refused")
  /\ UNCHANGED <<room, cmd, sender, keys, changes>>
\* may_mutate reads the room and decides; validate_pattern comes after it.
MayMutate(t) ==
  /\ pc[t] = "checking"
  /\ LET c == cmd[t]
         mayMutate == BotHolds(levels, sender[t], c.kind)
     IN To(t, CASE mayMutate /\ c.verb = "remove" -> "listing"
                [] mayMutate /\ c.verb = "add" /\ c.entity \in Valid[c.kind] -> "writing"
                [] OTHER -> "refused")
  /\ UNCHANGED <<room, cmd, sender, keys, changes>>

\* The room cannot be read, or the homeserver refuses or fails a request.
Fail(t) ==
  /\ pc[t] \in Running
  /\ To(t, IF pc[t] = "checking" THEN "refused" ELSE "failed")
  /\ UNCHANGED <<room, cmd, sender, keys, changes>>

\* write_entry; the homeserver takes it if the bot itself has the power.
WriteEntry(t) ==
  /\ pc[t] = "writing"
  /\ RoomAllows(levels, Guard, cmd[t].kind)
  /\ entry' = [entry EXCEPT ![<<cmd[t].kind, KeyOf[cmd[t].entity]>>] = cmd[t].entity]
  /\ To(t, "added")
  /\ UNCHANGED <<levels, cmd, sender, keys, changes>>

\* remove() lists the room once more.
BlindList(t) ==
  /\ pc[t] = "listing"
  /\ keys' = [keys EXCEPT ![t] = Matching(cmd[t])]
  /\ To(t, "clearing")
  /\ UNCHANGED <<room, cmd, sender, changes>>
List(t) ==
  /\ pc[t] = "listing"
  /\ keys' = [keys EXCEPT ![t] = Matching(cmd[t])]
  /\ To(t, IF Matching(cmd[t]) = {} THEN "refused" ELSE "clearing")
  /\ UNCHANGED <<room, cmd, sender, changes>>

\* clear_entry, for one of the keys listed; the reply follows the last one.
HastyClear(t, k) ==
  /\ pc[t] = "clearing" /\ k \in keys[t]
  /\ RoomAllows(levels, Guard, cmd[t].kind)
  /\ entry' = [entry EXCEPT ![<<cmd[t].kind, k>>] = Removed]
  /\ keys' = [keys EXCEPT ![t] = {}]
  /\ To(t, "removed")
  /\ UNCHANGED <<levels, cmd, sender, changes>>
Clear(t, k) ==
  /\ pc[t] = "clearing" /\ k \in keys[t]
  /\ RoomAllows(levels, Guard, cmd[t].kind)
  /\ entry' = [entry EXCEPT ![<<cmd[t].kind, k>>] = Removed]
  /\ keys' = [keys EXCEPT ![t] = @ \ {k}]
  /\ To(t, IF keys[t] = {k} THEN "removed" ELSE "clearing")
  /\ UNCHANGED <<levels, cmd, sender, changes>>

Reply(t) ==
  /\ pc[t] \in Replies
  /\ To(t, "idle")
  /\ cmd' = [cmd EXCEPT ![t] = NoCommand]
  /\ sender' = [sender EXCEPT ![t] = NoOne]
  /\ keys' = [keys EXCEPT ![t] = {}]
  /\ UNCHANGED <<room, changes>>

\* Somebody writes a state event of ours himself, under any state key.
WriteByHand(p, slot, e) ==
  /\ changes < MaxChanges /\ changes' = changes + 1
  /\ slot[1] \in HandKinds /\ RoomAllows(levels, p, slot[1])
  /\ entry[slot] # e
  /\ entry' = [entry EXCEPT ![slot] = e]
  /\ UNCHANGED <<levels, tasks>>

\* The creators and the version of a room are for ever.
SetLevels(m) ==
  /\ changes < MaxChanges /\ changes' = changes + 1
  /\ m # levels /\ m.content # Absent
  /\ m = [levels EXCEPT !.content = m.content]
  /\ levels' = m
  /\ UNCHANGED <<entry, tasks>>

TaskStep(t) ==
  \/ \E p \in People, c \in Commands : Ask(t, p, c)
  \/ MayMutate(t) \/ Fail(t) \/ WriteEntry(t) \/ List(t) \/ Reply(t)
  \/ \E k \in Keys : Clear(t, k)

RoomStep ==
  \/ \E p \in People, slot \in Slots, e \in Kept : WriteByHand(p, slot, e)
  \/ \E m \in LevelChoices : SetLevels(m)

Next == ((\E t \in Tasks : TaskStep(t)) \/ RoomStep) /\ Watch

Spec == Init /\ [][Next]_vars
-----------------------------------------------------------------------------
\* Every variable has its type; who writes asked for it and has a valid rule.
TypeOK ==
  /\ entry \in [Slots -> Kept]
  /\ levels \in LevelChoices
  /\ pc \in [Tasks -> Running \cup Replies \cup {"idle"}]
  /\ cmd \in [Tasks -> CommandSet \cup {NoCommand}]
  /\ sender \in [Tasks -> People \cup {NoOne}]
  /\ keys \in [Tasks -> SUBSET Keys]
  /\ allowed \in [Tasks -> BOOLEAN] /\ touched \in [Tasks -> BOOLEAN]
  /\ changes \in 0..MaxChanges
  /\ \A t \in Tasks : pc[t] # "idle" => cmd[t] \in CommandSet /\ sender[t] \in People
  /\ \A t \in Tasks : pc[t] = "clearing" => keys[t] # {}
  /\ \A t \in Tasks : pc[t] = "writing" => cmd[t].entity \in Valid[cmd[t].kind]

(***************************************************************************)
(* "The bot never grants anyone a right they do not already have": what    *)
(* the bot changes in the room it changes for a command whose sender could *)
(* have sent that very kind of event himself at some moment since he asked *)
(* for it, and is one of the admins if there is a list of them.            *)
(***************************************************************************)
ChangesWithRight ==
  [][\A t \in Tasks : WriteEntry(t) \/ (\E k \in Keys : Clear(t, k)) =>
       allowed[t] /\ (Admins = {} \/ sender[t] \in Admins)]_vars

(***************************************************************************)
(* The room's power levels are the authority (DESIGN.md:84-89): the bot    *)
(* lets nobody do what the homeserver would refuse, and as long as there   *)
(* are power levels the module drops no rule of a local sender whom the    *)
(* homeserver lets write it, creators of a newer room included.            *)
(***************************************************************************)
AuthorityAgrees ==
  \A p \in People \cup {Guard}, k \in Kinds :
    /\ BotHolds(levels, p, k) => RoomAllows(levels, p, k)
    /\ levels.content # Absent =>
         (ModuleRefuses(levels, p, k) <=> ~RoomAllows(levels, p, k))

(***************************************************************************)
(* A removal the bot reports as done has left no active entry for that     *)
(* entity, in any spelling and under any state key, unless somebody wrote  *)
(* an entry of that kind while the bot was clearing.                       *)
(***************************************************************************)
RemovalComplete ==
  \A t \in Tasks : pc[t] = "removed" /\ ~touched[t] => Matching(cmd[t]) = {}
=============================================================================
