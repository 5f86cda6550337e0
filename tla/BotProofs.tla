------------------------------ MODULE BotProofs ------------------------------
(***************************************************************************)
(* Bot, for any number of commands under way, people, keys and changes of  *)
(* the power levels.                                                       *)
(***************************************************************************)
EXTENDS Bot, PolicyLemmas

Places == Running \cup Replies \cup {"idle"}

\* The variables the ghosts do not touch, typed.
PlainTypeOK ==
  /\ entry \in [Slots -> Kept]
  /\ levels \in LevelChoices
  /\ pc \in [Tasks -> Places]
  /\ cmd \in [Tasks -> CommandSet \cup {NoCommand}]
  /\ sender \in [Tasks -> People \cup {NoOne}]
  /\ keys \in [Tasks -> SUBSET Keys]
  /\ changes \in 0..MaxChanges

TaskOK(t) ==
  /\ pc[t] # "idle" => cmd[t] \in CommandSet /\ sender[t] \in People
  /\ pc[t] = "clearing" => keys[t] # {}
  /\ pc[t] = "writing" => cmd[t].entity \in Valid[cmd[t].kind]

\* The type invariant, taken apart into what is said of the room, of each task and of the ghosts.
LEMMA TypeParts ==
  TypeOK <=> /\ PlainTypeOK
             /\ \A t \in Tasks : TaskOK(t)
             /\ allowed \in [Tasks -> BOOLEAN] /\ touched \in [Tasks -> BOOLEAN]
  BY DEF TypeOK, PlainTypeOK, TaskOK, Places

\* The command of a task that has one is about state events of the room.
LEMMA SlotTyped ==
  ASSUME TypeOK, NEW t \in Tasks, pc[t] # "idle"
  PROVE  /\ \A k \in Keys : <<cmd[t].kind, k>> \in Slots
         /\ cmd[t].entity \in Names /\ KeyOf[cmd[t].entity] \in Keys
  BY BotAssumption DEF TypeOK, CommandSet, Slots

\* Every step keeps the room and what each await of a command relies on.
LEMMA PlainStep ==
  ASSUME TypeOK, Next
  PROVE  PlainTypeOK' /\ \A t \in Tasks : TaskOK(t)'
  <1> USE DEF TypeOK, PlainTypeOK, Places, Running, Replies, To
  <1>1. ASSUME NEW t \in Tasks, NEW p \in People, NEW c \in Commands, Ask(t, p, c)
        PROVE  PlainTypeOK' /\ \A s \in Tasks : TaskOK(s)'
    BY <1>1, BotAssumption DEF Ask, TaskOK, room
  <1>2. ASSUME NEW t \in Tasks, MayMutate(t)
        PROVE  PlainTypeOK' /\ \A s \in Tasks : TaskOK(s)'
    <2>1. PICK v \in {"refused", "listing", "writing"} :
            /\ pc' = [pc EXCEPT ![t] = v]
            /\ v = "writing" => cmd[t].entity \in Valid[cmd[t].kind]
      BY <1>2 DEF MayMutate
    <2>2. UNCHANGED <<room, cmd, sender, keys, changes>> /\ pc[t] # "idle"
      BY <1>2 DEF MayMutate
    <2>3. QED
      BY <2>1, <2>2 DEF TaskOK, room
  <1>3. ASSUME NEW t \in Tasks, Fail(t)
        PROVE  PlainTypeOK' /\ \A s \in Tasks : TaskOK(s)'
    BY <1>3 DEF Fail, TaskOK, room
  <1>4. ASSUME NEW t \in Tasks, WriteEntry(t)
        PROVE  PlainTypeOK' /\ \A s \in Tasks : TaskOK(s)'
    <2>1. entry' \in [Slots -> Kept]
      BY <1>4, SlotTyped DEF WriteEntry, Kept
    <2>2. QED
      BY <1>4, <2>1 DEF WriteEntry, TaskOK
  <1>5. ASSUME NEW t \in Tasks, List(t)
        PROVE  PlainTypeOK' /\ \A s \in Tasks : TaskOK(s)'
    <2>1. Matching(cmd[t]) \subseteq Keys
      BY DEF Matching
    <2>2. QED
      BY <1>5, <2>1 DEF List, TaskOK, room
  <1>6. ASSUME NEW t \in Tasks, NEW k \in Keys, Clear(t, k)
        PROVE  PlainTypeOK' /\ \A s \in Tasks : TaskOK(s)'
    <2>1. entry' \in [Slots -> Kept]
      BY <1>6, SlotTyped DEF Clear, Kept
    <2>2. QED
      BY <1>6, <2>1 DEF Clear, TaskOK
  <1>7. ASSUME NEW t \in Tasks, Reply(t)
        PROVE  PlainTypeOK' /\ \A s \in Tasks : TaskOK(s)'
    BY <1>7 DEF Reply, TaskOK, room
  <1>8. ASSUME NEW p \in People, NEW slot \in Slots, NEW e \in Kept, WriteByHand(p, slot, e)
        PROVE  PlainTypeOK' /\ \A s \in Tasks : TaskOK(s)'
    BY <1>8, BotAssumption DEF WriteByHand, TaskOK, tasks
  <1>9. ASSUME NEW m \in LevelChoices, SetLevels(m)
        PROVE  PlainTypeOK' /\ \A s \in Tasks : TaskOK(s)'
    BY <1>9, BotAssumption DEF SetLevels, TaskOK, tasks
  <1>10. QED
    BY <1>1, <1>2, <1>3, <1>4, <1>5, <1>6, <1>7, <1>8, <1>9 DEF Next, TaskStep, RoomStep

\* The type invariant is inductive.
LEMMA TypeInductive == TypeOK /\ [Next]_vars => TypeOK'
  <1> SUFFICES ASSUME TypeOK, [Next]_vars PROVE TypeOK'
    OBVIOUS
  <1>1. CASE Next
    <2>1. allowed' \in [Tasks -> BOOLEAN] /\ touched' \in [Tasks -> BOOLEAN]
      BY <1>1 DEF Next, Watch
    <2>2. PlainTypeOK' /\ \A t \in Tasks : TaskOK(t)'
      BY <1>1, PlainStep
    <2>3. QED
      BY <2>1, <2>2 DEF TypeOK, PlainTypeOK, TaskOK, Places
  <1>2. CASE UNCHANGED vars
    BY <1>2 DEF TypeOK, vars, room, tasks
  <1>3. QED
    BY <1>1, <1>2

(***************************************************************************)
(* Every variable has its type in every reachable state.                   *)
(***************************************************************************)
THEOREM CommandsTyped == Spec => []TypeOK
  <1>1. Init => TypeOK
    BY BotAssumption DEF Init, TypeOK, Kept, Running, Replies
  <1>2. QED
    BY <1>1, TypeInductive, PTL DEF Spec
-----------------------------------------------------------------------------
(***************************************************************************)
(* What policy.py computes of a room's levels against what the homeserver  *)
(* decides, for every content, creator and room version.                   *)
(***************************************************************************)
LEMMA OneAuthority ==
  ASSUME NEW there \in RoomRecords(People \cup {Guard}, Kinds),
         NEW p \in People \cup {Guard}, NEW k \in Kinds
  PROVE  /\ BotHolds(there, p, k) => RoomAllows(there, p, k)
         /\ there.content # Absent =>
              (ModuleRefuses(there, p, k) <=> ~RoomAllows(there, p, k))
  <1> DEFINE c == there.content
  <1>1. SupportsCreatorPower(there) <=> there.version \in CREATOR_POWER_VERSIONS
    BY PowerAssumption DEF SupportsCreatorPower, RoomRecords
  <1>2. CASE c = Absent
    <2>1. EventPower(there, k) = 50 /\ ListedUserPower(there, p) = 0
          /\ Needed(there, k) = 50
      BY <1>2 DEF EventPower, ListedUserPower, Needed
    <2>2. QED
      BY <1>1, <1>2, <2>1, PowerAssumption DEF BotHolds, UserPower, RoomAllows
  <1>3. CASE c # Absent
    <2>1. c \in Contents(People \cup {Guard}, Kinds)
      BY <1>3 DEF RoomRecords
    <2>2. /\ c.users[p] \in Level \cup {Absent} /\ c.users_default \in Level \cup {Absent}
          /\ c.events[k] \in Level \cup {Absent} /\ c.state_default \in Level \cup {Absent}
      BY <2>1 DEF Contents
    <2>3. EventPower(there, k) = Needed(there, k) /\ Needed(there, k) \in Level
      BY <1>3, <2>2, PowerAssumption DEF EventPower, Needed, AsInt, Level
    <2>4. ListedUserPower(there, p) = Held(there, p) /\ Held(there, p) \in Level
      BY <1>3, <2>2, PowerAssumption DEF ListedUserPower, Held, AsInt, Level
    <2>5. POWER_INFINITE >= Needed(there, k)
      BY <2>3, PowerAssumption DEF Level
    <2>6. QED
      BY <1>1, <1>3, <2>3, <2>4, <2>5, PowerAssumption
         DEF BotHolds, ModuleRefuses, UserPower, RoomAllows, Level
  <1>4. QED
    BY <1>2, <1>3

(***************************************************************************)
(* Module, bot and homeserver agree on who may change rules, whatever the  *)
(* power levels, the creators and the version of the room.                 *)
(***************************************************************************)
THEOREM AuthorityShared == Spec => []AuthorityAgrees
  <1>1. TypeOK => AuthorityAgrees
    BY OneAuthority, BotAssumption DEF TypeOK, AuthorityAgrees
  <1>2. QED
    BY <1>1, CommandsTyped, PTL
-----------------------------------------------------------------------------
(***************************************************************************)
(* A command only gets past the check with a sender who could do it        *)
(* himself then, and past the first line with one of the admins.           *)
(***************************************************************************)
RightInv ==
  \A t \in Tasks :
    /\ pc[t] \in Running => Admins = {} \/ sender[t] \in Admins
    /\ pc[t] \in {"listing", "writing", "clearing"} => allowed[t]

\* No step makes a command go on without a right that was there.
LEMMA RightInductive == TypeOK /\ RightInv /\ [Next]_vars => RightInv'
  <1> SUFFICES ASSUME TypeOK, RightInv, [Next]_vars, NEW t \in Tasks
               PROVE  /\ pc'[t] \in Running => Admins = {} \/ sender'[t] \in Admins
                      /\ pc'[t] \in {"listing", "writing", "clearing"} => allowed'[t]
    BY DEF RightInv
  <1>1. CASE UNCHANGED vars
    BY <1>1 DEF vars, tasks, RightInv
  <1>2. CASE Next
    <2>1. allowed'[t] <=> /\ pc'[t] # "idle"
                          /\ \/ allowed[t]
                             \/ RoomAllows(levels, sender'[t], cmd'[t].kind)
                             \/ RoomAllows(levels', sender'[t], cmd'[t].kind)
      BY <1>2, Zenon DEF Next, Watch
    <2>2. CASE \E p \in People, c \in Commands : Ask(t, p, c)
      BY <2>2 DEF Ask, To, TypeOK, Running
    <2>3. CASE MayMutate(t)
      <3>1. UNCHANGED <<sender, cmd>> /\ pc[t] \in Running
        BY <2>3 DEF MayMutate, Running
      <3>2. CASE BotHolds(levels, sender[t], cmd[t].kind)
        <4>1. /\ levels \in RoomRecords(People \cup {Guard}, Kinds)
              /\ sender[t] \in People /\ cmd[t].kind \in Kinds
          BY <3>1, BotAssumption DEF TypeOK, CommandSet, Running
        <4>2. RoomAllows(levels, sender[t], cmd[t].kind)
          BY <3>2, <4>1, OneAuthority
        <4>3. QED
          BY <3>1, <4>2, <2>1 DEF RightInv
      <3>3. CASE ~BotHolds(levels, sender[t], cmd[t].kind)
        BY <2>3, <3>3 DEF MayMutate, To, TypeOK, Running
      <3>4. QED
        BY <3>2, <3>3
    <2>4. CASE Fail(t) \/ WriteEntry(t) \/ Reply(t)
      BY <2>4 DEF Fail, WriteEntry, Reply, To, TypeOK, Running
    <2>5. CASE List(t) \/ \E k \in Keys : Clear(t, k)
      <3>1. /\ UNCHANGED sender
            /\ pc[t] \in {"listing", "clearing"} /\ pc[t] \in Running
            /\ pc'[t] # "idle"
        BY <2>5 DEF List, Clear, To, TypeOK, Running
      <3>2. QED
        BY <3>1, <2>1 DEF RightInv
    <2>6. CASE /\ pc'[t] = pc[t] /\ sender'[t] = sender[t]
      BY <2>1, <2>6 DEF RightInv
    <2>7. ASSUME RoomStep \/ \E s \in Tasks \ {t} : TaskStep(s)
          PROVE  pc'[t] = pc[t] /\ sender'[t] = sender[t]
      BY <2>7 DEF RoomStep, WriteByHand, SetLevels, TaskStep, Ask, MayMutate, Fail, WriteEntry,
         List, Clear, Reply, To, TypeOK, tasks
    <2>8. QED
      BY <1>2, <2>2, <2>3, <2>4, <2>5, <2>6, <2>7 DEF Next, TaskStep
  <1>3. QED
    BY <1>1, <1>2

(***************************************************************************)
(* Whatever the bot changes for somebody, he could have changed himself at *)
(* some moment since he asked.                                             *)
(***************************************************************************)
THEOREM BotHasRight == Spec => ChangesWithRight
  <1>1. Init => RightInv
    BY DEF Init, RightInv, Running
  <1>2. TypeOK /\ RightInv /\ [Next]_vars =>
          [\A t \in Tasks : WriteEntry(t) \/ (\E k \in Keys : Clear(t, k)) =>
             allowed[t] /\ (Admins = {} \/ sender[t] \in Admins)]_vars
    BY DEF RightInv, WriteEntry, Clear, Running
  <1>3. QED
    BY <1>1, <1>2, RightInductive, CommandsTyped, PTL DEF Spec, ChangesWithRight
-----------------------------------------------------------------------------
(***************************************************************************)
(* While a removal clears, what is left of the entity is among the keys    *)
(* still to clear, as long as nobody else writes that kind.                *)
(***************************************************************************)
LeftToClear ==
  \A t \in Tasks : ~touched[t] =>
    /\ pc[t] = "clearing" => Matching(cmd[t]) \subseteq keys[t]
    /\ pc[t] = "removed" => Matching(cmd[t]) = {}

\* While nobody writes an entry like it, what a removal is about only becomes less.
LEMMA RemovedByOthers ==
  ASSUME TypeOK, Next, NEW t \in Tasks, ~touched'[t],
         pc'[t] \in {"clearing", "removed"}, cmd'[t] = cmd[t]
  PROVE  Matching(cmd[t])' \subseteq Matching(cmd[t])
  <1>1. \A k \in Keys : \/ entry'[<<cmd[t].kind, k>>] = entry[<<cmd[t].kind, k>>]
                        \/ entry'[<<cmd[t].kind, k>>] = Removed
    BY DEF Next, Watch
  <1>2. QED
    BY <1>1 DEF Matching

\* No step but one that is recorded in touched leaves an entry behind a removal.
LEMMA LeftInductive == TypeOK /\ LeftToClear /\ [Next]_vars => LeftToClear'
  <1> SUFFICES ASSUME TypeOK, LeftToClear, [Next]_vars, NEW t \in Tasks, ~touched'[t],
                      pc'[t] \in {"clearing", "removed"}
               PROVE  /\ pc'[t] = "clearing" => Matching(cmd[t])' \subseteq keys'[t]
                      /\ pc'[t] = "removed" => Matching(cmd[t])' = {}
    BY DEF LeftToClear
  <1>1. CASE UNCHANGED vars
    <2>1. Matching(cmd[t])' = Matching(cmd[t])
      BY <1>1 DEF vars, room, tasks, Matching
    <2>2. pc'[t] = pc[t] /\ touched'[t] = touched[t] /\ keys'[t] = keys[t]
      BY <1>1 DEF vars, tasks
    <2>3. QED
      BY <2>1, <2>2 DEF LeftToClear
  <1>2. CASE Next
    <2>1. ASSUME List(t)
          PROVE  Matching(cmd[t])' = keys'[t] /\ pc'[t] = "clearing"
      <3>1. Matching(cmd[t])' = Matching(cmd[t])
        BY <2>1 DEF List, room, Matching
      <3>2. keys'[t] = Matching(cmd[t]) /\ pc'[t] \in {"refused", "clearing"}
        BY <2>1 DEF List, To, TypeOK
      <3>3. QED
        BY <3>1, <3>2
    <2>2. ASSUME pc[t] \in {"clearing", "removed"}
          PROVE  ~touched[t]
      BY <1>2, <2>2 DEF Next, Watch
    <2>3. ASSUME NEW k \in Keys, Clear(t, k)
          PROVE  /\ pc'[t] = "clearing" => Matching(cmd[t])' \subseteq keys'[t]
                 /\ pc'[t] = "removed" => Matching(cmd[t])' = {}
      <3>1. /\ UNCHANGED cmd /\ pc[t] = "clearing" /\ k \in keys[t]
            /\ entry' = [entry EXCEPT ![<<cmd[t].kind, k>>] = Removed]
            /\ keys'[t] = keys[t] \ {k}
            /\ pc'[t] = "removed" => keys[t] = {k}
        BY <2>3 DEF Clear, To, TypeOK
      <3>2. Matching(cmd[t]) \subseteq keys[t]
        BY <2>2, <3>1 DEF LeftToClear
      <3>3. Matching(cmd[t])' \subseteq Matching(cmd[t])
        BY <1>2, <3>1, RemovedByOthers
      <3>4. cmd[t] \in CommandSet
        BY <3>1 DEF TypeOK
      <3>5. entry'[<<cmd[t].kind, k>>] = Removed
        BY <3>1, <3>4 DEF TypeOK, CommandSet, Slots
      <3>6. k \notin Matching(cmd[t])'
        BY <3>1, <3>5 DEF Matching
      <3>7. QED
        BY <3>1, <3>2, <3>3, <3>6
    <2>4. CASE pc'[t] = pc[t] /\ cmd'[t] = cmd[t] /\ keys'[t] = keys[t]
      <3>1. Matching(cmd[t])' \subseteq Matching(cmd[t])
        BY <1>2, <2>4, RemovedByOthers
      <3>2. QED
        BY <2>2, <2>4, <3>1 DEF LeftToClear
    <2>5. CASE RoomStep
      BY <2>4, <2>5 DEF RoomStep, WriteByHand, SetLevels, tasks
    <2>6. ASSUME NEW s \in Tasks \ {t}, TaskStep(s)
          PROVE  pc'[t] = pc[t] /\ cmd'[t] = cmd[t] /\ keys'[t] = keys[t]
      BY <2>6 DEF TaskStep, Ask, MayMutate, Fail, WriteEntry, List, Clear, Reply, To, TypeOK
    <2>7. ASSUME \/ \E p \in People, c \in Commands : Ask(t, p, c)
                 \/ MayMutate(t) \/ Fail(t) \/ WriteEntry(t) \/ Reply(t)
          PROVE  FALSE
      BY <2>7 DEF Ask, MayMutate, Fail, WriteEntry, Reply, To, TypeOK
    <2>8. QED
      BY <1>2, <2>1, <2>3, <2>4, <2>5, <2>6, <2>7 DEF Next, TaskStep
  <1>3. QED
    BY <1>1, <1>2

(***************************************************************************)
(* A removal reported as done leaves no entry for the entity unless        *)
(* somebody wrote one meanwhile.                                           *)
(***************************************************************************)
THEOREM RemovalLeavesNothing == Spec => []RemovalComplete
  <1>1. Init => LeftToClear
    BY DEF Init, LeftToClear
  <1>2. LeftToClear => RemovalComplete
    BY DEF LeftToClear, RemovalComplete
  <1>3. QED
    BY <1>1, <1>2, LeftInductive, CommandsTyped, PTL DEF Spec
=============================================================================
