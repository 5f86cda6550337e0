-------------------------- MODULE PolicyStoreProofs --------------------------
(***************************************************************************)
(* PolicyStore, for any number of callbacks, versions of the room, senders *)
(* and administrators, and every refresh interval and latency.             *)
(***************************************************************************)
EXTENDS PolicyStore, PolicyLemmas, SequenceTheorems, FiniteSetTheorems

(***************************************************************************)
(* What a refresh makes of any version of the room is a rule set that      *)
(* contains the static one.                                                *)
(***************************************************************************)
LEMMA LoadedContainsStatic ==
  ASSUME NEW r, NEW A
  PROVE  /\ Loaded(r, A) \in RuleSet
         /\ \A k \in Kinds : Static[k] \subseteq Loaded(r, A)[k]
  BY BuildType, MergeType, MergeKeeps, StoreAssumption DEF Loaded

\* The protected users of a rule set are names.
LEMMA ProtectedAreNames == \A rs \in RuleSet : rs["protected_user"] \subseteq Names
  BY DEF RuleSet, Kinds

(***************************************************************************)
(* A new version of the room leaves the versions before it as they were.   *)
(***************************************************************************)
LEMMA NewVersionKeeps ==
  ASSUME hist \in Seq(Rooms), NEW r \in Rooms, NewVersion(r)
  PROVE  /\ hist' \in Seq(Rooms)
         /\ Len(hist') = Len(hist) + 1
         /\ Len(hist') <= MaxVersions
         /\ \A v \in 1..Len(hist) : hist'[v] = hist[v]
  BY StoreAssumption DEF NewVersion

\* The newest version of the room is one of its versions.
LEMMA CurrentIsRoom ==
  ASSUME RoomTypeOK
  PROVE  Current \in Rooms
  BY DEF RoomTypeOK, Current

\* Ages are counted up to a number.
LEMMA HorizonIsNat == Horizon \in Nat
  BY StoreAssumption DEF Horizon

\* There are only so many callbacks for answers to wait in.
LEMMA OnTheirWayIsNat == \A u : OnTheirWay(u) \in Nat
  <1> TAKE u
  <1>1. IsFiniteSet({t \in Tasks : u \in no[t]})
    BY StoreAssumption, FS_Subset
  <1>2. QED
    BY <1>1, FS_CardinalityType DEF OnTheirWay

\* The edits of the room change nothing else but news.
LEMMA RoomEditTyped ==
  ASSUME TypeOK, NEW r \in Rooms, NewVersion(r),
         news' \subseteq news \cup {Len(hist) + 1},
         UNCHANGED <<admins, everAdmin, cache, warned, announced, task, origin, heard, alerts>>
  PROVE  TypeOK'
  <1>1. /\ hist' \in Seq(Rooms)
        /\ Len(hist) \in Nat /\ Len(hist') = Len(hist) + 1
        /\ Len(hist') <= MaxVersions
    BY NewVersionKeeps DEF TypeOK, RoomTypeOK
  <1>2. RoomTypeOK'
    BY <1>1, StoreAssumption DEF TypeOK, RoomTypeOK, Larger
  <1>3. \A n : n \in 0..Len(hist) => n \in 0..Len(hist')
    BY <1>1
  <1>4. StoreTypeOK' /\ TaskStateOK'
    BY DEF TypeOK, StoreTypeOK, TaskStateOK, cache, task, check
  <1>5. TaskTypeOK'
    <2>1. snap' \in [Tasks -> 0..Len(hist')]
      BY <1>3 DEF TypeOK, TaskTypeOK, task, check
    <2>2. QED
      BY <2>1 DEF TypeOK, TaskTypeOK, task, check
  <1>6. GhostTypeOK'
    BY <1>3 DEF TypeOK, GhostTypeOK, origin, alerts
  <1>7. QED
    BY <1>2, <1>4, <1>5, <1>6 DEF TypeOK

\* The assignments after a read put a rule set in force and start the checks.
LEMMA AdoptTyped ==
  ASSUME TypeOK, NEW t \in Tasks, NEW rs \in RuleSet, Adopt(t, rs),
         UNCHANGED <<hist, warned, announced, snap, ask, known, view>>,
         life' \in [Tasks -> 0..Latency]
  PROVE  (StoreTypeOK /\ TaskTypeOK /\ TaskStateOK)'
  <1>0. stale' \in BOOLEAN
    BY Zenon DEF Adopt
  <1>1. StoreTypeOK'
    <2>1. rules' \in RulesOrNone /\ age' \in 0..Horizon
      BY HorizonIsNat DEF Adopt, RulesOrNone
    <2>2. QED
      BY <1>0, <2>1 DEF TypeOK, StoreTypeOK
  <1>2. TaskTypeOK'
    BY ProtectedAreNames DEF TypeOK, TaskTypeOK, Adopt, RulesOrNone, InFlight
  <1>3. TaskStateOK'
    BY DEF TypeOK, TaskTypeOK, TaskStateOK, Adopt
  <1>4. QED
    BY <1>1, <1>2, <1>3

\* Every variable has its type in every reachable state, and a task holds what its
\* await relies on.
THEOREM TypeCorrect == Spec => []TypeOK
  <1> USE StoreAssumption, HorizonIsNat
  <1>1. Init => TypeOK
    <2> SUFFICES ASSUME Init PROVE TypeOK
      OBVIOUS
    <2>1. hist \in Seq(Rooms) /\ Len(hist) = 1
      BY DEF Init
    <2>2. RoomTypeOK
      BY <2>1 DEF Init, RoomTypeOK, Larger
    <2>3. StoreTypeOK /\ TaskStateOK
      BY DEF Init, StoreTypeOK, TaskStateOK, RulesOrNone
    <2>4. TaskTypeOK
      BY <2>1 DEF Init, TaskTypeOK, RulesOrNone
    <2>5. GhostTypeOK
      <3>1. fromRead \in BOOLEAN
        BY Zenon DEF Init
      <3>2. QED
        BY <2>1, <3>1 DEF Init, GhostTypeOK
    <2>6. QED
      BY <2>2, <2>3, <2>4, <2>5 DEF TypeOK
  <1>2. TypeOK /\ [Next]_vars => TypeOK'
    <2> SUFFICES ASSUME TypeOK, [Next]_vars PROVE TypeOK'
      OBVIOUS
    <2>0. Current \in Rooms /\ Len(hist) \in Nat \ {0}
      BY CurrentIsRoom DEF TypeOK, RoomTypeOK
    <2>1. ASSUME NEW s \in Senders, NEW slot \in Slots, NEW c \in ContentsOf(s),
                 SendRule(s, slot, c)
          PROVE  TypeOK'
      <3>1. [Current EXCEPT !.entry[slot] = c] \in Rooms
        BY <2>0 DEF Rooms, ContentsOf
      <3>2. QED
        BY <2>1, <3>1, RoomEditTyped DEF SendRule
    <2>2. ASSUME NEW l \in LevelChoices, SetLevels(l)
          PROVE  TypeOK'
      <3>1. [Current EXCEPT !.levels = l] \in Rooms
        BY <2>0 DEF Rooms
      <3>2. QED
        BY <2>2, <3>1, RoomEditTyped DEF SetLevels
    <2>3. ASSUME LoseRoom
          PROVE  TypeOK'
      <3>1. [entry |-> [s \in Slots |-> Removed], levels |-> Unreadable, present |-> FALSE] \in Rooms
        BY DEF Rooms, Levels, Unreadable
      <3>2. QED
        BY <2>3, <3>1, RoomEditTyped DEF LoseRoom
    <2>4. ASSUME NEW u \in Operators, NEW A \in SUBSET Operators, SetAdmin(u, A)
          PROVE  TypeOK'
      <3>1. reports' \in [Operators -> Nat] /\ late' \in [Operators -> Nat]
        BY <2>4, OnTheirWayIsNat DEF SetAdmin, TypeOK, GhostTypeOK
      <3>2. (RoomTypeOK /\ StoreTypeOK)'
        BY <2>0, <2>4 DEF SetAdmin, TypeOK, RoomTypeOK, StoreTypeOK, cache
      <3>3. (TaskTypeOK /\ TaskStateOK)'
        BY <2>4 DEF SetAdmin, TypeOK, TaskTypeOK, TaskStateOK, cache, task, check
      <3>4. GhostTypeOK'
        BY <2>4, <3>1 DEF SetAdmin, TypeOK, GhostTypeOK, origin
      <3>5. QED
        BY <3>2, <3>3, <3>4 DEF TypeOK
    <2>5. ASSUME NEW v \in 1..MaxVersions, Deliver(v)
          PROVE  TypeOK'
      <3>1. (heard \in 0..Len(hist))'
        BY <2>0, <2>5 DEF Deliver, TypeOK, RoomTypeOK, GhostTypeOK, Larger, room
      <3>2. QED
        BY <2>5, <3>1 DEF Deliver, TypeOK, RoomTypeOK, StoreTypeOK, TaskTypeOK, GhostTypeOK, TaskStateOK, room, task, check, origin, alerts
    <2>6. ASSUME NEW t \in Tasks, ServeCached(t)
          PROVE  TypeOK'
      BY <2>0, <2>6, LoadedContainsStatic, ProtectedAreNames
      DEF TypeOK, RoomTypeOK, StoreTypeOK, TaskTypeOK, GhostTypeOK, TaskStateOK, ServeCached, NeedsRefresh, room, cache, task, check, origin, alerts, InFlight, RulesOrNone, Larger
    <2>7. ASSUME NEW t \in Tasks, StartRead(t)
          PROVE  TypeOK'
      BY <2>0, <2>7, LoadedContainsStatic, ProtectedAreNames
      DEF TypeOK, RoomTypeOK, StoreTypeOK, TaskTypeOK, GhostTypeOK, TaskStateOK, StartRead, room, cache, task, check, origin, alerts, InFlight, RulesOrNone, Larger
    <2>8. ASSUME NEW t \in Tasks, LoadStatic(t)
          PROVE  TypeOK'
      <3>1. Static \in RuleSet /\ life' \in [Tasks -> 0..Latency]
        BY <2>8 DEF LoadStatic, TypeOK, TaskTypeOK
      <3>2. (StoreTypeOK /\ TaskTypeOK /\ TaskStateOK)'
        BY <2>8, <3>1, AdoptTyped DEF LoadStatic, room
      <3>3. (RoomTypeOK /\ GhostTypeOK)'
        BY <2>8 DEF LoadStatic, TypeOK, RoomTypeOK, GhostTypeOK, room, origin, alerts
      <3>4. QED
        BY <3>2, <3>3 DEF TypeOK
    <2>9. ASSUME NEW t \in Tasks, ReadRoom(t)
          PROVE  TypeOK'
      <3>1. SendersToAsk(Current) \subseteq Senders
        BY <2>0 DEF SendersToAsk, Active, Rooms, Contents
      <3>2. (TaskTypeOK /\ TaskStateOK)'
        BY <2>0, <2>9, <3>1 DEF ReadRoom, TypeOK, TaskTypeOK, TaskStateOK, room, cache, check, InFlight
      <3>3. (RoomTypeOK /\ StoreTypeOK /\ GhostTypeOK)'
        BY <2>9 DEF ReadRoom, TypeOK, RoomTypeOK, StoreTypeOK, GhostTypeOK, room, cache, origin, alerts
      <3>4. QED
        BY <3>2, <3>3 DEF TypeOK
    <2>10. ASSUME NEW t \in Tasks, ReadFails(t)
          PROVE  TypeOK'
      <3>1. Fallback \in RuleSet /\ life' \in [Tasks -> 0..Latency]
        BY <2>10 DEF ReadFails, Fallback, TypeOK, StoreTypeOK, TaskTypeOK, RulesOrNone
      <3>2. (StoreTypeOK /\ TaskTypeOK /\ TaskStateOK)'
        BY <2>10, <3>1, AdoptTyped DEF ReadFails, room
      <3>3. (RoomTypeOK /\ GhostTypeOK)'
        BY <2>10 DEF ReadFails, TypeOK, RoomTypeOK, GhostTypeOK, room, alerts
      <3>4. QED
        BY <3>2, <3>3 DEF TypeOK
    <2>11. ASSUME NEW t \in Tasks, NEW s \in Senders, NEW answered \in BOOLEAN, AskSender(t, s, answered)
          PROVE  TypeOK'
      BY <2>0, <2>11, LoadedContainsStatic, ProtectedAreNames
      DEF TypeOK, RoomTypeOK, StoreTypeOK, TaskTypeOK, GhostTypeOK, TaskStateOK, AskSender, room, cache, task, check, origin, alerts, InFlight, RulesOrNone, Larger
    <2>12. ASSUME NEW t \in Tasks, AdoptRead(t)
          PROVE  TypeOK'
      <3> DEFINE rs == Loaded(hist[snap[t]], known[t])
      <3>1. rs \in RuleSet /\ life' \in [Tasks -> 0..Latency]
        BY <2>12, LoadedContainsStatic DEF AdoptRead, TypeOK, TaskTypeOK
      <3>2. (StoreTypeOK /\ TaskTypeOK /\ TaskStateOK)'
        BY <2>12, <3>1, AdoptTyped DEF AdoptRead, room
      <3>3. dataAge' \in 0..Horizon /\ ver' \in 0..Len(hist)
        BY <2>12 DEF AdoptRead, TypeOK, TaskTypeOK, Horizon
      <3>4. (RoomTypeOK /\ GhostTypeOK)'
        <4>1. HasRoom
          BY <2>12 DEF AdoptRead, TypeOK, TaskStateOK
        <4>2. fromRead' \in BOOLEAN
          BY <2>12, Zenon DEF AdoptRead
        <4>3. QED
          BY <2>12, <3>3, <4>1, <4>2 DEF AdoptRead, TypeOK, RoomTypeOK, GhostTypeOK, room, alerts
      <3>5. QED
        BY <3>2, <3>4 DEF TypeOK
    <2>13. ASSUME NEW t \in Tasks, NEW u \in Names, AnswerAdmin(t, u)
          PROVE  TypeOK'
      <3>1. {u} \cap admins \subseteq Operators /\ {u} \ admins \subseteq Names
        BY DEF TypeOK, RoomTypeOK
      <3>2. (TaskTypeOK /\ TaskStateOK)'
        BY <2>13, <3>1 DEF AnswerAdmin, Asking, TypeOK, TaskTypeOK, TaskStateOK, room, cache
      <3>3. (RoomTypeOK /\ StoreTypeOK /\ GhostTypeOK)'
        BY <2>13 DEF AnswerAdmin, TypeOK, RoomTypeOK, StoreTypeOK, GhostTypeOK, room, cache, origin, alerts
      <3>4. QED
        BY <3>2, <3>3 DEF TypeOK
    <2>14. ASSUME NEW t \in Tasks, UseAnswer(t)
          PROVE  TypeOK'
      <3>1. warned' \subseteq Names
        BY <2>14, StoreAssumption DEF UseAnswer, TypeOK, StoreTypeOK, TaskTypeOK
      <3>2. reports' \in [Operators -> Nat]
        BY <2>14 DEF UseAnswer, TypeOK, GhostTypeOK
      <3>3. (TaskTypeOK /\ TaskStateOK)'
        BY <2>14 DEF UseAnswer, TypeOK, TaskTypeOK, TaskStateOK, room, cache
      <3>4. (RoomTypeOK /\ StoreTypeOK /\ GhostTypeOK)'
        BY <2>14, <3>1, <3>2 DEF UseAnswer, TypeOK, RoomTypeOK, StoreTypeOK, GhostTypeOK, room, cache, origin, alerts
      <3>5. QED
        BY <3>3, <3>4 DEF TypeOK
    <2>15. ASSUME NEW t \in Tasks, NEW u \in Names, CheckAdminFails(t, u)
          PROVE  TypeOK'
      BY <2>0, <2>15, LoadedContainsStatic, ProtectedAreNames
      DEF TypeOK, RoomTypeOK, StoreTypeOK, TaskTypeOK, GhostTypeOK, TaskStateOK, CheckAdminFails, Asking, room, cache, task, check, origin, alerts, InFlight, RulesOrNone, Larger
    <2>16. ASSUME NEW t \in Tasks, FinishRefresh(t)
          PROVE  TypeOK'
      BY <2>0, <2>16, LoadedContainsStatic, ProtectedAreNames
      DEF TypeOK, RoomTypeOK, StoreTypeOK, TaskTypeOK, GhostTypeOK, TaskStateOK, FinishRefresh, Asking, room, cache, task, check, origin, alerts, InFlight, RulesOrNone, Larger
    <2>17. ASSUME NEW t \in Tasks, Return(t)
          PROVE  TypeOK'
      BY <2>0, <2>17, LoadedContainsStatic, ProtectedAreNames
      DEF TypeOK, RoomTypeOK, StoreTypeOK, TaskTypeOK, GhostTypeOK, TaskStateOK, Return, room, cache, task, check, origin, alerts, InFlight, RulesOrNone, Larger
    <2>18. ASSUME Tick
          PROVE  TypeOK'
      BY <2>0, <2>18, LoadedContainsStatic, ProtectedAreNames
      DEF TypeOK, RoomTypeOK, StoreTypeOK, TaskTypeOK, GhostTypeOK, TaskStateOK, Tick, Smaller, room, cache, task, check, origin, alerts, InFlight, RulesOrNone, Larger
    <2>19. ASSUME Restart
          PROVE  TypeOK'
      <3>1. (RoomTypeOK /\ StoreTypeOK)'
        BY <2>19 DEF Restart, TypeOK, RoomTypeOK, StoreTypeOK, RulesOrNone, room
      <3>2. (TaskTypeOK /\ TaskStateOK)'
        BY <2>0, <2>19 DEF Restart, TypeOK, TaskTypeOK, TaskStateOK, RulesOrNone, room
      <3>3. GhostTypeOK'
        <4>1. fromRead' \in BOOLEAN
          BY <2>19, Zenon DEF Restart
        <4>2. QED
          BY <2>0, <2>19, <4>1 DEF Restart, GhostTypeOK, room
      <3>4. QED
        BY <3>1, <3>2, <3>3 DEF TypeOK
    <2>20. CASE UNCHANGED vars
      BY <2>20 DEF TypeOK, RoomTypeOK, StoreTypeOK, TaskTypeOK, GhostTypeOK, TaskStateOK, vars, room, cache, task, check, origin, alerts
    <2>21. QED
      BY <2>1, <2>2, <2>3, <2>4, <2>5, <2>6, <2>7, <2>8, <2>9, <2>10, <2>11, <2>12, <2>13, <2>14, <2>15, <2>16, <2>17, <2>18, <2>19, <2>20 DEF Next, RoomStep, TaskStep, CallStep, AwaitStep
  <1>3. QED
    BY <1>1, <1>2, PTL DEF Spec
-----------------------------------------------------------------------------
(***************************************************************************)
(* The rules in force, and those a callback was given, contain the static  *)
(* ones: merge() keeps them, and the fallback of a failed read is either   *)
(* static or was in force already.                                         *)
(***************************************************************************)
ContainsStatic(rs) == \A k \in Kinds : Static[k] \subseteq rs[k]

BaselineInv ==
  /\ rules # NoRules => ContainsStatic(rules)
  /\ \A t \in Tasks : pc[t] = "got" => ContainsStatic(view[t])

\* A step that loads nothing and answers nobody keeps what is in force.
LEMMA BaselineUntouched ==
  ASSUME BaselineInv, UNCHANGED <<rules, view>>,
         \A t \in Tasks : pc'[t] = "got" => pc[t] = "got"
  PROVE  BaselineInv'
  BY DEF BaselineInv, ContainsStatic

\* No step puts rules in force that lack the static ones.
LEMMA BaselineInductive == TypeOK /\ BaselineInv /\ [Next]_vars => BaselineInv'
  <1> SUFFICES ASSUME TypeOK, BaselineInv, [Next]_vars PROVE BaselineInv'
    OBVIOUS
  <1> USE DEF TypeOK, TaskTypeOK
  <1>1. ASSUME RoomStep \/ Tick \/ \E v \in 1..MaxVersions : Deliver(v)
        PROVE  BaselineInv'
    BY <1>1, BaselineUntouched
    DEF RoomStep, SendRule, SetLevels, LoseRoom, SetAdmin, Tick, Deliver, cache, task
  <1>2. ASSUME NEW t \in Tasks,
               \/ StartRead(t) \/ ReadRoom(t)
               \/ \E s \in Senders, answered \in BOOLEAN : AskSender(t, s, answered)
               \/ UseAnswer(t)
               \/ \E u \in Names : AnswerAdmin(t, u) \/ CheckAdminFails(t, u)
        PROVE  BaselineInv'
    BY <1>2, BaselineUntouched
    DEF StartRead, ReadRoom, AskSender, AnswerAdmin, UseAnswer, CheckAdminFails, cache
  <1>3. ASSUME NEW t \in Tasks, NEW rs, ContainsStatic(rs), Adopt(t, rs), UNCHANGED view
        PROVE  BaselineInv'
    BY <1>3 DEF Adopt, BaselineInv, ContainsStatic
  <1>4. ASSUME NEW t \in Tasks, LoadStatic(t)
        PROVE  BaselineInv'
    BY <1>3, <1>4 DEF LoadStatic, ContainsStatic
  <1>5. ASSUME NEW t \in Tasks, ReadFails(t)
        PROVE  BaselineInv'
    <2>1. ContainsStatic(Fallback)
      BY DEF Fallback, BaselineInv, ContainsStatic
    <2>2. QED
      BY <1>3, <1>5, <2>1 DEF ReadFails
  <1>6. ASSUME NEW t \in Tasks, AdoptRead(t)
        PROVE  BaselineInv'
    <2>1. ContainsStatic(Loaded(hist[snap[t]], known[t]))
      BY LoadedContainsStatic DEF ContainsStatic
    <2>2. QED
      BY <1>3, <1>6, <2>1 DEF AdoptRead
  <1>7. ASSUME NEW t \in Tasks, ServeCached(t) \/ FinishRefresh(t)
        PROVE  BaselineInv'
    <2>1. rules # NoRules
      BY <1>7, StoreAssumption DEF ServeCached, NeedsRefresh, FinishRefresh, Asking, TaskStateOK
    <2>2. /\ UNCHANGED rules
          /\ pc' = [pc EXCEPT ![t] = "got"]
          /\ view' = [view EXCEPT ![t] = rules]
      BY <1>7 DEF ServeCached, FinishRefresh, cache
    <2>3. QED
      BY <2>1, <2>2 DEF BaselineInv, ContainsStatic
  <1>8. ASSUME NEW t \in Tasks, Return(t)
        PROVE  BaselineInv'
    BY <1>8 DEF Return, BaselineInv, ContainsStatic, cache
  <1>9. CASE Restart
    BY <1>9 DEF Restart, BaselineInv
  <1>10. CASE UNCHANGED vars
    BY <1>10, BaselineUntouched DEF vars, cache, task
  <1>11. QED
    BY <1>1, <1>2, <1>4, <1>5, <1>6, <1>7, <1>8, <1>9, <1>10 DEF Next, TaskStep, CallStep, AwaitStep

(***************************************************************************)
(* No callback is ever given rules weaker than the static baseline.        *)
(***************************************************************************)
THEOREM BaselineAlwaysServed == Spec => []BaselineServed
  <1>1. Init => BaselineInv
    BY DEF Init, BaselineInv
  <1>2. TypeOK /\ BaselineInv => BaselineServed
    <2> SUFFICES ASSUME TypeOK, BaselineInv, NEW t \in Tasks, pc[t] = "got", NEW u \in Names
                 PROVE  /\ IsProtected(Static, u) => IsProtected(view[t], u)
                        /\ u \in WellFormed /\ Hit(Static, "blocked_user", u)
                             => ~Allowed(view[t], u)
      BY DEF BaselineServed
    <2>1. view[t] \in RuleSet /\ Static \in RuleSet
      BY StoreAssumption DEF TypeOK, TaskStateOK
    <2>2. \A k \in Kinds : Static[k] \subseteq view[t][k]
      BY DEF BaselineInv, ContainsStatic
    <2>3. QED
      BY <2>1, <2>2, ContainingBaseline
  <1>3. QED
    BY <1>1, <1>2, BaselineInductive, TypeCorrect, PTL DEF Spec
-----------------------------------------------------------------------------
(***************************************************************************)
(* The rules in force are never much older than _loaded_at says, because   *)
(* the call that read them spent at most Latency ticks before it set it;   *)
(* and whoever is still in a call that adopted rules adopted them, or saw  *)
(* them replaced, within that call.                                        *)
(***************************************************************************)
TimeInv ==
  /\ rules # NoRules /\ fromRead => dataAge <= age + Latency
  /\ \A t \in Tasks : pc[t] = "checking" => age <= life[t]

\* Steps that leave the rules and the ages alone, and no new task checking.
LEMMA TimeUntouched ==
  ASSUME TimeInv, UNCHANGED <<rules, age, fromRead, dataAge, life>>,
         \A t \in Tasks : pc'[t] = "checking" => pc[t] = "checking"
  PROVE  TimeInv'
  BY DEF TimeInv

\* The age bound is inductive: one step per action.
LEMMA TimeInductive == TypeOK /\ TimeInv /\ [Next]_vars => TimeInv'
  <1> SUFFICES ASSUME TypeOK, TimeInv, [Next]_vars PROVE TimeInv'
    OBVIOUS
  <1> USE StoreAssumption, HorizonIsNat DEF TypeOK, StoreTypeOK, TaskTypeOK, GhostTypeOK
  <1>1. ASSUME RoomStep \/ \E v \in 1..MaxVersions : Deliver(v)
        PROVE  TimeInv'
    BY <1>1, TimeUntouched
    DEF RoomStep, SendRule, SetLevels, LoseRoom, SetAdmin, Deliver, cache, task, origin
  <1>2. ASSUME NEW t \in Tasks,
               \/ ServeCached(t) \/ ReadRoom(t) \/ FinishRefresh(t)
               \/ \E s \in Senders, answered \in BOOLEAN : AskSender(t, s, answered)
               \/ UseAnswer(t)
               \/ \E u \in Names : AnswerAdmin(t, u) \/ CheckAdminFails(t, u)
        PROVE  TimeInv'
    BY <1>2, TimeUntouched
    DEF ServeCached, ReadRoom, AskSender, AnswerAdmin, UseAnswer, CheckAdminFails, FinishRefresh, cache, origin
  <1>3. ASSUME NEW t \in Tasks, StartRead(t) \/ Return(t)
        PROVE  TimeInv'
    <2>1. /\ UNCHANGED <<rules, age, fromRead, dataAge>>
          /\ life' = [life EXCEPT ![t] = 0]
          /\ \A s \in Tasks : pc'[s] = "checking" => s # t /\ pc[s] = "checking"
      BY <1>3 DEF StartRead, Return, cache, origin
    <2>2. QED
      BY <2>1 DEF TimeInv
  <1>4. ASSUME NEW t \in Tasks, LoadStatic(t)
        PROVE  TimeInv'
    BY <1>4 DEF LoadStatic, Adopt, TimeInv, origin
  <1>5. ASSUME NEW t \in Tasks, ReadFails(t)
        PROVE  TimeInv'
    BY <1>5 DEF ReadFails, Adopt, TimeInv
  <1>6. ASSUME NEW t \in Tasks, AdoptRead(t)
        PROVE  TimeInv'
    BY <1>6 DEF AdoptRead, Adopt, TimeInv, TaskStateOK
  <1>7. CASE Tick
    <2>1. age' <= age + 1 /\ age' \in Nat /\ (age' = age + 1 \/ age' = Horizon)
      BY <1>7 DEF Tick, Smaller
    <2>2. dataAge' <= dataAge + 1 /\ dataAge' <= Horizon
      BY <1>7 DEF Tick, Smaller
    <2>3. rules' # NoRules /\ fromRead' => dataAge' <= age' + Latency
      BY <1>7, <2>1, <2>2 DEF Tick, TimeInv
    <2>4. ASSUME NEW t \in Tasks, pc'[t] = "checking"
          PROVE  age' <= life'[t]
      BY <1>7, <2>1, <2>4 DEF Tick, TimeInv, InFlight
    <2>5. QED
      BY <1>7, <2>3, <2>4 DEF Tick, TimeInv
  <1>8. CASE Restart
    BY <1>8 DEF Restart, TimeInv
  <1>9. CASE UNCHANGED vars
    BY <1>9, TimeUntouched DEF vars, cache, task, origin
  <1>10. QED
    BY <1>1, <1>2, <1>3, <1>4, <1>5, <1>6, <1>7, <1>8, <1>9 DEF Next, TaskStep, CallStep, AwaitStep

(***************************************************************************)
(* What a callback is given is at most refresh_interval_s and one call's   *)
(* latency behind the room, or two calls' latency, when reads succeed.     *)
(***************************************************************************)
THEOREM AnswersAreFresh == Spec => FreshEnough
  <1> DEFINE Fresh(t) == pc[t] # "got" /\ pc'[t] = "got" /\ fromRead =>
                           dataAge < RefreshInterval + Latency \/ dataAge <= 2 * Latency
  <1>1. Init => TimeInv
    BY StoreAssumption, Zenon DEF Init, TimeInv
  <1>2. TypeOK /\ TimeInv /\ [Next]_vars => \A t \in Tasks : Fresh(t)
    <2> SUFFICES ASSUME TypeOK, TimeInv, [Next]_vars, NEW t \in Tasks,
                        pc[t] # "got", pc'[t] = "got", fromRead
                 PROVE  dataAge < RefreshInterval + Latency \/ dataAge <= 2 * Latency
      OBVIOUS
    <2> USE StoreAssumption DEF TypeOK, StoreTypeOK, TaskTypeOK, GhostTypeOK
    <2>1. ServeCached(t) \/ FinishRefresh(t)
      <3>1. ~(RoomStep \/ Tick \/ (\E v \in 1..MaxVersions : Deliver(v)) \/ UNCHANGED vars)
        BY DEF RoomStep, SendRule, SetLevels, LoseRoom, SetAdmin, Tick, Deliver, vars, task
      <3>2. ~Restart
        BY DEF Restart
      <3>3. ASSUME NEW s \in Tasks, TaskStep(s)
            PROVE  ServeCached(t) \/ FinishRefresh(t)
        BY <3>3 DEF TaskStep, CallStep, AwaitStep, ServeCached, StartRead, LoadStatic, ReadRoom, ReadFails, AskSender,
           AdoptRead, AnswerAdmin, UseAnswer, CheckAdminFails, FinishRefresh, Return, Adopt
      <3>4. QED
        BY <3>1, <3>2, <3>3 DEF Next
    <2>2. CASE ServeCached(t)
      BY <2>2 DEF ServeCached, NeedsRefresh, Expired, TimeInv, Horizon
    <2>3. CASE FinishRefresh(t)
      BY <2>3 DEF FinishRefresh, Asking, TaskStateOK, TimeInv, Horizon
    <2>4. QED
      BY <2>1, <2>2, <2>3
  <1>3. QED
    BY <1>1, <1>2, TimeInductive, TypeCorrect, PTL DEF Spec, FreshEnough
-----------------------------------------------------------------------------
(***************************************************************************)
(* A read that ends after an invalidation arrived while none was in flight *)
(* began after it, so it read a version at least as new as the one the     *)
(* invalidation was about.                                                 *)
(***************************************************************************)
HeardInv ==
  /\ InvalidationHonoured
  /\ \A t \in Tasks : pc[t] = "trusting" => snap[t] >= heard

\* Steps that leave the rules and what was heard alone, and start no read.
LEMMA HeardUntouched ==
  ASSUME HeardInv, UNCHANGED <<rules, stale, fromRead, ver, heard, snap>>,
         \A t \in Tasks : pc'[t] = "trusting" => pc[t] = "trusting"
  PROVE  HeardInv'
  BY DEF HeardInv, InvalidationHonoured

\* An invalidation that arrives while no read is in flight is honoured: rules older
\* than it are stale.
THEOREM QuietInvalidationsHonoured == Spec => []InvalidationHonoured
  <1>1. Init => HeardInv
    BY Zenon DEF Init, HeardInv, InvalidationHonoured
  <1>2. TypeOK /\ HeardInv /\ [Next]_vars => HeardInv'
    <2> SUFFICES ASSUME TypeOK, HeardInv, [Next]_vars PROVE HeardInv'
      OBVIOUS
    <2> USE DEF TypeOK, RoomTypeOK, StoreTypeOK, TaskTypeOK, GhostTypeOK
    <2>1. ASSUME RoomStep \/ Tick
          PROVE  HeardInv'
      BY <2>1, HeardUntouched
      DEF RoomStep, SendRule, SetLevels, LoseRoom, SetAdmin, Tick, cache, task, origin
    <2>2. ASSUME NEW v \in 1..MaxVersions, Deliver(v)
          PROVE  HeardInv'
      BY <2>2 DEF Deliver, HeardInv, InvalidationHonoured, Larger, room, task, origin
    <2>3. ASSUME NEW t \in Tasks,
                 \/ ServeCached(t) \/ StartRead(t) \/ FinishRefresh(t)
                 \/ \E s \in Senders, answered \in BOOLEAN : AskSender(t, s, answered)
                 \/ UseAnswer(t)
                 \/ \E u \in Names : AnswerAdmin(t, u) \/ CheckAdminFails(t, u)
          PROVE  HeardInv'
      BY <2>3, HeardUntouched
      DEF ServeCached, StartRead, AskSender, AnswerAdmin, UseAnswer, CheckAdminFails, FinishRefresh,
          cache, origin
    <2>4. ASSUME NEW t \in Tasks, LoadStatic(t)
          PROVE  HeardInv'
      <3>1. ~fromRead'
        BY <2>4 DEF LoadStatic, origin
      <3>2. QED
        BY <2>4, <3>1 DEF LoadStatic, Adopt, HeardInv, InvalidationHonoured, origin
    <2>5. ASSUME NEW t \in Tasks, ReadRoom(t)
          PROVE  HeardInv'
      BY <2>5 DEF ReadRoom, HeardInv, InvalidationHonoured, cache, origin
    <2>6. ASSUME NEW t \in Tasks, ReadFails(t)
          PROVE  HeardInv'
      BY <2>6 DEF ReadFails, Adopt, HeardInv, InvalidationHonoured
    <2>7. ASSUME NEW t \in Tasks, AdoptRead(t)
          PROVE  HeardInv'
      BY <2>7 DEF AdoptRead, Adopt, HeardInv, InvalidationHonoured
    <2>8. ASSUME NEW t \in Tasks, Return(t)
          PROVE  HeardInv'
      BY <2>8 DEF Return, HeardInv, InvalidationHonoured, cache, origin
    <2>9. CASE Restart
      BY <2>9 DEF Restart, HeardInv, InvalidationHonoured
    <2>10. CASE UNCHANGED vars
      BY <2>10, HeardUntouched DEF vars, cache, task, origin
    <2>11. QED
      BY <2>1, <2>2, <2>3, <2>4, <2>5, <2>6, <2>7, <2>8, <2>9, <2>10 DEF Next, TaskStep, CallStep, AwaitStep
  <1>3. HeardInv => InvalidationHonoured
    BY DEF HeardInv
  <1>4. QED
    BY <1>1, <1>2, <1>3, TypeCorrect, PTL DEF Spec
-----------------------------------------------------------------------------
(***************************************************************************)
(* _check_admins tests _warned_admins and updates it in one step, but what *)
(* it acts on was answered before.  While a user is an admin no look-up    *)
(* finds them to be none, so the answers that do so only get fewer; and    *)
(* each of them makes room for one report more, by taking the user out of  *)
(* those warned of.                                                        *)
(***************************************************************************)
AlertInv ==
  \A u \in admins : reports[u] + OnTheirWay(u) <= late[u] + IF u \in warned THEN 1 ELSE 0

\* An answer that is used is no longer on its way.
LEMMA OneAnswerLess ==
  ASSUME NEW t \in Tasks, NEW u \in no[t],
         no \in [Tasks -> SUBSET Names], no' = [no EXCEPT ![t] = {}]
  PROVE  OnTheirWay(u)' = OnTheirWay(u) - 1
  <1> DEFINE Waiting == {s \in Tasks : u \in no[s]}
  <1>1. IsFiniteSet(Waiting) /\ t \in Waiting
    BY StoreAssumption, FS_Subset
  <1>2. {s \in Tasks : u \in no'[s]} = Waiting \ {t}
    OBVIOUS
  <1>3. Cardinality(Waiting \ {t}) = Cardinality(Waiting) - 1
    BY <1>1, FS_RemoveElement
  <1>4. QED
    BY <1>2, <1>3 DEF OnTheirWay

\* Whoever is found in the same callbacks' answers has as many on their way.
LEMMA AsManyOnTheirWay ==
  ASSUME NEW u, \A s \in Tasks : u \in no'[s] <=> u \in no[s]
  PROVE  OnTheirWay(u)' = OnTheirWay(u)
  <1>1. {s \in Tasks : u \in no'[s]} = {s \in Tasks : u \in no[s]}
    OBVIOUS
  <1>2. QED
    BY <1>1 DEF OnTheirWay

\* No step reports an admin for whom no outdated answer made room.
LEMMA AlertInductive == TypeOK /\ AlertInv /\ [Next]_vars => AlertInv'
  <1> SUFFICES ASSUME TypeOK, AlertInv, [Next]_vars PROVE AlertInv'
    OBVIOUS
  <1>0. /\ admins \subseteq Operators
        /\ reports \in [Operators -> Nat] /\ late \in [Operators -> Nat]
        /\ no \in [Tasks -> SUBSET Names]
    BY DEF TypeOK, RoomTypeOK, TaskTypeOK, GhostTypeOK
  <1>1. ASSUME NEW u \in Operators, NEW A \in SUBSET Operators, SetAdmin(u, A)
        PROVE  AlertInv'
    <2> SUFFICES ASSUME NEW w \in A
                 PROVE  reports'[w] + OnTheirWay(w)' <= late'[w] + IF w \in warned' THEN 1 ELSE 0
      BY <1>1 DEF SetAdmin, AlertInv
    <2>1. OnTheirWay(w)' = OnTheirWay(w) /\ UNCHANGED warned
      BY <1>1, AsManyOnTheirWay DEF SetAdmin, task, check
    <2>2. CASE w = u
      <3>1. reports'[w] = 0 /\ late'[w] = OnTheirWay(w)
        BY <1>0, <1>1, <2>2 DEF SetAdmin
      <3>2. QED
        BY <2>1, <3>1, OnTheirWayIsNat
    <2>3. CASE w # u
      <3>1. w \in admins /\ reports'[w] = reports[w] /\ late'[w] = late[w]
        BY <1>0, <1>1, <2>3 DEF SetAdmin
      <3>2. QED
        BY <2>1, <3>1 DEF AlertInv
    <2>4. QED
      BY <2>2, <2>3
  <1>2. ASSUME NEW t \in Tasks, NEW u \in Names, AnswerAdmin(t, u)
        PROVE  AlertInv'
    <2>1. ASSUME NEW w \in admins
          PROVE  OnTheirWay(w)' = OnTheirWay(w)
      <3>1. \A s \in Tasks : w \in no'[s] <=> w \in no[s]
        BY <1>0, <1>2 DEF AnswerAdmin, Asking
      <3>2. QED
        BY <3>1, AsManyOnTheirWay
    <2>2. QED
      BY <1>2, <2>1 DEF AnswerAdmin, AlertInv, room, alerts
  <1>3. ASSUME NEW t \in Tasks, UseAnswer(t)
        PROVE  AlertInv'
    <2> SUFFICES ASSUME NEW u \in admins
                 PROVE  reports'[u] + OnTheirWay(u)' <= late'[u] + IF u \in warned' THEN 1 ELSE 0
      BY <1>3 DEF UseAnswer, AlertInv, room
    <2>1. /\ reports[u] \in Nat /\ late[u] \in Nat /\ late'[u] = late[u]
          /\ OnTheirWay(u) \in Nat
          /\ reports[u] + OnTheirWay(u) <= late[u] + IF u \in warned THEN 1 ELSE 0
      BY <1>0, <1>3, OnTheirWayIsNat DEF UseAnswer, AlertInv
    <2>2. reports'[u] = reports[u] + IF u \in yes[t] \ warned THEN 1 ELSE 0
      BY <1>0, <1>3 DEF UseAnswer
    <2>3. u \in warned' <=> u \in yes[t] \/ u \in warned \ no[t]
      BY <1>3 DEF UseAnswer
    <2>4. CASE u \in no[t]
      <3>1. OnTheirWay(u)' = OnTheirWay(u) - 1
        BY <1>0, <1>3, <2>4, OneAnswerLess DEF UseAnswer
      <3>2. QED
        BY <2>1, <2>2, <2>3, <2>4, <3>1
    <2>5. CASE u \notin no[t]
      <3>1. OnTheirWay(u)' = OnTheirWay(u)
        BY <1>0, <1>3, <2>5, AsManyOnTheirWay DEF UseAnswer
      <3>2. QED
        BY <2>1, <2>2, <2>3, <2>5, <3>1
    <2>6. QED
      BY <2>4, <2>5
  <1>4. CASE Restart
    <2>1. \A u : {t \in Tasks : u \in no'[t]} = {}
      BY <1>4 DEF Restart
    <2>2. \A u : OnTheirWay(u)' = 0
      BY <2>1, FS_EmptySet DEF OnTheirWay
    <2>3. \A u \in admins' : reports'[u] = 0 /\ late'[u] = 0
      BY <1>0, <1>4 DEF Restart, room
    <2>4. QED
      BY <2>2, <2>3 DEF AlertInv
  <1>5. CASE UNCHANGED <<warned, reports, late, admins, no>>
    BY <1>5 DEF AlertInv, OnTheirWay
  <1>6. ASSUME NEW t \in Tasks, CallStep(t) \/ AwaitStep(t)
        PROVE  \/ UNCHANGED <<warned, reports, late, admins, no>>
               \/ UseAnswer(t) \/ \E u \in Names : AnswerAdmin(t, u)
    BY <1>6 DEF CallStep, AwaitStep, ServeCached, StartRead, LoadStatic, ReadRoom, ReadFails,
       AskSender, AdoptRead, Adopt, CheckAdminFails, FinishRefresh, Return, room, alerts, check
  <1>7. ASSUME RoomStep \/ Tick \/ (\E v \in 1..MaxVersions : Deliver(v)) \/ UNCHANGED vars
        PROVE  \/ UNCHANGED <<warned, reports, late, admins, no>>
               \/ \E u \in Operators, A \in SUBSET Operators : SetAdmin(u, A)
    BY <1>7 DEF RoomStep, SendRule, SetLevels, LoseRoom, Tick, Deliver, vars, room, task, check,
       alerts
  <1>8. QED
    BY <1>1, <1>2, <1>3, <1>4, <1>5, <1>6, <1>7 DEF Next, TaskStep

(***************************************************************************)
(* A protected user who is a server admin is reported once while they stay *)
(* one, and once more for each answer at most that was given before they   *)
(* became one: for any number of callbacks that refresh at once.           *)
(***************************************************************************)
THEOREM ReportsBounded == Spec => []NoNeedlessReport
  <1>1. Init => AlertInv
    BY DEF Init, AlertInv
  <1>2. TypeOK /\ AlertInv => NoNeedlessReport
    <2> SUFFICES ASSUME TypeOK, AlertInv, NEW u \in admins
                 PROVE  reports[u] <= 1 + late[u]
      BY DEF NoNeedlessReport
    <2>1. reports[u] \in Nat /\ late[u] \in Nat /\ OnTheirWay(u) \in Nat
      BY OnTheirWayIsNat DEF TypeOK, RoomTypeOK, GhostTypeOK
    <2>2. reports[u] + OnTheirWay(u) <= late[u] + IF u \in warned THEN 1 ELSE 0
      BY DEF AlertInv
    <2>3. QED
      BY <2>1, <2>2
  <1>3. QED
    BY <1>1, <1>2, AlertInductive, TypeCorrect, PTL DEF Spec
-----------------------------------------------------------------------------
(***************************************************************************)
(* PolicyStore implements RuleCache.  A refresh loads what one version of  *)
(* the room gives with the senders it found to be admins, all of whom have *)
(* been admins; everything else maps to an answer or to a stutter.         *)
(***************************************************************************)
\* Whom a refresh takes for a server admin was one; without a control room
\* there is nothing but the static rules.
KnownInv ==
  /\ \A t \in Tasks : known[t] \subseteq everAdmin
  /\ ~HasRoom /\ rules # NoRules => rules = Static

\* The room only ever adds versions, and once an admin is for ever one who was.
LEMMA HistoryGrows ==
  ASSUME TypeOK, [Next]_vars
  PROVE  /\ everAdmin \subseteq everAdmin'
         /\ \/ UNCHANGED hist
            \/ /\ Len(hist') = Len(hist) + 1
               /\ \A v \in 1..Len(hist) : hist'[v] = hist[v]
  <1> DEFINE Grows == \/ UNCHANGED hist
                      \/ /\ Len(hist') = Len(hist) + 1
                         /\ \A v \in 1..Len(hist) : hist'[v] = hist[v]
  <1>0. Current \in Rooms /\ hist \in Seq(Rooms)
    BY CurrentIsRoom DEF TypeOK, RoomTypeOK
  <1>1. ASSUME NEW r, NewVersion(r)
        PROVE  Grows
    BY <1>0, <1>1 DEF NewVersion
  <1>2. ASSUME RoomStep
        PROVE  everAdmin \subseteq everAdmin' /\ Grows
    BY <1>1, <1>2 DEF RoomStep, SendRule, SetLevels, LoseRoom, SetAdmin
  <1>3. ASSUME NEW t \in Tasks, TaskStep(t)
        PROVE  UNCHANGED room
    BY <1>3 DEF TaskStep, CallStep, AwaitStep, ServeCached, StartRead, LoadStatic, ReadRoom, ReadFails, AskSender,
       AdoptRead, AnswerAdmin, UseAnswer, CheckAdminFails, FinishRefresh, Return
  <1>4. ASSUME Tick \/ Restart \/ (\E v \in 1..MaxVersions : Deliver(v)) \/ UNCHANGED vars
        PROVE  UNCHANGED room
    BY <1>4 DEF Tick, Restart, Deliver, vars
  <1>5. QED
    BY <1>2, <1>3, <1>4 DEF Next, room

\* No read trusts a sender who was never an admin.
LEMMA KnownInductive == TypeOK /\ KnownInv /\ [Next]_vars => KnownInv'
  <1> SUFFICES ASSUME TypeOK, KnownInv, [Next]_vars PROVE KnownInv'
    OBVIOUS
  <1> USE DEF TypeOK, RoomTypeOK, TaskTypeOK
  <1>1. everAdmin \subseteq everAdmin'
    BY HistoryGrows
  <1>2. ASSUME NEW t \in Tasks, NEW s \in Senders, NEW answered \in BOOLEAN,
               AskSender(t, s, answered)
        PROVE  KnownInv'
    BY <1>1, <1>2 DEF AskSender, KnownInv, cache
  <1>3. ASSUME NEW t \in Tasks, ReadRoom(t) \/ Return(t)
        PROVE  KnownInv'
    BY <1>1, <1>3 DEF ReadRoom, Return, KnownInv, cache
  <1>4. CASE Restart
    BY <1>4 DEF Restart, KnownInv
  <1>5. CASE UNCHANGED <<known, rules>>
    BY <1>1, <1>5 DEF KnownInv
  <1>6. ASSUME RoomStep \/ Tick \/ (\E v \in 1..MaxVersions : Deliver(v)) \/ UNCHANGED vars
        PROVE  UNCHANGED <<known, rules>>
    BY <1>6 DEF RoomStep, SendRule, SetLevels, LoseRoom, SetAdmin, Tick, Deliver, vars, task, cache
  <1>7. ASSUME NEW t \in Tasks,
               \/ ServeCached(t) \/ StartRead(t) \/ FinishRefresh(t)
               \/ UseAnswer(t)
               \/ \E u \in Names : AnswerAdmin(t, u) \/ CheckAdminFails(t, u)
        PROVE  UNCHANGED <<known, rules>>
    BY <1>7 DEF ServeCached, StartRead, AnswerAdmin, UseAnswer, CheckAdminFails, FinishRefresh, cache
  <1>8. ASSUME NEW t \in Tasks, LoadStatic(t) \/ ReadFails(t) \/ AdoptRead(t)
        PROVE  KnownInv'
    <2>1. UNCHANGED known /\ (HasRoom \/ rules' = Static)
      BY <1>8 DEF LoadStatic, ReadFails, AdoptRead, Adopt, TaskStateOK
    <2>2. QED
      BY <1>1, <2>1 DEF KnownInv
  <1>9. QED
    BY <1>2, <1>3, <1>4, <1>5, <1>6, <1>7, <1>8 DEF Next, TaskStep, CallStep, AwaitStep

\* Whatever the room has on offer is a well-formed rule set.
LEMMA OfferedTyped == Offered \subseteq RuleSet
  <1> SUFFICES ASSUME NEW x \in Offered PROVE x \in RuleSet
    OBVIOUS
  <1>1. PICK v \in 1..Len(hist) : x \in OfferedBy(hist[v])
    BY DEF Offered
  <1>2. PICK A \in SUBSET everAdmin : x = Build(Accepted(hist[v], A))
    BY <1>1 DEF OfferedBy
  <1>3. QED
    BY <1>2, BuildType

\* What the room has on offer is never withdrawn, and is made of rule sets.
LEMMA OfferedGrows ==
  ASSUME TypeOK, [Next]_vars
  PROVE  Offered \subseteq Offered' /\ Offered' \subseteq RuleSet
  <1>1. ASSUME NEW x \in Offered'
        PROVE  x \in RuleSet
    <2>1. PICK v \in 1..Len(hist') : x \in OfferedBy(hist[v])'
      BY <1>1 DEF Offered
    <2>2. PICK A \in SUBSET everAdmin' : x = Build(Accepted(hist'[v], A))
      BY <2>1 DEF OfferedBy
    <2>3. QED
      BY <2>2, BuildType
  <1>2. ASSUME NEW x \in Offered
        PROVE  x \in Offered'
    <2>1. PICK v \in 1..Len(hist) : x \in OfferedBy(hist[v])
      BY <1>2 DEF Offered
    <2>2. everAdmin \subseteq everAdmin' /\ v \in 1..Len(hist') /\ hist'[v] = hist[v]
      BY HistoryGrows DEF TypeOK, RoomTypeOK
    <2>3. x \in OfferedBy(hist[v])'
      BY <2>1, <2>2 DEF OfferedBy
    <2>4. QED
      BY <2>2, <2>3 DEF Offered
  <1>3. QED
    BY <1>1, <1>2

\* Only the room's own steps put anything new on offer.
LEMMA OfferedKept == ASSUME UNCHANGED room PROVE UNCHANGED Offered
  <1>1. hist' = hist /\ everAdmin' = everAdmin
    BY DEF room
  <1>2. QED
    BY <1>1 DEF Offered, OfferedBy

\* RuleCache reads the same rule logic.
LEMMA SamePolicy ==
  /\ Cache!RuleSet = RuleSet
  /\ \A rs, other : Cache!Merge(rs, other) = Merge(rs, other)
  BY DEF Cache!RuleSet, RuleSet, Cache!Merge, Merge, Cache!Kinds, Kinds, Cache!RuleKinds, RuleKinds

\* The store with its interleaved refreshes implements RuleCache: every step of it is
\* a step of the cache, or changes nothing there.
THEOREM ImplementsCache == Spec => ImplementsRuleCache
  <1> USE DEF TypeOK, RoomTypeOK, TaskTypeOK
  <1>1. Init => KnownInv /\ Cache!CacheInit
    <2> SUFFICES ASSUME Init PROVE KnownInv /\ Cache!CacheInit
      OBVIOUS
    <2>1. KnownInv
      BY DEF Init, KnownInv
    <2>2. Offered \subseteq RuleSet
      BY OfferedTyped
    <2>3. QED
      BY <2>1, <2>2, SamePolicy DEF Init, Cache!CacheInit
  <1>2. TypeOK /\ KnownInv /\ [Next]_vars => KnownInv'
    BY KnownInductive
  <1>3. TypeOK /\ KnownInv /\ [Next]_vars => [Cache!CacheNext]_(Cache!cacheVars)
    <2> SUFFICES ASSUME TypeOK, KnownInv, [Next]_vars
                 PROVE  Cache!CacheNext \/ UNCHANGED Cache!cacheVars
      OBVIOUS
    <2>1. ASSUME UNCHANGED <<rules, view>>
          PROVE  Cache!Offer
      BY <2>1, OfferedGrows, SamePolicy DEF Cache!Offer
    <2>2. ASSUME NEW t \in Tasks, TaskStep(t)
          PROVE  UNCHANGED Offered
      BY <2>2, OfferedKept DEF TaskStep, CallStep, AwaitStep, ServeCached, StartRead, LoadStatic, ReadRoom, ReadFails,
         AskSender, AdoptRead, AnswerAdmin, UseAnswer, CheckAdminFails, FinishRefresh, Return
    <2>3. ASSUME NEW t \in Tasks, LoadStatic(t) \/ ReadFails(t)
          PROVE  Cache!RunOnStatic \/ UNCHANGED <<rules, view>>
      <3>1. ((rules = NoRules /\ rules' = Static) \/ UNCHANGED rules) /\ UNCHANGED view
        BY <2>3 DEF LoadStatic, ReadFails, Adopt, Fallback, KnownInv
      <3>2. UNCHANGED Offered
        BY <2>2, <2>3 DEF TaskStep, CallStep, AwaitStep
      <3>3. QED
        BY <3>1, <3>2 DEF Cache!RunOnStatic
    <2>4. ASSUME NEW t \in Tasks, AdoptRead(t)
          PROVE  Cache!Load
      <3>1. /\ snap[t] \in 1..Len(hist)
            /\ known[t] \in SUBSET everAdmin
        BY <2>4 DEF AdoptRead, TaskStateOK, KnownInv
      <3>2. Build(Accepted(hist[snap[t]], known[t])) \in Offered
        <4>1. Build(Accepted(hist[snap[t]], known[t])) \in OfferedBy(hist[snap[t]])
          BY <3>1 DEF OfferedBy
        <4>2. QED
          BY <3>1, <4>1 DEF Offered
      <3>3. rules' = Merge(Static, Build(Accepted(hist[snap[t]], known[t]))) /\ UNCHANGED view
        BY <2>4 DEF AdoptRead, Adopt, Loaded
      <3>4. UNCHANGED Offered
        BY <2>2, <2>4 DEF TaskStep, CallStep, AwaitStep
      <3>5. QED
        BY <3>2, <3>3, <3>4, SamePolicy DEF Cache!Load
    <2>5. ASSUME NEW t \in Tasks, ServeCached(t) \/ FinishRefresh(t)
          PROVE  Cache!Answer(t)
      <3>1. rules # NoRules
        BY <2>5, StoreAssumption DEF ServeCached, NeedsRefresh, FinishRefresh, Asking, TaskStateOK
      <3>2. view' = [view EXCEPT ![t] = rules] /\ UNCHANGED rules
        BY <2>5 DEF ServeCached, FinishRefresh, cache
      <3>3. UNCHANGED Offered
        BY <2>2, <2>5 DEF TaskStep, CallStep, AwaitStep
      <3>4. QED
        BY <3>1, <3>2, <3>3 DEF Cache!Answer
    <2>6. ASSUME NEW t \in Tasks, Return(t)
          PROVE  Cache!Release(t)
      <3>1. UNCHANGED Offered
        BY <2>2, <2>6 DEF TaskStep, CallStep, AwaitStep
      <3>2. QED
        BY <2>6, <3>1 DEF Return, Cache!Release, cache
    <2>7. CASE Restart
      <3>1. UNCHANGED Offered
        BY <2>7, OfferedKept DEF Restart
      <3>2. rules' = NoRules /\ view' = [t \in Tasks |-> NoRules]
        BY <2>7 DEF Restart
      <3>3. QED
        BY <3>1, <3>2 DEF Cache!Forget, Cache!CacheNext
    <2>8. ASSUME NEW t \in Tasks,
                 \/ StartRead(t) \/ ReadRoom(t)
                 \/ \E s \in Senders, answered \in BOOLEAN : AskSender(t, s, answered)
                 \/ UseAnswer(t)
                 \/ \E u \in Names : AnswerAdmin(t, u) \/ CheckAdminFails(t, u)
          PROVE  UNCHANGED <<rules, view>>
      BY <2>8 DEF StartRead, ReadRoom, AskSender, AnswerAdmin, UseAnswer, CheckAdminFails, cache
    <2>9. ASSUME RoomStep \/ Tick \/ (\E v \in 1..MaxVersions : Deliver(v)) \/ UNCHANGED vars
          PROVE  UNCHANGED <<rules, view>>
      BY <2>9 DEF RoomStep, SendRule, SetLevels, LoseRoom, SetAdmin, Tick, Deliver, vars, task, cache
    <2>10. QED
      BY <2>1, <2>3, <2>4, <2>5, <2>6, <2>7, <2>8, <2>9 DEF Next, TaskStep, CallStep, AwaitStep, Cache!CacheNext
  <1>4. QED
    BY <1>1, <1>2, <1>3, TypeCorrect, PTL DEF Spec, ImplementsRuleCache, Cache!CacheSpec
-----------------------------------------------------------------------------
(***************************************************************************)
(* Where the rules in force came from. Either they are the static ones and *)
(* no read stands behind them, or they are what one version of the room    *)
(* gives with senders who have all been server admins: nothing that comes  *)
(* between the awaits of a refresh, and no refresh that overlaps it, can   *)
(* mix two versions or two judgements. Both halves of what a refresh       *)
(* promises about senders follow from this and from what Loaded does.      *)
(***************************************************************************)
OriginInv ==
  rules # NoRules =>
    \/ rules = Static /\ ~fromRead
    \/ ver # 0 /\ \E A \in SUBSET everAdmin : rules = Loaded(hist[ver], A)

\* A version that was read is never rewritten, and no admin is forgotten.
LEMMA OriginUntouched ==
  ASSUME TypeOK, OriginInv, [Next]_vars, UNCHANGED <<rules, ver, fromRead>>
  PROVE  OriginInv'
  <1> SUFFICES ASSUME rules' # NoRules PROVE OriginInv'
    BY DEF OriginInv
  <1>1. CASE rules = Static /\ ~fromRead
    BY <1>1 DEF OriginInv
  <1>2. ASSUME ver # 0, NEW A \in SUBSET everAdmin, rules = Loaded(hist[ver], A)
        PROVE  OriginInv'
    <2>1. A \in SUBSET everAdmin' /\ hist'[ver] = hist[ver]
      BY <1>2, HistoryGrows DEF TypeOK, RoomTypeOK, GhostTypeOK
    <2>2. rules' = Loaded(hist'[ver'], A)
      BY <1>2, <2>1
    <2>3. QED
      BY <1>2, <2>1, <2>2 DEF OriginInv
  <1>3. QED
    BY <1>1, <1>2 DEF OriginInv

\* No step blends two versions of the room or two judgements of its senders.
LEMMA OriginInductive == TypeOK /\ KnownInv /\ OriginInv /\ [Next]_vars => OriginInv'
  <1> SUFFICES ASSUME TypeOK, KnownInv, OriginInv, [Next]_vars PROVE OriginInv'
    OBVIOUS
  <1>1. ASSUME NEW t \in Tasks, LoadStatic(t)
        PROVE  OriginInv'
    <2>1. rules' = Static /\ ~fromRead'
      BY <1>1 DEF LoadStatic, Adopt, TypeOK, GhostTypeOK, origin
    <2>2. QED
      BY <2>1 DEF OriginInv
  <1>2. ASSUME NEW t \in Tasks, ReadFails(t)
        PROVE  OriginInv'
    <2>1. /\ rules' = Fallback /\ ~fromRead'
          /\ UNCHANGED <<hist, everAdmin, ver>>
      BY <1>2 DEF ReadFails, Adopt, room
    <2>2. CASE rules = NoRules
      BY <2>1, <2>2 DEF Fallback, OriginInv
    <2>3. CASE rules # NoRules /\ rules = Static
      BY <2>1, <2>3 DEF Fallback, OriginInv
    <2>4. ASSUME rules # NoRules, ver # 0, NEW A \in SUBSET everAdmin,
                 rules = Loaded(hist[ver], A)
          PROVE  OriginInv'
      <3>1. rules' = Loaded(hist'[ver'], A)
        BY <2>1, <2>4 DEF Fallback
      <3>2. QED
        BY <2>1, <2>4, <3>1 DEF OriginInv
    <2>5. QED
      BY <2>2, <2>3, <2>4 DEF OriginInv
  <1>3. ASSUME NEW t \in Tasks, AdoptRead(t)
        PROVE  OriginInv'
    <2>1. /\ rules' = Loaded(hist[snap[t]], known[t])
          /\ ver' = snap[t] /\ snap[t] # 0
          /\ UNCHANGED <<hist, everAdmin>>
      BY <1>3 DEF AdoptRead, Adopt, TypeOK, TaskStateOK, room
    <2>2. known[t] \in SUBSET everAdmin'
      BY <2>1 DEF KnownInv
    <2>3. rules' = Loaded(hist'[ver'], known[t])
      BY <2>1
    <2>4. QED
      BY <2>1, <2>2, <2>3 DEF OriginInv
  <1>4. CASE Restart
    BY <1>4 DEF Restart, OriginInv
  <1>5. ASSUME NEW t \in Tasks,
               \/ ServeCached(t) \/ StartRead(t) \/ ReadRoom(t) \/ FinishRefresh(t) \/ Return(t)
               \/ \E s \in Senders, answered \in BOOLEAN : AskSender(t, s, answered)
               \/ UseAnswer(t)
               \/ \E u \in Names : AnswerAdmin(t, u) \/ CheckAdminFails(t, u)
        PROVE  UNCHANGED <<rules, ver, fromRead>>
    BY <1>5 DEF ServeCached, StartRead, ReadRoom, AskSender, AnswerAdmin, UseAnswer, CheckAdminFails,
       FinishRefresh, Return, cache, origin
  <1>6. ASSUME RoomStep \/ Tick \/ (\E v \in 1..MaxVersions : Deliver(v)) \/ UNCHANGED vars
        PROVE  UNCHANGED <<rules, ver, fromRead>>
    BY <1>6 DEF RoomStep, SendRule, SetLevels, LoseRoom, SetAdmin, Tick, Deliver, vars, cache, origin
  <1>7. QED
    BY <1>1, <1>2, <1>3, <1>4, <1>5, <1>6, OriginUntouched DEF Next, TaskStep, CallStep, AwaitStep

(***************************************************************************)
(* What a refresh adds to the static rules comes from an entry it did not  *)
(* refuse; and it takes every valid entry it does not refuse.              *)
(***************************************************************************)
LEMMA LoadedFromEntries ==
  ASSUME NEW r, NEW A, NEW k \in Kinds, NEW n \in Loaded(r, A)[k] \ Static[k]
  PROVE  \E s \in Active(r) : /\ s[1] = k /\ n = Stored(k, EntityOf(r, s))
                              /\ ~Refuses(r, r.entry[s].sender, k, A)
  <1>1. n \in Build(Accepted(r, A))[k]
    BY DEF Loaded, Merge
  <1>2. PICK m \in Valid[k] : <<k, m>> \in Accepted(r, A) /\ n = Stored(k, m)
    BY <1>1 DEF Build
  <1>3. PICK s \in Active(r) : /\ ~Refuses(r, r.entry[s].sender, s[1], A)
                               /\ <<k, m>> = <<s[1], EntityOf(r, s)>>
    BY <1>2 DEF Accepted
  <1>4. s[1] = k /\ EntityOf(r, s) = m
    BY <1>3
  <1>5. QED
    BY <1>2, <1>3, <1>4

\* An entry that is not refused is among the rules that are loaded.
LEMMA LoadedKeepsEntries ==
  ASSUME NEW r, NEW A, NEW s \in Active(r), EntityOf(r, s) \in Valid[s[1]],
         ~Refuses(r, r.entry[s].sender, s[1], A)
  PROVE  Stored(s[1], EntityOf(r, s)) \in Loaded(r, A)[s[1]]
  <1>1. s[1] \in Kinds
    BY StoreAssumption DEF Active
  <1>2. EntityOf(r, s) \in Names
    BY <1>1, PolicyAssumption
  <1>3. <<s[1], EntityOf(r, s)>> \in Accepted(r, A)
    BY <1>2 DEF Accepted
  <1>4. Stored(s[1], EntityOf(r, s)) \in Build(Accepted(r, A))[s[1]]
    BY <1>1, <1>3 DEF Build
  <1>5. QED
    BY <1>1, <1>4 DEF Loaded, Merge

\* The invariant that the next two theorems rest on.
LEMMA OriginKnown == Spec => [](KnownInv /\ OriginInv)
  <1>1. Init => KnownInv /\ OriginInv
    BY DEF Init, KnownInv, OriginInv
  <1>2. TypeOK /\ KnownInv /\ OriginInv /\ [Next]_vars => (KnownInv /\ OriginInv)'
    BY KnownInductive, OriginInductive
  <1>3. QED
    BY <1>1, <1>2, TypeCorrect, PTL DEF Spec

(***************************************************************************)
(* Nobody adds to the rules but local users whom the version that was read *)
(* empowers, or who have been server admins: for any number of refreshes   *)
(* that overlap and any edits and demotions between their awaits.          *)
(***************************************************************************)
THEOREM RulesAreAuthorised == Spec => []OnlyAuthorisedRules
  <1>1. OriginInv => OnlyAuthorisedRules
    <2> SUFFICES ASSUME OriginInv, rules # NoRules,
                        NEW k \in Kinds, NEW n \in rules[k] \ Static[k]
                 PROVE  /\ ver # 0
                        /\ \E s \in Active(hist[ver]) :
                             /\ s[1] = k /\ n = Stored(k, EntityOf(hist[ver], s))
                             /\ hist[ver].entry[s].sender \in Mine
                             /\ \/ hist[ver].entry[s].sender \in everAdmin
                                \/ Empowered(hist[ver], hist[ver].entry[s].sender, k)
      BY DEF OnlyAuthorisedRules
    <2>1. PICK A \in SUBSET everAdmin : rules = Loaded(hist[ver], A)
      BY DEF OriginInv
    <2>2. ver # 0
      BY DEF OriginInv
    <2>3. PICK s \in Active(hist[ver]) :
            /\ s[1] = k /\ n = Stored(k, EntityOf(hist[ver], s))
            /\ ~Refuses(hist[ver], hist[ver].entry[s].sender, k, A)
      BY <2>1, LoadedFromEntries
    <2>4. /\ hist[ver].entry[s].sender \in Mine
          /\ \/ hist[ver].entry[s].sender \in everAdmin
             \/ Empowered(hist[ver], hist[ver].entry[s].sender, k)
      BY <2>3 DEF Refuses
    <2>5. QED
      BY <2>2, <2>3, <2>4
  <1>2. QED
    BY <1>1, OriginKnown, PTL

(***************************************************************************)
(* No valid entry of a local sender the levels empower is lost, whatever   *)
(* the admin look-ups answered meanwhile.                                  *)
(***************************************************************************)
THEOREM EmpoweredEntriesKept == Spec => []NothingDropped
  <1>1. OriginInv => NothingDropped
    <2> SUFFICES ASSUME OriginInv, rules # NoRules, fromRead,
                        NEW s \in Active(hist[ver]),
                        hist[ver].entry[s].sender \in Mine,
                        Empowered(hist[ver], hist[ver].entry[s].sender, s[1]),
                        EntityOf(hist[ver], s) \in Valid[s[1]]
                 PROVE  Stored(s[1], EntityOf(hist[ver], s)) \in rules[s[1]]
      BY DEF NothingDropped
    <2>1. PICK A \in SUBSET everAdmin : rules = Loaded(hist[ver], A)
      BY DEF OriginInv
    <2>2. ~Refuses(hist[ver], hist[ver].entry[s].sender, s[1], A)
      BY DEF Refuses
    <2>3. QED
      BY <2>1, <2>2, LoadedKeepsEntries
  <1>2. QED
    BY <1>1, OriginKnown, PTL

\* Whoever a version protects without any admin, it protects with some.
LEMMA ProtectedByLevels ==
  ASSUME NEW r, NEW A, NEW u, IsProtected(Loaded(r, {}), u)
  PROVE  IsProtected(Loaded(r, A), u)
  <1>1. Accepted(r, {}) \subseteq Accepted(r, A)
    BY DEF Accepted, Refuses
  <1>2. Build(Accepted(r, {}))["protected_user"] \subseteq Build(Accepted(r, A))["protected_user"]
    BY <1>1 DEF Build, Kinds
  <1>3. QED
    BY <1>2 DEF IsProtected, Loaded, Merge, Kinds

(***************************************************************************)
(* Only a read of the room that succeeds can take protection away, and     *)
(* only from users whom no empowered sender's entry protects in what it    *)
(* read.                                                                   *)
(***************************************************************************)
THEOREM OnlyReadsUnprotect == Spec => ProtectionLostOnlyByReading
  <1>1. TypeOK /\ KnownInv /\ [Next]_vars =>
          [\A u \in Names :
             /\ rules # NoRules /\ rules' # NoRules
             /\ IsProtected(rules, u) /\ ~IsProtected(rules', u)
             => /\ fromRead'
                /\ ~IsProtected(Loaded(hist[ver'], {}), u)]_vars
    <2> SUFFICES ASSUME TypeOK, KnownInv, Next, NEW u \in Names,
                        rules # NoRules, rules' # NoRules,
                        IsProtected(rules, u), ~IsProtected(rules', u)
                 PROVE  fromRead' /\ ~IsProtected(Loaded(hist[ver'], {}), u)
      OBVIOUS
    <2>1. rules' # rules
      OBVIOUS
    <2>2. ASSUME NEW t \in Tasks, AdoptRead(t)
          PROVE  fromRead' /\ ~IsProtected(Loaded(hist[ver'], {}), u)
      <3>1. fromRead' /\ ver' = snap[t] /\ rules' = Loaded(hist[snap[t]], known[t])
        BY <2>2 DEF AdoptRead, Adopt
      <3>2. QED
        BY <3>1, ProtectedByLevels
    <2>3. ASSUME NEW t \in Tasks, LoadStatic(t) \/ ReadFails(t)
          PROVE  UNCHANGED rules
      BY <2>3 DEF LoadStatic, ReadFails, Adopt, Fallback, KnownInv
    <2>4. ASSUME NEW t \in Tasks,
                 \/ ServeCached(t) \/ StartRead(t) \/ ReadRoom(t) \/ FinishRefresh(t) \/ Return(t)
                 \/ \E s \in Senders, answered \in BOOLEAN : AskSender(t, s, answered)
                 \/ UseAnswer(t)
                 \/ \E x \in Names : AnswerAdmin(t, x) \/ CheckAdminFails(t, x)
          PROVE  UNCHANGED rules
      BY <2>4 DEF ServeCached, StartRead, ReadRoom, AskSender, AnswerAdmin, UseAnswer, CheckAdminFails,
         FinishRefresh, Return, cache
    <2>5. ASSUME RoomStep \/ Tick \/ (\E v \in 1..MaxVersions : Deliver(v))
          PROVE  UNCHANGED rules
      BY <2>5 DEF RoomStep, SendRule, SetLevels, LoseRoom, SetAdmin, Tick, Deliver, cache
    <2>6. ~Restart
      BY DEF Restart
    <2>7. QED
      BY <2>1, <2>2, <2>3, <2>4, <2>5, <2>6 DEF Next, TaskStep, CallStep, AwaitStep
  <1>2. QED
    BY <1>1, OriginKnown, TypeCorrect, PTL DEF Spec, ProtectionLostOnlyByReading
=============================================================================
