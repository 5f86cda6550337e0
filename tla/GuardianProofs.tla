--------------------------- MODULE GuardianProofs ---------------------------
(***************************************************************************)
(* Guardian, for any number of callbacks in flight, any users, rooms and   *)
(* calls, and any rule sets the control room may come to have.             *)
(***************************************************************************)
EXTENDS Guardian, PolicyLemmas

\* RunOn ends in a verdict or at one of two awaits.
LEMMA RunOnType == \A rs, q : RunOn(rs, q) \in {"inviter", "members", "passed", "refused"}
  BY DEF RunOn, Verdict

\* FailClosed always ends in a verdict.
LEMMA FailClosedType == \A q : FailClosed(q) \in {"passed", "refused"}
  BY DEF FailClosed

\* Only a join of a protected user makes the callback look further.
LEMMA RunOnWaits ==
  ASSUME NEW rs, NEW q, RunOn(rs, q) \in {"inviter", "members"}
  PROVE  /\ q.call = "user_may_join_room"
         /\ IsProtected(rs, q.actor)
         /\ RunOn(rs, q) = "inviter" => q.invited
         /\ RunOn(rs, q) = "members" => UninvitedJoins # "deny"
  <1>1. \A b : Verdict(b) \notin {"inviter", "members"}
    BY DEF Verdict
  <1>2. q.call = "user_may_join_room"
    BY <1>1 DEF RunOn
  <1>3. IsProtected(rs, q.actor)
    BY <1>2 DEF RunOn
  <1>4. QED
    BY <1>1, <1>2, <1>3 DEF RunOn

\* Whatever the cache does, the rules in force are a rule set.
LEMMA CacheTyped ==
  ASSUME TypeOK, Load \/ RunOnStatic
  PROVE  /\ cached' \in RuleSet
         /\ offered' \subseteq RuleSet /\ answer' = answer
  BY MergeType, GuardianAssumption DEF TypeOK, Load, RunOnStatic

\* Memberships stay memberships when one user's changes.
LEMMA MoveTyped ==
  ASSUME TypeOK, NEW r \in ChatRooms, NEW u \in Users,
         NEW m \in Memberships, NEW s \in Users \cup {NoOne}
  PROVE  /\ [member EXCEPT ![r][u] = m] \in [ChatRooms -> [Users -> Memberships]]
         /\ [inviter EXCEPT ![r][u] = s] \in [ChatRooms -> [Users -> Users \cup {NoOne}]]
  <1>1. /\ member[r] \in [Users -> Memberships]
        /\ inviter[r] \in [Users -> Users \cup {NoOne}]
    BY DEF TypeOK
  <1>2. /\ [member[r] EXCEPT ![u] = m] \in [Users -> Memberships]
        /\ [inviter[r] EXCEPT ![u] = s] \in [Users -> Users \cup {NoOne}]
    BY <1>1
  <1>3. QED
    BY <1>2 DEF TypeOK

\* The ghost of the rules seen during a call holds rule sets.
LEMMA WatchTyped ==
  ASSUME TypeOK, Watch, cached' \in RuleSet \cup {NoRules}
  PROVE  during' \in [Tasks -> SUBSET (RuleSet \cup {NoRules})]
  BY DEF TypeOK, Watch

\* What the callbacks' own variables look like, apart from the ghosts.
CallsOK ==
  /\ \A t \in Tasks : pc[t] # "idle" => req[t] \in RequestSet
  /\ \A t \in Tasks : pc[t] \in {"inviter", "members"} =>
       /\ answer[t] \in RuleSet
       /\ req[t].call = "user_may_join_room"
       /\ IsProtected(answer[t], req[t].actor)

\* The type invariant is inductive: one step per action.
LEMMA TypeInductive == TypeOK /\ [Next]_vars => TypeOK'
  <1> SUFFICES ASSUME TypeOK, [Next]_vars PROVE TypeOK'
    OBVIOUS
  <1> USE GuardianAssumption
  <1> DEFINE Rest == /\ offered' \subseteq RuleSet
                     /\ cached' \in RuleSet \cup {NoRules}
                     /\ answer' \in [Tasks -> RuleSet \cup {NoRules}]
                     /\ pc' \in [Tasks -> {"idle"} \cup Waiting \cup Verdicts]
                     /\ req' \in [Tasks -> RequestSet \cup {NoRequest}]
                     /\ member' \in [ChatRooms -> [Users -> Memberships]]
                     /\ inviter' \in [ChatRooms -> [Users -> Users \cup {NoOne}]]
                     /\ jobs' \subseteq Jobs
                     /\ moves' \in 0..MaxMoves
                     /\ dry' \in BOOLEAN
  <1>1. ASSUME NEW t \in Tasks, NEW q \in Requests, Call(t, q)
        PROVE  Rest /\ CallsOK'
    <2>1. q \in RequestSet
      OBVIOUS
    <2>2. Rest
      BY <1>1, <2>1 DEF Call, TypeOK, Waiting, Verdicts, Passing, cacheVars, rooms
    <2>3. CallsOK'
      BY <1>1, <2>1 DEF Call, TypeOK, CallsOK, cacheVars
    <2>4. QED
      BY <2>2, <2>3
  <1>2. ASSUME NEW t \in Tasks, GetRules(t)
        PROVE  Rest /\ CallsOK'
    <2>1. RunOn(cached, req[t]) \in {"inviter", "members", "passed", "refused"}
      BY RunOnType
    <2>2. cached \in RuleSet
      BY <1>2 DEF GetRules, Answer, TypeOK
    <2>3. Rest
      BY <1>2, <2>1, <2>2 DEF GetRules, Answer, TypeOK, Waiting, Verdicts, Passing, rooms
    <2>4. ASSUME NEW s \in Tasks
          PROVE  /\ pc'[s] # "idle" => req'[s] \in RequestSet
                 /\ pc'[s] \in {"inviter", "members"} =>
                      /\ answer'[s] \in RuleSet
                      /\ req'[s].call = "user_may_join_room"
                      /\ IsProtected(answer'[s], req'[s].actor)
      <3>1. CASE s = t
        <4>1. pc'[s] = RunOn(cached, req[s]) /\ answer'[s] = cached /\ req'[s] = req[s]
          BY <1>2, <3>1 DEF GetRules, Answer, TypeOK
        <4>2. pc[s] # "idle"
          BY <1>2, <3>1 DEF GetRules
        <4>3. req'[s] \in RequestSet
          BY <4>1, <4>2 DEF TypeOK
        <4>4. QED
          BY <4>1, <4>3, <2>2, RunOnWaits
      <3>2. CASE s # t
        BY <1>2, <3>2 DEF GetRules, Answer, TypeOK
      <3>3. QED
        BY <3>1, <3>2
    <2>5. QED
      BY <2>3, <2>4 DEF CallsOK
  <1>3. ASSUME NEW t \in Tasks, LookUpInviter(t)
        PROVE  Rest /\ CallsOK'
    <2>1. req[t] \in RequestSet
      BY <1>3 DEF LookUpInviter, TypeOK
    <2>2. jobs' \subseteq Jobs
      <3> DEFINE q == req[t]
                 sender == inviter[q.room][q.actor]
      <3>1. q.actor \in Users /\ q.room \in ChatRooms
        BY <2>1 DEF RequestSet
      <3>2. sender \in Users \cup {NoOne}
        BY <3>1 DEF TypeOK
      <3>3. jobs' \subseteq jobs \/ sender # NoOne
        BY <1>3 DEF LookUpInviter, Verdict
      <3>4. jobs' \subseteq jobs \cup {[user |-> q.actor, room |-> q.room, inviter |-> sender]}
        BY <1>3 DEF LookUpInviter
      <3>5. QED
        BY <3>1, <3>2, <3>3, <3>4 DEF TypeOK, Jobs
    <2>3. Rest
      BY <1>3, <2>2 DEF LookUpInviter, TypeOK, Waiting, Verdicts, Passing, Verdict, cacheVars, rooms
    <2>4. CallsOK'
      BY <1>3 DEF LookUpInviter, TypeOK, CallsOK, Verdict, cacheVars
    <2>5. QED
      BY <2>3, <2>4
  <1>4. ASSUME NEW t \in Tasks, LookUpFails(t) \/ ReadMembers(t) \/ Raise(t)
        PROVE  Rest /\ CallsOK'
    <2>1. PICK v \in Verdicts : pc' = [pc EXCEPT ![t] = v]
      BY <1>4, FailClosedType DEF LookUpFails, ReadMembers, Raise, Verdict, Verdicts, Passing
    <2>2. UNCHANGED <<cacheVars, req, rooms, jobs, moves, dry>> /\ pc[t] # "idle"
      BY <1>4 DEF LookUpFails, ReadMembers, Raise
    <2>3. QED
      BY <2>1, <2>2 DEF TypeOK, CallsOK, Waiting, Verdicts, Passing, cacheVars, rooms
  <1>5. ASSUME NEW t \in Tasks, Finish(t)
        PROVE  Rest /\ CallsOK'
    <2>1. req[t] \in RequestSet
      BY <1>5 DEF Finish, TypeOK, Verdicts, Passing
    <2>2. req[t].actor \in Users /\ req[t].target \in Users /\ req[t].room \in ChatRooms
      BY <2>1 DEF RequestSet
    <2>3. /\ member' \in [ChatRooms -> [Users -> Memberships]]
          /\ inviter' \in [ChatRooms -> [Users -> Users \cup {NoOne}]]
      <3> DEFINE q == req[t]
      <3>1. "invite" \in Memberships /\ "join" \in Memberships
        BY DEF Memberships
      <3>2. CASE UNCHANGED rooms
        BY <3>2 DEF TypeOK, rooms
      <3>3. CASE /\ member' = [member EXCEPT ![q.room][q.target] = "invite"]
                 /\ inviter' = [inviter EXCEPT ![q.room][q.target] = q.actor]
        BY <2>2, <3>1, <3>3, MoveTyped
      <3>4. CASE /\ member' = [member EXCEPT ![q.room][q.actor] = "join"]
                 /\ inviter' = [inviter EXCEPT ![q.room][q.actor] = NoOne]
        BY <2>2, <3>1, <3>4, MoveTyped
      <3>5. QED
        BY <1>5, <3>2, <3>3, <3>4 DEF Finish, TakeEffect
    <2>4. QED
      BY <1>5, <2>3 DEF Finish, Release, TypeOK, CallsOK
  <1>6. ASSUME NEW j \in jobs, RejectInvite(j)
        PROVE  Rest /\ CallsOK'
    <2>1. j.user \in Users /\ j.room \in ChatRooms
      BY <1>6 DEF TypeOK, Jobs
    <2>2. QED
      <3>1. "leave" \in Memberships
        BY DEF Memberships
      <3>2. /\ member' \in [ChatRooms -> [Users -> Memberships]]
            /\ inviter' \in [ChatRooms -> [Users -> Users \cup {NoOne}]]
        <4>1. CASE UNCHANGED rooms
          BY <4>1 DEF TypeOK, rooms
        <4>2. CASE /\ member' = [member EXCEPT ![j.room][j.user] = "leave"]
                   /\ inviter' = [inviter EXCEPT ![j.room][j.user] = NoOne]
          BY <2>1, <3>1, <4>2, MoveTyped
        <4>3. QED
          BY <1>6, <4>1, <4>2 DEF RejectInvite
      <3>3. QED
        BY <1>6, <3>2 DEF RejectInvite, TypeOK, CallsOK, cacheVars, calls
  <1>7. ASSUME NEW r \in ChatRooms, NEW u \in Users, Leave(r, u) \/ JoinElsewhere(r, u)
        PROVE  Rest /\ CallsOK'
    <2>1. "leave" \in Memberships /\ "join" \in Memberships
      BY DEF Memberships
    <2>2. /\ member' \in [ChatRooms -> [Users -> Memberships]]
          /\ inviter' \in [ChatRooms -> [Users -> Users \cup {NoOne}]]
      <3>1. PICK m \in Memberships : /\ member' = [member EXCEPT ![r][u] = m]
                                      /\ inviter' = [inviter EXCEPT ![r][u] = NoOne]
        BY <1>7, <2>1 DEF Leave, JoinElsewhere
      <3>2. QED
        BY <3>1, MoveTyped
    <2>3. moves' \in 0..MaxMoves
      BY <1>7 DEF Leave, JoinElsewhere, TypeOK
    <2>4. QED
      BY <1>7, <2>2, <2>3 DEF Leave, JoinElsewhere, TypeOK, CallsOK, cacheVars, calls
  <1>8. ASSUME CacheStep
        PROVE  Rest /\ CallsOK'
    BY <1>8, CacheTyped DEF CacheStep, TypeOK, CallsOK, calls, rooms
  <1>9. ASSUME Restart
        PROVE  Rest /\ CallsOK'
    BY <1>9 DEF Restart, Forget, TypeOK, CallsOK, rooms
  <1>10. ASSUME Next
         PROVE  TypeOK'
    <2>1. Rest /\ CallsOK'
      BY <1>1, <1>2, <1>3, <1>4, <1>5, <1>6, <1>7, <1>8, <1>9, <1>10 DEF Next, CallbackStep
    <2>2. during' \in [Tasks -> SUBSET (RuleSet \cup {NoRules})]
      BY <1>10, <2>1, WatchTyped DEF Next
    <2>3. QED
      BY <2>1, <2>2 DEF TypeOK, CallsOK
  <1>11. ASSUME UNCHANGED vars
         PROVE  TypeOK'
    BY <1>11 DEF TypeOK, vars, cacheVars, calls, rooms
  <1>12. QED
    BY <1>10, <1>11

(***************************************************************************)
(* Every variable has its type in every reachable state.                   *)
(***************************************************************************)
THEOREM CallbacksTyped == Spec => []TypeOK
  <1>1. Init => TypeOK
    <2> SUFFICES ASSUME Init PROVE TypeOK
      OBVIOUS
    <2>1. /\ offered \subseteq RuleSet
          /\ member \in [ChatRooms -> [Users -> Memberships]]
          /\ moves \in 0..MaxMoves /\ dry \in BOOLEAN
      BY GuardianAssumption DEF Init
    <2>2. QED
      BY <2>1 DEF Init, TypeOK, Waiting, Verdicts, Passing
  <1>2. QED
    BY <1>1, TypeInductive, PTL DEF Spec
-----------------------------------------------------------------------------
(***************************************************************************)
(* The rules in force contain the configured ones, so they refuse whatever *)
(* those alone refuse; and a callback only waits for the sender of an      *)
(* invite if there was one, and for the members if uninvited joins are not *)
(* refused outright. That is enough for every verdict to be right.         *)
(***************************************************************************)
ContainsStatic(rs) == \A k \in Kinds : Static[k] \subseteq rs[k]

GateInv ==
  /\ cached # NoRules => ContainsStatic(cached)
  /\ \A t \in Tasks : /\ pc[t] = "inviter" => req[t].invited
                      /\ pc[t] = "members" => UninvitedJoins # "deny"
  /\ ConfigAlwaysRefused

\* What the configuration refuses involves a user it protects.
LEMMA RefusedInvolved ==
  ASSUME NEW q, RefusedByConfig(q)
  PROVE  \E u \in Involved(q) : IsProtected(Static, u)
  BY DEF RefusedByConfig, Involved, InviteCalls, OpeningCalls

\* Rules that contain the static ones protect and block whom those do.
LEMMA ByNameNotAllowed ==
  ASSUME NEW rs \in RuleSet, ContainsStatic(rs), NEW u \in Names
  PROVE  /\ IsProtected(Static, u) => IsProtected(rs, u)
         /\ BlockedByName(u) => ~Allowed(rs, u)
  <1>1. u \notin WellFormed => ~Allowed(rs, u)
    BY DEF Allowed, Evaluate
  <1>2. QED
    BY <1>1, ContainingBaseline, GuardianAssumption DEF ContainsStatic, BlockedByName

\* With rules that contain the static ones, the callback refuses what those refuse.
LEMMA RunOnRefuses ==
  ASSUME NEW rs \in RuleSet, ContainsStatic(rs), NEW q \in RequestSet,
         RefusedByConfig(q), ~dry
  PROVE  RunOn(rs, q) = "refused"
  <1>1. q.actor \in Names /\ q.target \in Names
    BY GuardianAssumption DEF RequestSet
  <1>2. Verdict(TRUE) = "refused"
    BY DEF Verdict
  <1>3. CASE q.call = "user_may_join_room"
    <2>1. /\ IsProtected(Static, q.actor) /\ ~q.invited /\ UninvitedJoins = "deny"
      BY <1>3 DEF RefusedByConfig, InviteCalls, OpeningCalls
    <2>2. IsProtected(rs, q.actor)
      BY <1>1, <2>1, ByNameNotAllowed
    <2>3. QED
      BY <1>2, <1>3, <2>1, <2>2 DEF RunOn
  <1>4. CASE q.call # "user_may_join_room"
    <2>1. Refused(rs, q)
      BY <1>1, <1>4, ByNameNotAllowed DEF RefusedByConfig, Refused
    <2>2. QED
      BY <1>2, <1>4, <2>1 DEF RunOn
  <1>5. QED
    BY <1>3, <1>4

\* So does the error path, whatever is cached.
LEMMA FailClosedRefuses ==
  ASSUME NEW q, RefusedByConfig(q)
  PROVE  FailClosed(q) = "refused"
  BY RefusedInvolved DEF FailClosed

\* A step of one callback that leaves the rules alone need only be right itself.
LEMMA GateStep ==
  ASSUME TypeOK, GateInv, NEW t \in Tasks, NEW v, UNCHANGED <<cached, dry>>,
         pc' = [pc EXCEPT ![t] = v],
         \A s \in Tasks : s # t => req'[s] = req[s],
         v = "inviter" => req'[t].invited,
         v = "members" => UninvitedJoins # "deny",
         ~dry /\ v \in Passing => ~RefusedByConfig(req'[t])
  PROVE  GateInv'
  <1>1. ASSUME NEW s \in Tasks
        PROVE  /\ pc'[s] = "inviter" => req'[s].invited
               /\ pc'[s] = "members" => UninvitedJoins # "deny"
               /\ ~dry /\ pc'[s] \in Passing => ~RefusedByConfig(req'[s])
    <2>1. CASE s = t
      BY <2>1 DEF TypeOK
    <2>2. CASE s # t
      BY <2>2 DEF TypeOK, GateInv, ConfigAlwaysRefused
    <2>3. QED
      BY <2>1, <2>2
  <1>2. (cached # NoRules => ContainsStatic(cached))'
    BY DEF GateInv, ContainsStatic
  <1>3. QED
    BY <1>1, <1>2 DEF GateInv, ConfigAlwaysRefused

\* No step lets through what the configuration refuses.
LEMMA GateInductive == TypeOK /\ GateInv /\ [Next]_vars => GateInv'
  <1> SUFFICES ASSUME TypeOK, GateInv, [Next]_vars PROVE GateInv'
    OBVIOUS
  <1>1. ASSUME NEW t \in Tasks, NEW q \in Requests, Call(t, q)
        PROVE  GateInv'
    <2>1. NotOurs(q) => ~RefusedByConfig(q)
      BY DEF NotOurs, RefusedByConfig, InviteCalls
    <2>2. /\ req' = [req EXCEPT ![t] = q]
          /\ pc' = [pc EXCEPT ![t] = IF NotOurs(q) THEN "passed" ELSE "rules"]
          /\ UNCHANGED <<cached, dry>>
      BY <1>1 DEF Call, cacheVars
    <2>3. req'[t] = q /\ \A s \in Tasks : s # t => req'[s] = req[s]
      BY <2>2 DEF TypeOK
    <2>4. CASE NotOurs(q)
      BY <2>1, <2>2, <2>3, <2>4, GateStep DEF Verdicts, Passing
    <2>5. CASE ~NotOurs(q)
      BY <2>2, <2>3, <2>5, GateStep DEF Verdicts, Passing
    <2>6. QED
      BY <2>4, <2>5
  <1>2. ASSUME NEW t \in Tasks, GetRules(t)
        PROVE  GateInv'
    <2>1. /\ cached \in RuleSet /\ ContainsStatic(cached)
          /\ req[t] \in RequestSet
      BY <1>2 DEF GetRules, Answer, TypeOK, GateInv
    <2>2. /\ pc' = [pc EXCEPT ![t] = RunOn(cached, req[t])]
          /\ UNCHANGED <<cached, req, dry>>
      BY <1>2 DEF GetRules, Answer
    <2>3. ~dry /\ RunOn(cached, req[t]) = "passed" => ~RefusedByConfig(req[t])
      BY <2>1, RunOnRefuses
    <2>4. /\ RunOn(cached, req[t]) = "inviter" => req[t].invited
          /\ RunOn(cached, req[t]) = "members" => UninvitedJoins # "deny"
      BY RunOnWaits
    <2>5. QED
      BY <2>2, <2>3, <2>4, RunOnType, GateStep DEF Passing
  <1>3. ASSUME NEW t \in Tasks, LookUpInviter(t) \/ LookUpFails(t) \/ ReadMembers(t)
        PROVE  GateInv'
    <2>1. PICK v \in Verdicts : pc' = [pc EXCEPT ![t] = v]
      BY <1>3 DEF LookUpInviter, LookUpFails, ReadMembers, Verdict, Verdicts, Passing
    <2>2. UNCHANGED <<cached, req, dry>>
      BY <1>3 DEF LookUpInviter, LookUpFails, ReadMembers, cacheVars
    <2>3. req[t].call = "user_may_join_room" /\ (req[t].invited \/ UninvitedJoins # "deny")
      BY <1>3 DEF LookUpInviter, LookUpFails, ReadMembers, TypeOK, GateInv
    <2>4. ~RefusedByConfig(req[t])
      BY <2>3 DEF RefusedByConfig, InviteCalls, OpeningCalls
    <2>5. QED
      BY <2>1, <2>2, <2>4, GateStep DEF Verdicts, Passing
  <1>4. ASSUME NEW t \in Tasks, Raise(t)
        PROVE  GateInv'
    <2>1. /\ pc' = [pc EXCEPT ![t] = FailClosed(req[t])]
          /\ UNCHANGED <<cached, req, dry>>
      BY <1>4 DEF Raise, cacheVars
    <2>2. /\ FailClosed(req[t]) \in {"passed", "refused"}
          /\ FailClosed(req[t]) = "passed" => ~RefusedByConfig(req[t])
      BY FailClosedType, FailClosedRefuses
    <2>3. QED
      BY <2>1, <2>2, GateStep DEF Verdicts, Passing
  <1>5. ASSUME NEW t \in Tasks, Finish(t)
        PROVE  GateInv'
    <2>1. /\ pc' = [pc EXCEPT ![t] = "idle"]
          /\ req' = [req EXCEPT ![t] = NoRequest]
          /\ UNCHANGED <<cached, dry>>
      BY <1>5 DEF Finish, Release
    <2>2. QED
      BY <2>1, GateStep DEF TypeOK, Passing
  <1>6. ASSUME \/ \E j \in jobs : RejectInvite(j)
               \/ \E r \in ChatRooms, u \in Users : Leave(r, u) \/ JoinElsewhere(r, u)
               \/ UNCHANGED vars
        PROVE  GateInv'
    <2>1. UNCHANGED <<cached, pc, req, dry>>
      BY <1>6 DEF RejectInvite, Leave, JoinElsewhere, vars, cacheVars, calls
    <2>2. QED
      BY <2>1 DEF GateInv, ContainsStatic, ConfigAlwaysRefused
  <1>7. ASSUME CacheStep
        PROVE  GateInv'
    <2>1. ContainsStatic(cached')
      BY <1>7, MergeKeeps, GuardianAssumption
      DEF CacheStep, Load, RunOnStatic, ContainsStatic, TypeOK
    <2>2. UNCHANGED <<pc, req, dry>>
      BY <1>7 DEF CacheStep, calls
    <2>3. QED
      BY <2>1, <2>2 DEF GateInv, ContainsStatic, ConfigAlwaysRefused
  <1>8. ASSUME Restart
        PROVE  GateInv'
    BY <1>8 DEF Restart, Forget, GateInv, ContainsStatic, ConfigAlwaysRefused, Passing
  <1>9. QED
    BY <1>1, <1>2, <1>3, <1>4, <1>5, <1>6, <1>7, <1>8 DEF Next, CallbackStep

(***************************************************************************)
(* What the configuration alone refuses is never let through, whatever the *)
(* control room says, whatever is loading or failing, and across restarts. *)
(***************************************************************************)
THEOREM ConfigGate == Spec => []ConfigAlwaysRefused
  <1>1. Init => GateInv
    BY DEF Init, GateInv, ConfigAlwaysRefused, Passing
  <1>2. GateInv => ConfigAlwaysRefused
    BY DEF GateInv
  <1>3. QED
    BY <1>1, <1>2, GateInductive, CallbacksTyped, PTL DEF Spec
-----------------------------------------------------------------------------
(***************************************************************************)
(* What a verdict rests on was in force during the call: the rules a       *)
(* callback works with are among those it has seen in force since it was   *)
(* called, and so are those it falls back on when an await raises.         *)
(***************************************************************************)
Refusable(t) ==
  \E rs \in {Static} \cup (during[t] \ {NoRules}) :
    \E u \in Involved(req[t]) : IsProtected(rs, u)

Passable(t) ==
  \/ NotOurs(req[t])
  \/ \E rs \in during[t] \ {NoRules} : LetsThrough(rs, sights[t], req[t])
  \/ NoRules \in during[t] /\ \A u \in Involved(req[t]) : ~IsProtected(Static, u)

Grounded(t) ==
  /\ pc[t] \in {"inviter", "members"} => answer[t] \in during[t]
  /\ pc[t] = "members" => ~req[t].invited
  /\ pc[t] = "refused" => Refusable(t)
  /\ ~dry /\ pc[t] = "passed" => Passable(t)

GroundsInv == \A t \in Tasks : Grounded(t)

\* A callback sees what is in force, and a join that has its rules sees the room.
LEMMA Watched ==
  ASSUME Watch, NEW t \in Tasks, pc'[t] # "idle"
  PROVE  /\ cached \in during'[t] /\ during[t] \subseteq during'[t]
         /\ pc'[t] # "rules" /\ req'[t].call = "user_may_join_room" =>
              /\ View(member, inviter, req'[t].room) \in sights'[t]
              /\ sights[t] \subseteq sights'[t]
  BY DEF Watch

\* Grounds stay grounds: what was seen during a call is not forgotten before its end.
LEMMA StaysGrounded ==
  ASSUME NEW t \in Tasks, TypeOK, Grounded(t), Watch,
         pc'[t] = pc[t], req'[t] = req[t], answer'[t] = answer[t], dry' = dry
  PROVE  Grounded(t)'
  <1>1. ASSUME pc[t] \in {"inviter", "members"}
        PROVE  answer'[t] \in during'[t] /\ (pc[t] = "members" => ~req'[t].invited)
    BY <1>1, Watched DEF Grounded
  <1>2. ASSUME pc[t] = "refused"
        PROVE  Refusable(t)'
    <2>1. PICK rs \in {Static} \cup (during[t] \ {NoRules}) :
            \E u \in Involved(req[t]) : IsProtected(rs, u)
      BY <1>2 DEF Grounded, Refusable
    <2>2. rs \in {Static} \cup (during'[t] \ {NoRules})
      BY <1>2, <2>1, Watched
    <2>3. QED
      BY <2>1, <2>2 DEF Refusable
  <1>3. ASSUME ~dry, pc[t] = "passed"
        PROVE  Passable(t)'
    <2>1. Passable(t)
      BY <1>3 DEF Grounded
    <2>2. /\ during[t] \subseteq during'[t]
          /\ req[t].call = "user_may_join_room" => sights[t] \subseteq sights'[t]
      BY <1>3, Watched
    <2>3. ASSUME NEW rs, LetsThrough(rs, sights[t], req[t])
          PROVE  LetsThrough(rs, sights'[t], req'[t])
      BY <2>2, <2>3 DEF LetsThrough
    <2>4. QED
      BY <2>1, <2>2, <2>3 DEF Passable
  <1>4. QED
    BY <1>1, <1>2, <1>3 DEF Grounded

\* Refusing for a user that some rules in force protect.
LEMMA RefusedFor ==
  ASSUME NEW t \in Tasks, NEW rs \in {Static} \cup (during[t] \ {NoRules}),
         NEW u \in Involved(req[t]), IsProtected(rs, u)
  PROVE  Refusable(t)
  BY DEF Refusable

\* A call that is not a join is refused only for a user the rules protect.
LEMMA RefusedInvolves ==
  ASSUME NEW rs, NEW q, q.call # "user_may_join_room", Refused(rs, q)
  PROVE  \E u \in Involved(q) : IsProtected(rs, u)
  BY DEF Refused, Involved, InviteCalls, OpeningCalls

\* RunOn refuses for a user the rules protect, and passes what they let through.
LEMMA RunOnGrounded ==
  ASSUME NEW rs, NEW q, NEW seen, q.call = "user_may_join_room" => seen # {}
  PROVE  /\ RunOn(rs, q) = "refused" => \E u \in Involved(q) : IsProtected(rs, u)
         /\ ~dry /\ RunOn(rs, q) = "passed" => LetsThrough(rs, seen, q)
         /\ RunOn(rs, q) = "members" => ~q.invited
  <1>1. CASE q.call # "user_may_join_room"
    BY <1>1, RefusedInvolves DEF RunOn, Verdict, LetsThrough
  <1>2. CASE q.call = "user_may_join_room"
    <2>1. Involved(q) = {q.actor}
      BY <1>2 DEF Involved
    <2>2. CASE ~IsProtected(rs, q.actor)
      <3>1. RunOn(rs, q) = "passed" /\ LetsThrough(rs, seen, q)
        BY <1>2, <2>2 DEF RunOn, LetsThrough, LetsJoin
      <3>2. QED
        BY <3>1
    <2>3. CASE IsProtected(rs, q.actor)
      <3>1. RunOn(rs, q) = IF q.invited THEN "inviter"
                           ELSE IF UninvitedJoins = "deny" THEN Verdict(TRUE) ELSE "members"
        BY <1>2, <2>3 DEF RunOn
      <3>2. QED
        BY <2>1, <2>3, <3>1 DEF Verdict
    <2>4. QED
      BY <2>2, <2>3
  <1>3. QED
    BY <1>1, <1>2

\* When an await raises, the callback refuses or passes as the rules it knows would have it.
LEMMA FailClosedGrounded ==
  ASSUME NEW q \in RequestSet, NEW seen, q.call = "user_may_join_room" => seen # {}
  PROVE  /\ FailClosed(q) = "refused" =>
              \E rs \in {Static} \cup ({cached} \ {NoRules}) :
                \E u \in Involved(q) : IsProtected(rs, u)
         /\ FailClosed(q) = "passed" =>
              /\ \A u \in Involved(q) : ~IsProtected(Static, u)
              /\ cached # NoRules => LetsThrough(cached, seen, q)
  <1>1. ASSUME FailClosed(q) = "refused"
        PROVE  \E rs \in {Static} \cup ({cached} \ {NoRules}) :
                 \E u \in Involved(q) : IsProtected(rs, u)
    BY <1>1 DEF FailClosed
  <1>2. ASSUME FailClosed(q) = "passed"
        PROVE  \A u \in Involved(q) : /\ ~IsProtected(Static, u)
                                      /\ cached # NoRules => ~IsProtected(cached, u)
    BY <1>2 DEF FailClosed
  <1>3. ASSUME FailClosed(q) = "passed", cached # NoRules
        PROVE  LetsThrough(cached, seen, q)
    <2>1. \A u \in Involved(q) : ~IsProtected(cached, u)
      BY <1>2, <1>3
    <2>2. CASE q.call = "user_may_join_room"
      BY <2>1, <2>2 DEF Involved, LetsThrough, LetsJoin
    <2>3. CASE q.call # "user_may_join_room"
      BY <2>1, <2>3, RefusedInvolves DEF LetsThrough
    <2>4. QED
      BY <2>2, <2>3
  <1>4. QED
    BY <1>1, <1>2, <1>3

\* Every verdict a step gives has its grounds, and no step takes those of another.
LEMMA GroundsInductive == TypeOK /\ GateInv /\ GroundsInv /\ [Next]_vars => GroundsInv'
  <1> SUFFICES ASSUME TypeOK, GateInv, GroundsInv, [Next]_vars PROVE GroundsInv'
    OBVIOUS
  <1> USE GuardianAssumption
  <1>1. CASE UNCHANGED vars
    BY <1>1 DEF GroundsInv, Grounded, Refusable, Passable, vars, cacheVars, calls
  <1> SUFFICES ASSUME Next, NEW t \in Tasks PROVE Grounded(t)'
    BY <1>1 DEF GroundsInv
  <1>2. Watch /\ Grounded(t)
    BY DEF Next, GroundsInv
  <1>3. ASSUME pc'[t] = pc[t], req'[t] = req[t], answer'[t] = answer[t], dry' = dry
        PROVE  Grounded(t)'
    BY <1>2, <1>3, StaysGrounded
  <1>4. ASSUME NEW s \in Tasks, s # t, CallbackStep(s)
        PROVE  Grounded(t)'
    <2>1. /\ UNCHANGED dry /\ pc'[t] = pc[t] /\ req'[t] = req[t]
          /\ answer'[t] = answer[t]
      BY <1>4 DEF CallbackStep, Call, GetRules, Answer, LookUpInviter, LookUpFails, ReadMembers,
                  Raise, Finish, Release, TypeOK, cacheVars
    <2>2. QED
      BY <1>3, <2>1
  <1>5. ASSUME NEW q \in Requests, Call(t, q)
        PROVE  Grounded(t)'
    <2>1. pc'[t] = (IF NotOurs(q) THEN "passed" ELSE "rules") /\ req'[t] = q
      BY <1>5 DEF Call, TypeOK
    <2>2. QED
      BY <2>1 DEF Grounded, Passable
  <1>6. ASSUME GetRules(t)
        PROVE  Grounded(t)'
    <2> DEFINE q == req[t]
    <2>1. /\ pc'[t] = RunOn(cached, q) /\ req'[t] = q /\ answer'[t] = cached /\ dry' = dry
          /\ cached # NoRules
      BY <1>6 DEF GetRules, Answer, TypeOK
    <2>2. pc'[t] # "idle" /\ pc'[t] # "rules"
      BY <2>1, RunOnType
    <2>3. /\ cached \in during'[t] \ {NoRules}
          /\ q.call = "user_may_join_room" => sights'[t] # {}
      BY <1>2, <2>1, <2>2, Watched
    <2>4. /\ pc'[t] = "refused" => \E u \in Involved(q) : IsProtected(cached, u)
          /\ ~dry /\ pc'[t] = "passed" => LetsThrough(cached, sights'[t], q)
          /\ pc'[t] = "members" => ~q.invited
      BY <2>1, <2>3, RunOnGrounded
    <2>5. (pc'[t] = "refused" => Refusable(t)') /\ (~dry /\ pc'[t] = "passed" => Passable(t)')
      BY <2>1, <2>3, <2>4 DEF Refusable, Passable
    <2>6. QED
      BY <2>1, <2>3, <2>4, <2>5 DEF Grounded
  <1>7. ASSUME LookUpInviter(t) \/ ReadMembers(t)
        PROVE  Grounded(t)'
    <2> DEFINE q == req[t]
    <2>1. /\ pc'[t] \in {"passed", "refused"} /\ req'[t] = q /\ dry' = dry
          /\ UNCHANGED <<cacheVars, member, inviter>>
      BY <1>7 DEF LookUpInviter, ReadMembers, TypeOK, Verdict, rooms
    <2>2. /\ q.call = "user_may_join_room" /\ IsProtected(answer[t], q.actor)
          /\ answer[t] \in during[t] \ {NoRules}
      BY <1>2, <1>7 DEF LookUpInviter, ReadMembers, TypeOK, Grounded
    <2>3. /\ answer[t] \in during'[t] \ {NoRules}
          /\ View(member, inviter, q.room) \in sights'[t]
      BY <1>2, <2>1, <2>2, Watched
    <2>4. Refusable(t)'
      <3>1. q.actor \in Involved(q)
        BY <2>2 DEF Involved
      <3>2. QED
        BY <2>1, <2>2, <2>3, <3>1 DEF Refusable
    <2>5. ASSUME ~dry, pc'[t] = "passed"
          PROVE  LetsJoin(answer[t], View(member, inviter, q.room), q)
      <3> DEFINE seen == View(member, inviter, q.room)
      <3>1. seen.people = member[q.room] /\ seen.senders = inviter[q.room]
        BY DEF View
      <3>2. CASE LookUpInviter(t)
        <4> DEFINE refuse == /\ inviter[q.room][q.actor] # NoOne
                             /\ ~Allowed(answer[t], inviter[q.room][q.actor])
        <4>1. pc'[t] = Verdict(refuse) /\ q.invited
          BY <3>2 DEF LookUpInviter, TypeOK, GateInv
        <4>2. ~refuse
          BY <2>5, <4>1 DEF Verdict
        <4>3. QED
          BY <3>1, <4>1, <4>2 DEF LetsJoin
      <3>3. CASE ReadMembers(t)
        <4>1. /\ pc'[t] = Verdict(~Vetted(answer[t], q.actor, member[q.room]))
              /\ ~q.invited /\ UninvitedJoins = "known_rooms"
          BY <1>2, <3>3 DEF ReadMembers, TypeOK, GateInv, Grounded
        <4>2. Vetted(answer[t], q.actor, member[q.room])
          BY <2>5, <4>1 DEF Verdict
        <4>3. QED
          BY <3>1, <4>1, <4>2 DEF LetsJoin
      <3>4. QED
        BY <1>7, <3>2, <3>3
    <2>6. ~dry /\ pc'[t] = "passed" => Passable(t)'
      BY <2>1, <2>2, <2>3, <2>5 DEF Passable, LetsThrough
    <2>7. QED
      BY <2>1, <2>4, <2>6 DEF Grounded
  <1>8. ASSUME LookUpFails(t) \/ Finish(t)
        PROVE  Grounded(t)'
    <2>1. pc'[t] \in {"unchecked", "idle"}
      BY <1>8 DEF LookUpFails, Finish, TypeOK
    <2>2. QED
      BY <2>1 DEF Grounded
  <1>9. ASSUME Raise(t)
        PROVE  Grounded(t)'
    <2> DEFINE q == req[t]
    <2>1. /\ pc'[t] = FailClosed(q) /\ req'[t] = q /\ dry' = dry /\ q \in RequestSet
      BY <1>9 DEF Raise, TypeOK
    <2>2. pc'[t] \in {"passed", "refused"}
      BY <2>1, FailClosedType
    <2>3. /\ cached \in during'[t]
          /\ q.call = "user_may_join_room" => sights'[t] # {}
      BY <1>2, <2>1, <2>2, Watched
    <2>4. /\ pc'[t] = "refused" =>
               \E rs \in {Static} \cup ({cached} \ {NoRules}) :
                 \E u \in Involved(q) : IsProtected(rs, u)
          /\ pc'[t] = "passed" =>
               /\ \A u \in Involved(q) : ~IsProtected(Static, u)
               /\ cached # NoRules => LetsThrough(cached, sights'[t], q)
      BY <2>1, <2>3, FailClosedGrounded
    <2>5. pc'[t] = "refused" => Refusable(t)'
      BY <2>1, <2>3, <2>4 DEF Refusable
    <2>6. pc'[t] = "passed" => Passable(t)'
      BY <2>1, <2>3, <2>4 DEF Passable
    <2>7. QED
      BY <2>2, <2>5, <2>6 DEF Grounded
  <1>10. ASSUME CallbackStep(t)
         PROVE  Grounded(t)'
    BY <1>5, <1>6, <1>7, <1>8, <1>9, <1>10 DEF CallbackStep
  <1>11. ASSUME \/ \E j \in jobs : RejectInvite(j)
                \/ \E r \in ChatRooms, u \in Users : Leave(r, u) \/ JoinElsewhere(r, u)
                \/ CacheStep
         PROVE  Grounded(t)'
    <2>1. UNCHANGED <<pc, req, answer, dry>>
      BY <1>11 DEF RejectInvite, Leave, JoinElsewhere, CacheStep, Load, RunOnStatic, cacheVars, calls
    <2>2. QED
      BY <1>3, <2>1
  <1>12. ASSUME Restart
         PROVE  Grounded(t)'
    BY <1>12 DEF Restart, Grounded
  <1>13. QED
    BY <1>4, <1>10, <1>11, <1>12 DEF Next

\* The grounds of every verdict are there in every reachable state.
LEMMA GroundsAlways == Spec => []GroundsInv
  <1>1. Init => GateInv /\ GroundsInv
    BY DEF Init, GateInv, ConfigAlwaysRefused, Passing, GroundsInv, Grounded
  <1>2. QED
    BY <1>1, GateInductive, GroundsInductive, CallbacksTyped, PTL DEF Spec

(***************************************************************************)
(* A refusal involves a user protected by the configuration or by rules    *)
(* that were in force at some moment of that very call.                    *)
(***************************************************************************)
THEOREM RefusesOnlyForTheProtected == Spec => []OnlyProtectedRefused
  <1>1. GroundsInv => OnlyProtectedRefused
    BY DEF GroundsInv, Grounded, Refusable, OnlyProtectedRefused
  <1>2. QED
    BY <1>1, GroundsAlways, PTL

(***************************************************************************)
(* A call is let through because one set of rules in force during it, with *)
(* the room as it was at one moment, lets it through; or because it failed *)
(* with nothing loaded and involved nobody the configuration protects.     *)
(***************************************************************************)
THEOREM PassesOnGoodGrounds == Spec => []PassedOnGoodGrounds
  <1>1. GroundsInv => PassedOnGoodGrounds
    BY DEF GroundsInv, Grounded, Passable, PassedOnGoodGrounds
  <1>2. QED
    BY <1>1, GroundsAlways, PTL

(***************************************************************************)
(* In dry-run mode no invite is rejected that was not before, and only an  *)
(* await that raises makes a callback refuse.                              *)
(***************************************************************************)
THEOREM DryRunRefusesNothing == Spec => DryRunOnlyWatches
  <1> DEFINE Watching == /\ jobs' \subseteq jobs
                         /\ \A t \in Tasks : pc'[t] = "refused" => pc[t] = "refused" \/ Raise(t)
  <1>1. ASSUME TypeOK, Next, dry
        PROVE  Watching
    <2>1. \A b : Verdict(b) = "passed"
      BY <1>1 DEF Verdict
    <2>2. \A rs, q : RunOn(rs, q) # "refused"
      BY <2>1 DEF RunOn
    <2>3. ASSUME NEW s \in Tasks, CallbackStep(s)
          PROVE  Watching
      <3>1. jobs' \subseteq jobs
        BY <2>1, <2>3 DEF CallbackStep, Call, GetRules, LookUpInviter, LookUpFails, ReadMembers,
                          Raise, Finish
      <3>2. \A t \in Tasks : t # s => pc'[t] = pc[t]
        BY <1>1, <2>3 DEF CallbackStep, Call, GetRules, LookUpInviter, LookUpFails, ReadMembers,
                          Raise, Finish, TypeOK
      <3>3. ASSUME ~Raise(s)
            PROVE  pc'[s] # "refused"
        <4>1. CASE (\E q \in Requests : Call(s, q)) \/ LookUpFails(s) \/ Finish(s)
          BY <1>1, <4>1 DEF Call, LookUpFails, Finish, TypeOK
        <4>2. CASE GetRules(s)
          BY <1>1, <2>2, <4>2 DEF GetRules, TypeOK
        <4>3. CASE LookUpInviter(s) \/ ReadMembers(s)
          BY <1>1, <2>1, <4>3 DEF LookUpInviter, ReadMembers, TypeOK
        <4>4. QED
          BY <2>3, <3>3, <4>1, <4>2, <4>3 DEF CallbackStep
      <3>4. QED
        BY <3>1, <3>2, <3>3
    <2>4. ASSUME \/ \E j \in jobs : RejectInvite(j)
                 \/ \E r \in ChatRooms, u \in Users : Leave(r, u) \/ JoinElsewhere(r, u)
                 \/ CacheStep
          PROVE  Watching
      BY <2>4 DEF RejectInvite, Leave, JoinElsewhere, CacheStep, calls
    <2>5. ASSUME Restart
          PROVE  Watching
      BY <2>5 DEF Restart
    <2>6. QED
      BY <1>1, <2>3, <2>4, <2>5 DEF Next
  <1>2. TypeOK /\ [Next]_vars => [dry /\ dry' => Watching]_vars
    BY <1>1
  <1>3. QED
    BY <1>2, CallbacksTyped, PTL DEF Spec, DryRunOnlyWatches
=============================================================================
