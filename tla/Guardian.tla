------------------------------ MODULE Guardian ------------------------------
(***************************************************************************)
(* The callbacks of module.py, over the rules PolicyStore keeps in force   *)
(* (module RuleCache). A task is one callback run by Synapse: it waits for *)
(* the rules, decides at once or goes on to look up who sent a pending     *)
(* invite or who is in the room, and hands Synapse a verdict, on which     *)
(* Synapse acts. Rules and memberships change while it waits. A refused    *)
(* join of a stale invite also starts a background job that leaves the     *)
(* room on the user's behalf.                                              *)
(***************************************************************************)
EXTENDS RuleCache, Naturals

CONSTANTS
  Users,           \* user IDs that occur in requests and rooms
  Local,           \* those of this server (is_mine)
  ChatRooms,       \* the rooms users talk in
  Requests,        \* the calls Synapse makes; "user_may_join_room" lacks is_invited
  Offers,          \* the rule sets the control room may come to have
  DryRuns,         \* the values dry_run may have when a process starts
  UninvitedJoins,  \* uninvited_joins
  EarlyMembers,    \* memberships there may be when the module is installed
  NoOne, NoRequest,
  MaxMoves         \* bound: how often others come or go

VARIABLES
  pc,       \* [Tasks -> where the callback waits, or its verdict]
  req,      \* [Tasks -> the call]
  member,   \* [ChatRooms -> [Users -> membership]]
  inviter,  \* [ChatRooms -> [Users -> who sent the pending invite]]
  jobs,     \* background rejections not yet run
  during,   \* ghost: [Tasks -> the values of cached since the call]
  sights,   \* ghost: [Tasks -> the views of the room since a join had its rules]
  moves,    \* bound: how often others have come or gone
  dry       \* dry_run, as read from the configuration when the process started

calls == <<pc, req>>
rooms == <<member, inviter>>
vars == <<cacheVars, calls, rooms, jobs, during, sights, moves, dry>>
-----------------------------------------------------------------------------
InviteCalls == {"federated_user_may_invite", "user_may_invite"}
\* Things a protected user asks for that would let strangers in.
OpeningCalls == {"user_may_send_3pid_invite", "user_may_publish_room", "user_may_create_room",
                 "user_may_create_room_alias", "user_may_send_state_event", "check_event_allowed"}
Calls == InviteCalls \cup OpeningCalls \cup {"user_may_join_room"}
Memberships == {"leave", "invite", "join"}
Waiting == {"rules", "inviter", "members"}
\* "unchecked" is a pass without a look at the inviter, who could not be found.
Passing == {"passed", "unchecked"}
Verdicts == Passing \cup {"refused"}

\* A call as the callbacks see it: opens says whether the room configuration or
\* the event asked for is one of those the module keeps from protected users.
RequestSet == [call : Calls, actor : Users, target : Users, room : ChatRooms,
               opens : BOOLEAN, invited : BOOLEAN]

(***************************************************************************)
(* What the callbacks rely on. The store's assumptions hold here too: what *)
(* the operator wrote in the configuration is a rule set.                  *)
(***************************************************************************)
ASSUME GuardianAssumption ==
  /\ Users \subseteq Names /\ Local \subseteq Users
  /\ Requests \subseteq RequestSet
  /\ Static \in RuleSet /\ Offers \subseteq RuleSet /\ NoRules \notin RuleSet
  /\ DryRuns \subseteq BOOLEAN
  /\ UninvitedJoins \in {"deny", "known_rooms"}
  /\ EarlyMembers \subseteq [ChatRooms -> [Users -> Memberships]]
  /\ NoOne \notin Users /\ NoRequest \notin RequestSet
  /\ MaxMoves \in Nat

Init ==
  /\ offered = Offers
  /\ cached = NoRules
  /\ answer = [t \in Tasks |-> NoRules]
  /\ pc = [t \in Tasks |-> "idle"]
  /\ req = [t \in Tasks |-> NoRequest]
  /\ member \in EarlyMembers
  /\ inviter \in [ChatRooms -> [Users -> Users \cup {NoOne}]]
  /\ \A r \in ChatRooms, u \in Users :
       inviter[r][u] # u /\ (inviter[r][u] = NoOne <=> member[r][u] # "invite")
  /\ jobs = {}
  /\ during = [t \in Tasks |-> {}]
  /\ sights = [t \in Tasks |-> {}]
  /\ moves = 0
  /\ dry \in DryRuns
-----------------------------------------------------------------------------
\* What there is to see of a room.
View(people, senders, r) == [people |-> people[r], senders |-> senders[r]]

\* What the ghosts see of a step, over tasks whose callback has been called.
Watch ==
  /\ during' = [t \in Tasks |-> IF pc'[t] = "idle" THEN {} ELSE during[t] \cup {cached, cached'}]
  /\ sights' = [t \in Tasks |->
                  IF pc'[t] \in {"idle", "rules"} \/ req'[t].call # "user_may_join_room" THEN {}
                  ELSE sights[t] \cup {View(member, inviter, req'[t].room),
                                       View(member', inviter', req'[t].room)}]

\* _block: a refusal, unless the module only reports what it would refuse.
OutspokenVerdict(refuse) == IF refuse THEN "refused" ELSE "passed"
Verdict(refuse) == IF refuse /\ ~dry THEN "refused" ELSE "passed"

\* The verdict of every callback but user_may_join_room, from the rules it got.
OneWayRefused(rs, q) ==
  \/ q.call \in InviteCalls /\ IsProtected(rs, q.target) /\ ~Allowed(rs, q.actor)
  \/ q.call \in OpeningCalls /\ q.opens /\ IsProtected(rs, q.actor)
BlanketRefused(rs, q) ==
  \/ q.call \in InviteCalls /\ IsProtected(rs, q.target) /\ ~Allowed(rs, q.actor)
  \/ q.call = "user_may_invite" /\ IsProtected(rs, q.actor) /\ ~Allowed(rs, q.target)
  \/ q.call \in OpeningCalls /\ q.opens
Refused(rs, q) ==
  \/ q.call \in InviteCalls /\ IsProtected(rs, q.target) /\ ~Allowed(rs, q.actor)
  \/ q.call = "user_may_invite" /\ IsProtected(rs, q.actor) /\ ~Allowed(rs, q.target)
  \/ q.call \in OpeningCalls /\ q.opens /\ IsProtected(rs, q.actor)

\* Calls that are let through without asking for the rules.
NotOurs(q) ==
  \/ q.call = "user_may_send_state_event" /\ ~q.opens
  \/ q.call = "check_event_allowed" /\ q.actor \notin Local

\* Synapse calls a callback; whether a join follows an invite is Synapse's word.
Call(t, q) ==
  /\ pc[t] = "idle"
  /\ q.invited = (q.call = "user_may_join_room" /\ member[q.room][q.actor] = "invite")
  /\ req' = [req EXCEPT ![t] = q]
  /\ pc' = [pc EXCEPT ![t] = IF NotOurs(q) THEN "passed" ELSE "rules"]
  /\ UNCHANGED <<cacheVars, rooms, jobs, moves, dry>>

\* get_rules returns and the callback runs on, to its verdict or its next await.
RunOn(rs, q) ==
  CASE q.call # "user_may_join_room" -> Verdict(Refused(rs, q))
    [] q.call = "user_may_join_room" /\ ~IsProtected(rs, q.actor) -> "passed"
    [] q.call = "user_may_join_room" /\ IsProtected(rs, q.actor) /\ q.invited -> "inviter"
    [] OTHER -> IF UninvitedJoins = "deny" THEN Verdict(TRUE) ELSE "members"

GetRules(t) ==
  /\ pc[t] = "rules"
  /\ Answer(t)
  /\ pc' = [pc EXCEPT ![t] = RunOn(cached, req[t])]
  /\ UNCHANGED <<req, rooms, jobs, moves, dry>>

\* _inviter finds the sender of the pending invite; None lets the join through.
BlamingLookUp(t) ==
  /\ pc[t] = "inviter"
  /\ LET q == req[t]
         sender == inviter[q.room][q.actor]
         refuse == ~Allowed(answer[t], sender)
     IN /\ pc' = [pc EXCEPT ![t] = Verdict(refuse)]
        /\ jobs' = IF Verdict(refuse) = "passed" THEN jobs
                   ELSE jobs \cup {[user |-> q.actor, room |-> q.room, inviter |-> sender]}
  /\ UNCHANGED <<cacheVars, req, rooms, moves, dry>>
LookUpInviter(t) ==
  /\ pc[t] = "inviter"
  /\ LET q == req[t]
         sender == inviter[q.room][q.actor]
         refuse == sender # NoOne /\ ~Allowed(answer[t], sender)
     IN /\ pc' = [pc EXCEPT ![t] = Verdict(refuse)]
        /\ jobs' = IF Verdict(refuse) = "passed" THEN jobs
                   ELSE jobs \cup {[user |-> q.actor, room |-> q.room, inviter |-> sender]}
  /\ UNCHANGED <<cacheVars, req, rooms, moves, dry>>

\* The look-up is unavailable or fails: the join goes through unchecked.
LookUpFails(t) ==
  /\ pc[t] = "inviter"
  /\ pc' = [pc EXCEPT ![t] = "unchecked"]
  /\ UNCHANGED <<cacheVars, req, rooms, jobs, moves, dry>>

\* _known_room_reason, over what get_room_state returns.
Vetted(rs, user, people) ==
  /\ \E u \in Local : people[u] = "join"
  /\ \A m \in Users :
       people[m] \in {"join", "invite"} /\ Lower[m] # Lower[user] => Allowed(rs, m)

ReadMembers(t) ==
  /\ pc[t] = "members"
  /\ LET q == req[t]
     IN pc' = [pc EXCEPT ![t] = Verdict(~Vetted(answer[t], q.actor, member[q.room]))]
  /\ UNCHANGED <<cacheVars, req, rooms, jobs, moves, dry>>

\* The users a callback passes to _fail_closed_if_protected.
Involved(q) ==
  CASE q.call = "federated_user_may_invite" -> {q.target}
    [] q.call = "user_may_invite" -> {q.actor, q.target}
    [] OTHER -> {q.actor}

StaticOnlyFailClosed(q) ==
  IF \E u \in Involved(q) : IsProtected(Static, u) THEN "refused" ELSE "passed"
FailClosed(q) ==
  IF \E u \in Involved(q) : \/ IsProtected(Static, u)
                            \/ cached # NoRules /\ IsProtected(cached, u)
  THEN "refused" ELSE "passed"

\* An await raises (the request is cancelled, the room cannot be read).
Raise(t) ==
  /\ pc[t] \in {"rules", "members"}
  /\ pc' = [pc EXCEPT ![t] = FailClosed(req[t])]
  /\ UNCHANGED <<cacheVars, req, rooms, jobs, moves, dry>>

\* Synapse acts on a verdict: what it let through takes effect, or fails later on.
TakeEffect(q) ==
  /\ IF q.call \in InviteCalls /\ member[q.room][q.target] # "join"
     THEN /\ member' = [member EXCEPT ![q.room][q.target] = "invite"]
          /\ inviter' = [inviter EXCEPT ![q.room][q.target] = q.actor]
     ELSE IF q.call = "user_may_join_room"
     THEN /\ member' = [member EXCEPT ![q.room][q.actor] = "join"]
          /\ inviter' = [inviter EXCEPT ![q.room][q.actor] = NoOne]
     ELSE UNCHANGED rooms

Finish(t) ==
  /\ pc[t] \in Verdicts
  /\ pc' = [pc EXCEPT ![t] = "idle"]
  /\ req' = [req EXCEPT ![t] = NoRequest]
  /\ Release(t)
  /\ \/ pc[t] \in Passing /\ TakeEffect(req[t])
     \/ UNCHANGED rooms
  /\ UNCHANGED <<jobs, moves, dry>>

\* _reject_invite leaves the room; a failure is logged and the job is over.
RejectInvite(j) ==
  /\ j \in jobs
  /\ jobs' = jobs \ {j}
  /\ \/ /\ member' = [member EXCEPT ![j.room][j.user] = "leave"]
        /\ inviter' = [inviter EXCEPT ![j.room][j.user] = NoOne]
     \/ UNCHANGED rooms
  /\ UNCHANGED <<cacheVars, calls, moves, dry>>

\* A user leaves or is removed, or an invite is withdrawn.
Leave(r, u) ==
  /\ moves < MaxMoves /\ moves' = moves + 1
  /\ member[r][u] # "leave"
  /\ member' = [member EXCEPT ![r][u] = "leave"]
  /\ inviter' = [inviter EXCEPT ![r][u] = NoOne]
  /\ UNCHANGED <<cacheVars, calls, jobs, dry>>

\* A user of another server joins: no callback of ours is run for it.
JoinElsewhere(r, u) ==
  /\ moves < MaxMoves /\ moves' = moves + 1
  /\ u \in Users \ Local
  /\ member[r][u] # "join"
  /\ member' = [member EXCEPT ![r][u] = "join"]
  /\ inviter' = [inviter EXCEPT ![r][u] = NoOne]
  /\ UNCHANGED <<cacheVars, calls, jobs, dry>>

\* PolicyStore loads other rules, for whichever callback made it refresh.
CacheStep ==
  /\ Load \/ RunOnStatic
  /\ UNCHANGED <<calls, rooms, jobs, moves, dry>>

Restart ==
  /\ Forget
  /\ pc' = [t \in Tasks |-> "idle"]
  /\ req' = [t \in Tasks |-> NoRequest]
  /\ jobs' = {}
  /\ dry' \in DryRuns
  /\ UNCHANGED <<rooms, moves>>

CallbackStep(t) ==
  \/ \E q \in Requests : Call(t, q)
  \/ GetRules(t) \/ LookUpInviter(t) \/ LookUpFails(t) \/ ReadMembers(t) \/ Raise(t) \/ Finish(t)

Next ==
  /\ \/ \E t \in Tasks : CallbackStep(t)
     \/ \E j \in jobs : RejectInvite(j)
     \/ \E r \in ChatRooms, u \in Users : Leave(r, u) \/ JoinElsewhere(r, u)
     \/ CacheStep
     \/ Restart
  /\ Watch

Spec == Init /\ [][Next]_vars
-----------------------------------------------------------------------------
Jobs == [user : Users, room : ChatRooms, inviter : Users]

\* Every variable has its type, and a callback that waits for more than the
\* rules holds them and was told by them that the user is protected.
TypeOK ==
  /\ offered \subseteq RuleSet
  /\ cached \in RuleSet \cup {NoRules}
  /\ answer \in [Tasks -> RuleSet \cup {NoRules}]
  /\ pc \in [Tasks -> {"idle"} \cup Waiting \cup Verdicts]
  /\ req \in [Tasks -> RequestSet \cup {NoRequest}]
  /\ member \in [ChatRooms -> [Users -> Memberships]]
  /\ inviter \in [ChatRooms -> [Users -> Users \cup {NoOne}]]
  /\ during \in [Tasks -> SUBSET (RuleSet \cup {NoRules})]
  /\ jobs \subseteq Jobs /\ moves \in 0..MaxMoves /\ dry \in BOOLEAN
  /\ \A t \in Tasks : pc[t] # "idle" => req[t] \in RequestSet
  /\ \A t \in Tasks : pc[t] \in {"inviter", "members"} =>
       /\ answer[t] \in RuleSet
       /\ req[t].call = "user_may_join_room"
       /\ IsProtected(answer[t], req[t].actor)

\* What the configured rules alone decide, whatever the control room says.
BlockedByName(u) == u \notin WellFormed \/ Hit(Static, "blocked_user", u)
RefusedByConfig(q) ==
  \/ q.call \in InviteCalls /\ IsProtected(Static, q.target) /\ BlockedByName(q.actor)
  \/ q.call = "user_may_invite" /\ IsProtected(Static, q.actor) /\ BlockedByName(q.target)
  \/ q.call \in OpeningCalls /\ q.opens /\ IsProtected(Static, q.actor) /\ ~NotOurs(q)
  \/ /\ q.call = "user_may_join_room" /\ IsProtected(Static, q.actor)
     /\ ~q.invited /\ UninvitedJoins = "deny"

(***************************************************************************)
(* What the configuration alone refuses is never let through: not by any   *)
(* rule of the control room, not while rules are loading or changing, not  *)
(* when something the callback waits for fails, and not after a restart.   *)
(***************************************************************************)
ConfigAlwaysRefused ==
  ~dry => \A t \in Tasks : pc[t] \in Passing => ~RefusedByConfig(req[t])

(***************************************************************************)
(* The module never stands in the way of users nobody protects: a refusal  *)
(* involves a user protected by the configuration or by rules that were in *)
(* force at some moment of that very call.                                 *)
(***************************************************************************)
OnlyProtectedRefused ==
  \A t \in Tasks : pc[t] = "refused" =>
    \E rs \in {Static} \cup (during[t] \ {NoRules}) :
      \E u \in Involved(req[t]) : IsProtected(rs, u)

\* What one set of rules would let through, with the room as it was at some moment.
LetsJoin(rs, seen, q) ==
  \/ ~IsProtected(rs, q.actor)
  \/ q.invited /\ (\/ seen.senders[q.actor] = NoOne
                  \/ Allowed(rs, seen.senders[q.actor]))
  \/ ~q.invited /\ UninvitedJoins = "known_rooms" /\ Vetted(rs, q.actor, seen.people)
LetsThrough(rs, seen, q) ==
  IF q.call = "user_may_join_room" THEN \E s \in seen : LetsJoin(rs, s, q)
  ELSE ~Refused(rs, q)

(***************************************************************************)
(* A call is let through on good grounds even if rules and memberships     *)
(* change while it waits, and even if it fails half-way: one set of rules  *)
(* in force during the call, with the room as it was at some moment after  *)
(* they were asked for, lets it through; or the call failed while nothing  *)
(* had been loaded, and involved no user the configuration protects.       *)
(***************************************************************************)
PassedOnGoodGrounds ==
  ~dry => \A t \in Tasks : pc[t] = "passed" =>
    \/ NotOurs(req[t])
    \/ \E rs \in during[t] \ {NoRules} : LetsThrough(rs, sights[t], req[t])
    \/ NoRules \in during[t] /\ \A u \in Involved(req[t]) : ~IsProtected(Static, u)

(***************************************************************************)
(* In dry-run mode the module decides and reports as ever, but nothing of  *)
(* it reaches anybody: only an await that raises makes a callback refuse,  *)
(* and no pending invite is rejected that was refused in that mode.        *)
(***************************************************************************)
DryRunOnlyWatches ==
  [][dry /\ dry' => /\ jobs' \subseteq jobs
                    /\ \A t \in Tasks : pc'[t] = "refused" => pc[t] = "refused" \/ Raise(t)]_vars
=============================================================================
