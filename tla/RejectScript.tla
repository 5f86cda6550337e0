---------------------------- MODULE RejectScript ----------------------------
(***************************************************************************)
(* scripts/reject_pending_invites.py: for one user after another a token   *)
(* is obtained, the pending invites are read, each is rejected, and the    *)
(* token is revoked. Every request is a step; while the script waits or    *)
(* works, people invite, withdraw, accept and leave. A request may be      *)
(* answered with an HTTP error, which most of the script takes for fatal,  *)
(* or never be answered, which raises whatever `fatal' says.               *)
(***************************************************************************)
EXTENDS Naturals, Sequences

CONSTANTS
  Users, Rooms,
  UserLists,       \* what --users and --config may name, in this order
  NoRoom

ASSUME ScriptAssumption ==
  /\ UserLists \subseteq Seq(Users) /\ <<>> \notin UserLists
  /\ NoRoom \notin Rooms

VARIABLES
  membership,      \* [Users -> [Rooms -> membership]]
  live,            \* tokens that are valid, named by the place of their user in the list
  users, dry_run,  \* the arguments
  turn,            \* place in the list
  pc,
  invites,         \* rooms of this user that are still to be handled
  room_id,         \* the room whose rejection was answered with an error
  failures,
  owed,            \* ghost: invites that were read and have been pending ever since
  spoiled          \* ghost: tokens whose revocation was answered with an error

server == <<membership, live>>
arguments == <<users, dry_run>>
vars == <<server, arguments, turn, pc, invites, room_id, failures, owed, spoiled>>

Memberships == {"invite", "join", "leave"}
Ended == {"done", "raised"}

user_id == users[turn]
PendingOf(u) == {r \in Rooms : membership[u][r] = "invite"}

Init ==
  /\ membership \in [Users -> [Rooms -> Memberships]]
  /\ live = {}
  /\ users \in UserLists /\ dry_run \in BOOLEAN
  /\ turn = 1 /\ pc = "login"
  /\ invites = {} /\ room_id = NoRoom /\ failures = 0
  /\ owed = {} /\ spoiled = {}
-----------------------------------------------------------------------------
\* A membership changes; an invite that is gone is owed no more.
Becomes(u, r, m) ==
  /\ membership' = [membership EXCEPT ![u][r] = m]
  /\ owed' = IF m = "invite" THEN owed ELSE owed \ {<<u, r>>}

\* Somebody invites, the user accepts or leaves, the invite is withdrawn.
PeopleAct(u, r, m) ==
  /\ membership[u][r] # m
  /\ m = "join" => membership[u][r] = "invite"
  /\ m = "invite" => membership[u][r] = "leave"
  /\ Becomes(u, r, m)
  /\ UNCHANGED <<live, arguments, turn, pc, invites, room_id, failures, spoiled>>

\* An answer that raises ends the script where it is.
Raise == pc' = "raised" /\ UNCHANGED <<arguments, turn, invites, room_id, failures, spoiled>>

NextUser ==
  IF turn < Len(users) THEN turn' = turn + 1 /\ pc' = "login"
  ELSE turn' = turn /\ pc' = "done"

OneLogin ==
  /\ pc = "login"
  /\ live' = live \cup {1}
  /\ pc' = "sync"
  /\ UNCHANGED <<membership, arguments, turn, invites, room_id, failures, owed, spoiled>>
Login ==
  /\ pc = "login"
  /\ live' = live \cup {turn}
  /\ pc' = "sync"
  /\ UNCHANGED <<membership, arguments, turn, invites, room_id, failures, owed, spoiled>>

\* An error, or no answer: the token may exist all the same.
LoginFails ==
  /\ pc = "login"
  /\ live' \in {live, live \cup {turn}}
  /\ Raise
  /\ UNCHANGED <<membership, owed>>

HastySync ==
  /\ pc = "sync"
  /\ invites' = PendingOf(user_id)
  /\ owed' = owed \cup {<<user_id, r>> : r \in PendingOf(user_id)}
  /\ IF PendingOf(user_id) = {} THEN NextUser ELSE pc' = "each" /\ UNCHANGED turn
  /\ UNCHANGED <<server, arguments, room_id, failures, spoiled>>
Sync ==
  /\ pc = "sync"
  /\ invites' = PendingOf(user_id)
  /\ owed' = owed \cup {<<user_id, r>> : r \in PendingOf(user_id)}
  /\ pc' = "each"
  /\ UNCHANGED <<server, arguments, turn, room_id, failures, spoiled>>

SyncFails ==
  /\ pc \in {"sync", "check"}
  /\ Raise
  /\ UNCHANGED <<server, owed>>

\* With --dry-run the invite is named and left alone.
Skip(r) ==
  /\ pc = "each" /\ r \in invites /\ dry_run
  /\ invites' = invites \ {r}
  /\ UNCHANGED <<server, arguments, turn, pc, room_id, failures, owed, spoiled>>

\* What the server does with the request to leave: anything from nothing to all of it.
Reject(r) == Becomes(user_id, r, "leave")
Ignore == UNCHANGED <<membership, owed>>

Leave(r) ==
  /\ pc = "each" /\ r \in invites /\ ~dry_run
  /\ Reject(r)
  /\ invites' = invites \ {r}
  /\ UNCHANGED <<live, arguments, turn, pc, room_id, failures, spoiled>>

\* "Trust the state, not the status code": an error is looked into.
TrustingLeaveFails(r) ==
  /\ pc = "each" /\ r \in invites /\ ~dry_run
  /\ Reject(r) \/ Ignore
  /\ invites' = invites \ {r}
  /\ UNCHANGED <<live, arguments, turn, pc, room_id, failures, spoiled>>
LeaveFails(r) ==
  /\ pc = "each" /\ r \in invites /\ ~dry_run
  /\ Reject(r) \/ Ignore
  /\ room_id' = r
  /\ pc' = "check"
  /\ UNCHANGED <<live, arguments, turn, invites, failures, spoiled>>

LeaveUnanswered(r) ==
  /\ pc = "each" /\ r \in invites /\ ~dry_run
  /\ Reject(r) \/ Ignore
  /\ Raise
  /\ UNCHANGED live

RescanningCheck ==
  /\ pc = "check"
  /\ failures' = IF room_id \in PendingOf(user_id) THEN 1 ELSE 0
  /\ invites' = PendingOf(user_id)
  /\ room_id' = NoRoom
  /\ pc' = "each"
  /\ UNCHANGED <<server, arguments, turn, owed, spoiled>>
Check ==
  /\ pc = "check"
  /\ failures' = IF room_id \in PendingOf(user_id) THEN failures + 1 ELSE failures
  /\ invites' = invites \ {room_id}
  /\ room_id' = NoRoom
  /\ pc' = "each"
  /\ UNCHANGED <<server, arguments, turn, owed, spoiled>>

\* The token is revoked, or the server answers an error, which is not fatal.
Logout ==
  /\ pc = "each" /\ invites = {}
  /\ \/ live' = live \ {turn} /\ UNCHANGED spoiled
     \/ live' \in {live, live \ {turn}} /\ spoiled' = spoiled \cup {turn}
  /\ NextUser
  /\ UNCHANGED <<membership, arguments, invites, room_id, failures, owed>>

LogoutUnanswered ==
  /\ pc = "each" /\ invites = {}
  /\ live' \in {live, live \ {turn}}
  /\ Raise
  /\ UNCHANGED <<membership, owed>>

Script ==
  \/ Login \/ LoginFails \/ Sync \/ SyncFails
  \/ \E r \in Rooms : Skip(r) \/ Leave(r) \/ LeaveFails(r) \/ LeaveUnanswered(r)
  \/ Check \/ Logout \/ LogoutUnanswered

\* People never stop, nor do they wait for the script.
People == \E u \in Users, r \in Rooms, m \in Memberships : PeopleAct(u, r, m)

Next == Script \/ People

\* Every request ends: urlopen has a timeout.
Spec == Init /\ [][Next]_vars /\ WF_vars(Script)
-----------------------------------------------------------------------------
ExitStatus == IF pc = "done" /\ failures = 0 THEN 0 ELSE 1

\* Every variable has its type, and the script holds a token exactly while it works for a user.
TypeOK ==
  /\ membership \in [Users -> [Rooms -> Memberships]]
  /\ users \in UserLists /\ dry_run \in BOOLEAN
  /\ turn \in 1..Len(users)
  /\ live \subseteq 1..turn /\ spoiled \subseteq 1..turn
  /\ pc \in {"login", "sync", "each", "check"} \cup Ended
  /\ pc \in {"sync", "each", "check"} => turn \in live
  /\ invites \subseteq Rooms /\ room_id \in invites \cup {NoRoom}
  /\ pc = "check" => room_id # NoRoom
  /\ pc \in {"login", "sync", "each", "done"} => room_id = NoRoom
  /\ failures \in Nat
  /\ owed \subseteq Users \X Rooms

(***************************************************************************)
(* The exit status can be relied on: 0 means that each invite which was    *)
(* pending when its user's turn came has been gone at some moment since,   *)
(* however the server answered and whatever people did meanwhile.          *)
(***************************************************************************)
CleanExit == pc = "done" /\ ~dry_run /\ ExitStatus = 0 => owed = {}

(***************************************************************************)
(* "Short-lived access token": the script leaves no token behind that it   *)
(* did not try to revoke, unless it raises, and then one at most.          *)
(***************************************************************************)
TokensRevoked ==
  /\ live \ spoiled \subseteq {turn}
  /\ pc = "done" => live \subseteq spoiled

(***************************************************************************)
(* The script ends although people may invite the users for ever: it works *)
(* off what it read once.                                                  *)
(***************************************************************************)
Terminates == <>(pc \in Ended)
=============================================================================
