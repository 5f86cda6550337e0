------------------------- MODULE RejectScriptProofs -------------------------
(***************************************************************************)
(* For every list of users and every number of rooms: the exit status of   *)
(* the clean-up script can be relied on, and it leaves no token behind     *)
(* that it did not try to revoke.                                          *)
(***************************************************************************)
EXTENDS RejectScript, SequenceTheorems, TLAPS

\* The users the script was given are a list that is not empty.
LEMMA ListTyped ==
  ASSUME users \in UserLists
  PROVE  /\ users \in Seq(Users) /\ Len(users) \in Nat \ {0}
         /\ \A i \in 1..Len(users) : users[i] \in Users
  <1>1. users \in Seq(Users) /\ users # <<>>
    BY ScriptAssumption
  <1>2. QED
    BY <1>1, LenProperties, ElementOfSeq, EmptySeq

\* What people do leaves the script alone, what the server does to a membership
\* leaves it a membership.
LEMMA BecomesTyped ==
  ASSUME TypeOK, NEW u \in Users, NEW r \in Rooms, NEW m \in Memberships, Becomes(u, r, m)
  PROVE  membership' \in [Users -> [Rooms -> Memberships]] /\ owed' \subseteq Users \X Rooms
  BY DEF TypeOK, Becomes

\* So does what the server makes of a leave.
LEMMA RejectTyped ==
  ASSUME TypeOK, NEW r \in Rooms, Reject(r) \/ Ignore
  PROVE  membership' \in [Users -> [Rooms -> Memberships]] /\ owed' \subseteq Users \X Rooms
  <1>1. user_id \in Users /\ "leave" \in Memberships
    BY ListTyped DEF TypeOK, user_id, Memberships
  <1>2. CASE Reject(r)
    BY <1>1, <1>2, BecomesTyped DEF Reject
  <1>3. CASE Ignore
    BY <1>3 DEF Ignore, TypeOK
  <1>4. QED
    BY <1>2, <1>3

\* The types are right at the start.
LEMMA InitTyped == Init => TypeOK
  BY ListTyped DEF Init, TypeOK, Memberships, Ended

\* The type invariant is inductive: one step per request.
LEMMA TypeStep == TypeOK /\ [Next]_vars => TypeOK'
  <1> SUFFICES ASSUME TypeOK, [Next]_vars PROVE TypeOK'
    OBVIOUS
  <1> USE DEF Ended, server, arguments
  <1>a. users \in Seq(Users) /\ Len(users) \in Nat \ {0} /\ turn \in Nat /\ user_id \in Users
    BY ListTyped DEF TypeOK, user_id
  <1>1. CASE Login
    BY <1>1, <1>a DEF Login, TypeOK
  <1>2. CASE LoginFails
    BY <1>2, <1>a DEF LoginFails, Raise, TypeOK
  <1>3. CASE Sync
    BY <1>3, <1>a DEF Sync, TypeOK, PendingOf
  <1>4. CASE SyncFails
    BY <1>4, <1>a DEF SyncFails, Raise, TypeOK
  <1>5. ASSUME NEW r \in Rooms, Skip(r) PROVE TypeOK'
    BY <1>5, <1>a DEF Skip, TypeOK
  <1>6. ASSUME NEW r \in Rooms, Leave(r) PROVE TypeOK'
    <2>1. membership' \in [Users -> [Rooms -> Memberships]] /\ owed' \subseteq Users \X Rooms
      BY <1>6, RejectTyped DEF Leave
    <2>2. QED
      BY <1>6, <1>a, <2>1 DEF Leave, TypeOK
  <1>7. ASSUME NEW r \in Rooms, LeaveFails(r) PROVE TypeOK'
    <2>1. membership' \in [Users -> [Rooms -> Memberships]] /\ owed' \subseteq Users \X Rooms
      BY <1>7, RejectTyped DEF LeaveFails
    <2>2. QED
      BY <1>7, <1>a, <2>1, ScriptAssumption DEF LeaveFails, TypeOK
  <1>8. ASSUME NEW r \in Rooms, LeaveUnanswered(r) PROVE TypeOK'
    <2>1. membership' \in [Users -> [Rooms -> Memberships]] /\ owed' \subseteq Users \X Rooms
      BY <1>8, RejectTyped DEF LeaveUnanswered
    <2>2. QED
      BY <1>8, <1>a, <2>1 DEF LeaveUnanswered, Raise, TypeOK
  <1>9. CASE Check
    BY <1>9, <1>a DEF Check, TypeOK
  <1>10. CASE Logout
    <2>1. pc = "each" /\ turn \in 1..Len(users)
      BY <1>10 DEF Logout, TypeOK
    <2>2. turn' \in 1..Len(users) /\ turn <= turn' /\ pc' \in {"login", "done"}
      BY <1>10, <1>a, <2>1 DEF Logout, NextUser
    <2>3. live' \subseteq 1..turn' /\ spoiled' \subseteq 1..turn'
      <3>1. live' \subseteq live /\ spoiled' \subseteq spoiled \cup {turn}
        BY <1>10 DEF Logout
      <3>2. 1..turn \subseteq 1..turn' /\ turn \in 1..turn
        BY <1>a, <2>1, <2>2
      <3>3. QED
        BY <3>1, <3>2 DEF TypeOK
    <2>4. QED
      BY <1>10, <2>2, <2>3 DEF Logout, TypeOK
  <1>11. CASE LogoutUnanswered
    BY <1>11, <1>a DEF LogoutUnanswered, Raise, TypeOK
  <1>12. ASSUME NEW u \in Users, NEW r \in Rooms, NEW m \in Memberships, PeopleAct(u, r, m)
         PROVE  TypeOK'
    <2>1. membership' \in [Users -> [Rooms -> Memberships]] /\ owed' \subseteq Users \X Rooms
      BY <1>12, BecomesTyped DEF PeopleAct
    <2>2. QED
      BY <1>12, <2>1 DEF PeopleAct, TypeOK
  <1>13. CASE UNCHANGED vars
    BY <1>13 DEF vars, TypeOK
  <1>14. QED
    BY <1>1, <1>2, <1>3, <1>4, <1>5, <1>6, <1>7, <1>8, <1>9, <1>10, <1>11, <1>12, <1>13
       DEF Next, Script, People

(***************************************************************************)
(* Type correctness: a token is held while a user's invites are read and   *)
(* rejected, and only a failed rejection is looked into.                   *)
(***************************************************************************)
THEOREM ScriptTyped == Spec => []TypeOK
  BY InitTyped, TypeStep, PTL DEF Spec
-----------------------------------------------------------------------------
\* Before a user's turn and at the end there is nothing left to revoke.
TokenInv ==
  /\ TokensRevoked
  /\ pc = "login" => live \subseteq spoiled

\* No step leaves a token valid that is neither in use nor spoiled.
LEMMA TokenStep == TypeOK /\ TokenInv /\ [Next]_vars => TokenInv'
  <1> SUFFICES ASSUME TypeOK, TokenInv, [Next]_vars PROVE TokenInv'
    OBVIOUS
  <1> USE DEF TokenInv, TokensRevoked, server, arguments
  <1>1. CASE Login
    BY <1>1 DEF Login
  <1>2. CASE LoginFails
    BY <1>2 DEF LoginFails, Raise
  <1>3. CASE Logout
    BY <1>3 DEF Logout, NextUser
  <1>4. CASE LogoutUnanswered
    BY <1>4 DEF LogoutUnanswered, Raise
  <1>5. CASE Sync \/ SyncFails \/ Check
    BY <1>5 DEF Sync, SyncFails, Check, Raise
  <1>6. CASE \E r \in Rooms : Skip(r) \/ Leave(r) \/ LeaveFails(r) \/ LeaveUnanswered(r)
    BY <1>6 DEF Skip, Leave, LeaveFails, LeaveUnanswered, Raise
  <1>7. CASE People
    BY <1>7 DEF People, PeopleAct
  <1>8. CASE UNCHANGED vars
    BY <1>8 DEF vars
  <1>9. QED
    BY <1>1, <1>2, <1>3, <1>4, <1>5, <1>6, <1>7, <1>8 DEF Next, Script

(***************************************************************************)
(* The script leaves no token behind that it did not try to revoke, unless *)
(* it raises, and then only the one of the user it was working for.        *)
(***************************************************************************)
THEOREM TokensAreRevoked == Spec => []TokensRevoked
  <1>1. Init => TokenInv
    BY DEF Init, TokenInv, TokensRevoked
  <1>2. TokenInv => TokensRevoked
    BY DEF TokenInv
  <1>3. QED
    BY <1>1, <1>2, TokenStep, ScriptTyped, PTL DEF Spec
-----------------------------------------------------------------------------
\* What is owed is pending, and as long as nothing failed it is still to be handled.
OwedInv ==
  /\ \A u \in Users, r \in Rooms : <<u, r>> \in owed => membership[u][r] = "invite"
  /\ ~dry_run /\ failures = 0 =>
       /\ pc \in {"login", "sync", "done"} => owed = {}
       /\ pc \in {"each", "check"} =>
            \A u \in Users, r \in Rooms : <<u, r>> \in owed => u = user_id /\ r \in invites

\* No step forgets what is owed, as long as nothing failed.
LEMMA OwedStep == TypeOK /\ OwedInv /\ [Next]_vars => OwedInv'
  <1> SUFFICES ASSUME TypeOK, OwedInv, [Next]_vars PROVE OwedInv'
    OBVIOUS
  <1> USE DEF server, arguments
  <1>a. user_id \in Users /\ failures \in Nat /\ membership \in [Users -> [Rooms -> Memberships]]
    BY ListTyped DEF TypeOK, user_id
  <1>b. owed \subseteq Users \X Rooms
    BY DEF TypeOK
  <1>1. CASE Login \/ LoginFails \/ SyncFails
    BY <1>1 DEF Login, LoginFails, SyncFails, Raise, OwedInv, user_id
  <1>2. CASE Sync
    <2>1. /\ UNCHANGED <<membership, users, dry_run, turn, failures>>
          /\ pc = "sync" /\ pc' = "each" /\ user_id' = user_id
          /\ invites' = {r \in Rooms : membership[user_id][r] = "invite"}
          /\ owed' = owed \cup {<<user_id, r>> : r \in invites'}
      BY <1>2 DEF Sync, PendingOf, user_id
    <2>2. QED
      BY <1>a, <2>1 DEF OwedInv
  <1>3. ASSUME NEW r \in Rooms, Skip(r) PROVE OwedInv'
    BY <1>3 DEF Skip, OwedInv, user_id
  <1>4. ASSUME NEW r \in Rooms, Leave(r) PROVE OwedInv'
    <2>1. /\ owed' = owed \ {<<user_id, r>>}
          /\ membership' = [membership EXCEPT ![user_id][r] = "leave"]
      BY <1>4 DEF Leave, Reject, Becomes
    <2>2. /\ UNCHANGED <<users, dry_run, turn, pc, failures>> /\ user_id' = user_id
          /\ invites' = invites \ {r}
      BY <1>4 DEF Leave, user_id
    <2>3. QED
      BY <1>a, <2>1, <2>2 DEF OwedInv
  <1>5. ASSUME NEW r \in Rooms, LeaveFails(r) \/ LeaveUnanswered(r) PROVE OwedInv'
    <2>1. \/ UNCHANGED <<membership, owed>>
          \/ /\ owed' = owed \ {<<user_id, r>>}
             /\ membership' = [membership EXCEPT ![user_id][r] = "leave"]
      BY <1>5 DEF LeaveFails, LeaveUnanswered, Reject, Ignore, Becomes
    <2>2. /\ UNCHANGED <<users, dry_run, turn, invites, failures>> /\ user_id' = user_id
          /\ pc = "each" /\ pc' \in {"check", "raised"}
      BY <1>5 DEF LeaveFails, LeaveUnanswered, Raise, user_id
    <2>3. QED
      BY <1>a, <2>1, <2>2 DEF OwedInv
  <1>6. CASE Check
    <2>1. /\ UNCHANGED <<membership, users, dry_run, turn, owed>> /\ user_id' = user_id
          /\ pc = "check" /\ pc' = "each" /\ invites' = invites \ {room_id}
      BY <1>6 DEF Check, user_id
    <2>2. CASE room_id \in PendingOf(user_id)
      BY <1>6, <1>a, <2>1, <2>2 DEF Check, OwedInv
    <2>3. CASE room_id \notin PendingOf(user_id)
      <3>1. failures' = failures /\ <<user_id, room_id>> \notin owed
        BY <1>6, <1>a, <1>b, <2>3 DEF Check, PendingOf, OwedInv
      <3>2. QED
        BY <2>1, <3>1 DEF OwedInv
    <2>4. QED
      BY <2>2, <2>3
  <1>7. CASE Logout
    <2>1. /\ UNCHANGED <<membership, dry_run, failures, owed>>
          /\ pc = "each" /\ pc' \in {"login", "done"} /\ invites = {}
      BY <1>7 DEF Logout, NextUser
    <2>2. QED
      BY <1>b, <2>1 DEF OwedInv
  <1>8. CASE LogoutUnanswered
    BY <1>8 DEF LogoutUnanswered, Raise, OwedInv, user_id
  <1>9. ASSUME NEW u \in Users, NEW r \in Rooms, NEW m \in Memberships, PeopleAct(u, r, m)
        PROVE  OwedInv'
    <2>1. /\ membership' = [membership EXCEPT ![u][r] = m]
          /\ owed' = IF m = "invite" THEN owed ELSE owed \ {<<u, r>>}
          /\ UNCHANGED <<dry_run, pc, invites, failures>> /\ user_id' = user_id
      BY <1>9 DEF PeopleAct, Becomes, user_id
    <2>2. QED
      BY <1>a, <2>1 DEF OwedInv
  <1>10. CASE UNCHANGED vars
    BY <1>10 DEF vars, OwedInv, user_id
  <1>11. QED
    BY <1>1, <1>2, <1>3, <1>4, <1>5, <1>6, <1>7, <1>8, <1>9, <1>10 DEF Next, Script, People

(***************************************************************************)
(* The exit status can be relied on: 0 means that every invite which was   *)
(* read has been gone since, for any number of users, rooms, errors and    *)
(* people who invite meanwhile.                                            *)
(***************************************************************************)
THEOREM ExitIsClean == Spec => []CleanExit
  <1>1. Init => OwedInv
    BY DEF Init, OwedInv
  <1>2. TypeOK /\ OwedInv => CleanExit
    BY DEF OwedInv, CleanExit, ExitStatus, TypeOK
  <1>3. QED
    BY <1>1, <1>2, OwedStep, ScriptTyped, PTL DEF Spec
=============================================================================
