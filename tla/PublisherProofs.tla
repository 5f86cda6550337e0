--------------------------- MODULE PublisherProofs ---------------------------
(***************************************************************************)
(* Publisher, for any number of tasks, payloads, loads, failing sends,     *)
(* start-up attempts and restarts.                                         *)
(***************************************************************************)
EXTENDS Publisher, TLAPS

(***************************************************************************)
(* At most one start-up attempt is under way: the next one is scheduled    *)
(* only when it is over.                                                   *)
(***************************************************************************)
OneWarming == \A t, u \in warming : t = u

\* A call of publish() that ends leaves the start-up attempts in order.
LEMMA DoneTyped ==
  ASSUME TypeOK, OneWarming, NEW t \in Tasks, NEW b \in BOOLEAN, Done(t, b)
  PROVE  /\ warming' = warming \ {t}
         /\ armed' \in BOOLEAN
         /\ armed' => warming' = {}
         /\ attempt' \in 1..WARM_UP_ATTEMPTS
  <1>1. warming' = warming \ {t}
    BY DEF Done
  <1>2. armed' \in BOOLEAN
    BY Zenon DEF Done, TypeOK
  <1>3. armed' => warming' = {}
    <2>1. CASE t \in warming
      BY <1>1, <2>1 DEF OneWarming
    <2>2. CASE t \notin warming
      <3>1. armed' => armed
        BY <2>2 DEF Done
      <3>2. QED
        BY <1>1, <3>1 DEF TypeOK
    <2>3. QED
      BY <2>1, <2>2
  <1>4. attempt' \in 1..WARM_UP_ATTEMPTS
    <2>1. CASE armed' = armed
      BY <2>1 DEF Done, TypeOK
    <2>2. CASE armed' # armed
      <3>1. attempt < WARM_UP_ATTEMPTS /\ attempt' = attempt + 1
        BY <2>2, <1>2 DEF Done, TypeOK
      <3>2. QED
        BY <3>1, PublisherAssumption DEF TypeOK
    <2>3. QED
      BY <2>1, <2>2
  <1>5. QED
    BY <1>1, <1>2, <1>3, <1>4

\* What a comparison leaves behind: the call is over, or it sends.
LEMMA CompareTyped ==
  ASSUME TypeOK, OneWarming, NEW t \in Tasks, NEW known, Compare(t, known)
  PROVE  /\ warming' \subseteq warming
         /\ armed' \in BOOLEAN
         /\ armed' => warming' = {}
         /\ attempt' \in 1..WARM_UP_ATTEMPTS
         /\ \/ pc' = [pc EXCEPT ![t] = "idle"] /\ t \notin warming' /\ known = payload[t]
            \/ pc' = [pc EXCEPT ![t] = "sending"] /\ known # payload[t]
  <1>1. CASE known = payload[t]
    BY <1>1, DoneTyped DEF Compare, Done
  <1>2. CASE known # payload[t]
    BY <1>2 DEF Compare, TypeOK
  <1>3. QED
    BY <1>1, <1>2

TypeInv == TypeOK /\ OneWarming

\* The type invariant, with the one start-up call under way, is inductive.
LEMMA TypeInductive == TypeInv /\ [Next]_vars => TypeInv'
  <1> SUFFICES ASSUME TypeOK, OneWarming, [Next]_vars PROVE TypeInv'
    BY DEF TypeInv
  <1> USE PublisherAssumption DEF TypeInv
  <1> DEFINE AttemptsOK == /\ warming' \subseteq warming
                           /\ armed' \in BOOLEAN
                           /\ armed' => warming' = {}
                           /\ attempt' \in 1..WARM_UP_ATTEMPTS
             SameTypes == /\ shown' \in Payloads \cup {Nothing}
                          /\ current' \in Payloads \cup {Nothing}
                          /\ last' \in Payloads \cup {Nothing}
                          /\ primed' \in BOOLEAN
                          /\ payload' \in [Tasks -> Payloads \cup {Nothing}]
                          /\ found' \in [Tasks -> Payloads \cup {Nothing}]
                          /\ loads' \in 0..MaxLoads /\ failures' \in 0..MaxFailures
                          /\ restarts' \in 0..MaxRestarts
  <1>0. OneWarming' <=> \A t, u \in warming' : t = u
    BY DEF OneWarming
  <1>1. ASSUME NEW t \in Tasks, NEW p \in Payloads, Load(t, p)
        PROVE  TypeInv'
    BY <1>0, <1>1 DEF Load, Begin, TypeOK, OneWarming, Busy
  <1>2. ASSUME NEW t \in Tasks, WarmUp(t)
        PROVE  TypeInv'
    <2>1. warming' = {t} /\ armed' = FALSE
      BY <1>2 DEF WarmUp, TypeOK
    <2>2. QED
      <3>1. armed' \in BOOLEAN
        BY <2>1, Zenon
      <3>2. QED
        BY <1>0, <1>2, <2>1, <3>1 DEF WarmUp, Begin, TypeOK, Busy, counted
  \* A call that runs on, or ends with its place among the attempts given up.
  <1>3. ASSUME NEW t \in Tasks, NEW s \in Busy \cup {"idle"},
               pc[t] # "idle", pc' = [pc EXCEPT ![t] = s],
               SameTypes, AttemptsOK, doubt' \subseteq Tasks \cup {Nothing},
               s = "idle" => t \notin warming',
               s \in {"sending", "sent"} => primed', primed => primed',
               UNCHANGED payload
        PROVE  TypeInv'
    <2>1. OneWarming'
      BY <1>0, <1>3 DEF OneWarming
    <2>2. /\ pc' \in [Tasks -> Busy \cup {"idle"}]
          /\ \A u \in Tasks : pc'[u] # "idle" => payload'[u] \in Payloads
          /\ \A u \in warming' : pc'[u] # "idle" /\ ~armed'
          /\ \A u \in Tasks : pc'[u] \in {"sending", "sent"} => primed'
      <3>1. ASSUME NEW u \in Tasks
            PROVE  /\ pc'[u] \in Busy \cup {"idle"}
                   /\ pc'[u] # "idle" => payload'[u] \in Payloads
                   /\ u \in warming' => pc'[u] # "idle" /\ ~armed'
                   /\ pc'[u] \in {"sending", "sent"} => primed'
        <4>1. CASE u = t
          BY <1>3, <4>1 DEF TypeOK
        <4>2. CASE u # t
          BY <1>3, <4>2 DEF TypeOK
        <4>3. QED
          BY <4>1, <4>2
      <3>2. warming' \subseteq Tasks /\ pc' \in [Tasks -> Busy \cup {"idle"}]
        BY <1>3 DEF TypeOK
      <3>3. QED
        BY <3>1, <3>2
    <2>3. QED
      BY <1>3, <2>1, <2>2 DEF TypeOK
  <1>4. ASSUME NEW t \in Tasks, Publish(t)
        PROVE  TypeInv'
    <2>1. SameTypes /\ doubt' \subseteq Tasks \cup {Nothing} /\ UNCHANGED <<payload, primed>>
      BY <1>4 DEF Publish, TypeOK, Overlap, Others, counted
    <2>2. CASE primed
      <3>1. Compare(t, last)
        BY <1>4, <2>2 DEF Publish
      <3>2. QED
        BY <1>3, <1>4, <2>1, <2>2, <3>1, CompareTyped DEF Publish, Busy
    <2>3. CASE ~primed
      <3>1. AttemptsOK /\ pc' = [pc EXCEPT ![t] = "priming"]
        BY <1>4, <2>3 DEF Publish, TypeOK
      <3>2. QED
        <4>1. pc[t] # "idle" /\ "priming" \in Busy
          BY <1>4 DEF Publish, Busy
        <4>2. QED
          BY <1>3, <2>1, <3>1, <4>1
    <2>4. QED
      BY <2>2, <2>3 DEF TypeOK
  <1>5. ASSUME NEW t \in Tasks, ReadShown(t) \/ Persist(t)
        PROVE  TypeInv'
    <2>1. SameTypes /\ AttemptsOK /\ UNCHANGED <<payload, primed, doubt>>
      BY <1>5 DEF ReadShown, Persist, TypeOK, process, counted
    <2>2. PICK s \in {"read", "sent"} : pc' = [pc EXCEPT ![t] = s] /\ (s = "sent" => primed)
      BY <1>5 DEF ReadShown, Persist, TypeOK
    <2>3. pc[t] # "idle"
      BY <1>5 DEF ReadShown, Persist
    <2>4. QED
      BY <1>3, <2>1, <2>2, <2>3 DEF TypeOK, Busy
  <1>6. ASSUME NEW t \in Tasks, Prime(t)
        PROVE  TypeInv'
    <2>1. SameTypes /\ UNCHANGED <<payload, doubt>> /\ primed' = TRUE
      BY <1>6 DEF Prime, TypeOK, counted
    <2>2. Compare(t, found[t])
      BY <1>6 DEF Prime
    <2>3. QED
      BY <1>3, <1>6, <2>1, <2>2, CompareTyped DEF Prime, TypeOK, Busy
  <1>7. ASSUME NEW t \in Tasks, Ack(t) \/ SendFails(t)
        PROVE  TypeInv'
    <2>1. SameTypes /\ UNCHANGED <<payload, primed>> /\ doubt' \subseteq Tasks \cup {Nothing}
      <3>1. CASE Ack(t)
        BY <3>1 DEF Ack, TypeOK, counted
      <3>2. CASE SendFails(t)
        BY <3>2 DEF SendFails, TypeOK
      <3>3. QED
        BY <1>7, <3>1, <3>2
    <2>2. PICK b \in BOOLEAN : Done(t, b)
      BY <1>7 DEF Ack, SendFails
    <2>3. AttemptsOK /\ t \notin warming'
      BY <2>2, DoneTyped
    <2>4. pc' = [pc EXCEPT ![t] = "idle"] /\ pc[t] # "idle"
      BY <1>7 DEF Ack, SendFails
    <2>5. QED
      BY <1>3, <2>1, <2>3, <2>4
  <1>8. CASE Restart
    <2>1. primed' \in BOOLEAN /\ armed' \in BOOLEAN
      BY <1>8, Zenon DEF Restart
    <2>2. QED
      BY <1>0, <1>8, <2>1 DEF Restart, TypeOK
  <1>9. CASE UNCHANGED vars
    BY <1>0, <1>9 DEF vars, process, work, counted, TypeOK, OneWarming
  <1>10. QED
    BY <1>1, <1>2, <1>4, <1>5, <1>6, <1>7, <1>8, <1>9 DEF Next, TaskStep

(***************************************************************************)
(* Every variable has its type, a call that is under way has something to  *)
(* publish, and a start-up attempt is scheduled only while none runs.      *)
(***************************************************************************)
THEOREM PublisherTyped == Spec => [](TypeOK /\ OneWarming)
  <1>1. Init => TypeInv
    <2> SUFFICES ASSUME Init PROVE TypeInv
      OBVIOUS
    <2>1. primed \in BOOLEAN /\ armed \in BOOLEAN
      BY Zenon DEF Init
    <2>2. QED
      BY <2>1, PublisherAssumption DEF Init, TypeInv, TypeOK, OneWarming
  <1>2. QED
    BY <1>1, TypeInductive, PTL DEF Spec, TypeInv
-----------------------------------------------------------------------------
(***************************************************************************)
(* What a process may believe of the room. Two calls that look at the room *)
(* or send at the same time are both in doubt; so a call that is not in    *)
(* doubt has the room to itself, and what it read, sent and heard back is  *)
(* what the room shows. While nobody is in doubt, _last names what the     *)
(* room shows, or nothing if the one read of it failed.                    *)
(***************************************************************************)
Working(t) == pc[t] \notin {"idle", "begun"}

BeliefInv ==
  /\ \A t, u \in Tasks : t # u /\ Working(t) /\ Working(u) => t \in doubt
  /\ \A t \in Tasks \ doubt :
       /\ pc[t] = "sent" => shown = payload[t]
       /\ pc[t] = "read" => found[t] \in {shown, Nothing}
       /\ pc[t] = "sending" => last # payload[t]
  /\ doubt = {} /\ primed /\ (\A t \in Tasks : pc[t] # "sent") => last \in {shown, Nothing}
  /\ primed \/ (\E t \in Tasks : pc[t] # "idle") => current # Nothing

\* The call that sends, or is about to, has been compared with what it believes.
LEMMA CompareSends ==
  ASSUME TypeInv, NEW t \in Tasks, NEW known, Compare(t, known)
  PROVE  \/ pc' = [pc EXCEPT ![t] = "idle"]
         \/ pc' = [pc EXCEPT ![t] = "sending"] /\ known # payload[t]
  BY DEF Compare

\* Only the room's content, the process's own tables and one call's place matter.
LEMMA BeliefInductive == TypeInv /\ BeliefInv /\ [Next]_vars => BeliefInv'
  <1> SUFFICES ASSUME TypeInv, BeliefInv, [Next]_vars PROVE BeliefInv'
    OBVIOUS
  <1> USE PublisherAssumption DEF TypeInv, TypeOK
  <1>1. ASSUME NEW t \in Tasks, NEW p \in Payloads, Load(t, p)
        PROVE  BeliefInv'
    BY <1>1 DEF Load, Begin, BeliefInv, Working
  <1>2. ASSUME NEW t \in Tasks, WarmUp(t)
        PROVE  BeliefInv'
    BY <1>2 DEF WarmUp, Begin, BeliefInv, Working
  <1>3. ASSUME NEW t \in Tasks, Publish(t)
        PROVE  BeliefInv'
    <2>1. /\ UNCHANGED <<shown, current, last, primed, payload, found>>
          /\ pc[t] = "begun"
          /\ doubt' = Overlap(t)
      BY <1>3 DEF Publish
    <2>2. \/ pc' = [pc EXCEPT ![t] = "idle"]
          \/ pc' = [pc EXCEPT ![t] = "sending"] /\ last # payload[t]
          \/ pc' = [pc EXCEPT ![t] = "priming"]
      BY <1>3, CompareSends DEF Publish
    <2>3. \A u \in Tasks : u # t => (u \in Others(t) <=> Working(u)) /\ pc'[u] = pc[u]
      BY <2>2 DEF Others, Working
    <2>4. CASE Others(t) # {}
      <3>1. doubt' = doubt \cup Others(t) \cup {t}
        BY <2>1, <2>4 DEF Overlap
      <3>2. \A u \in Tasks : Working(u)' => u \in doubt'
        BY <2>3, <3>1 DEF Working
      <3>3. QED
        BY <2>1, <2>4, <3>1, <3>2 DEF BeliefInv, Working
    <2>5. CASE Others(t) = {}
      <3>1. \A u \in Tasks : u # t => ~Working(u)'
        BY <2>3, <2>5 DEF Working
      <3>2. doubt' = {} => doubt = {}
        BY <2>1, <2>5 DEF Overlap
      <3>3. pc'[t] \in {"idle", "sending", "priming"} /\ (pc'[t] = "sending" => last # payload[t])
        BY <2>2
      <3>4. QED
        BY <2>1, <2>3, <3>1, <3>2, <3>3 DEF BeliefInv, Working
    <2>6. QED
      BY <2>4, <2>5
  <1>4. ASSUME NEW t \in Tasks, ReadShown(t)
        PROVE  BeliefInv'
    BY <1>4 DEF ReadShown, BeliefInv, Working, process
  <1>5. ASSUME NEW t \in Tasks, Prime(t)
        PROVE  BeliefInv'
    <2>1. /\ UNCHANGED <<shown, current, payload, found, doubt>>
          /\ pc[t] = "read" /\ last' = found[t]
      BY <1>5 DEF Prime
    <2>2. \/ pc' = [pc EXCEPT ![t] = "idle"]
          \/ pc' = [pc EXCEPT ![t] = "sending"] /\ last' # payload[t]
      BY <1>5, CompareSends DEF Prime
    <2>3. \A u \in Tasks \ doubt : u # t => ~Working(u)
      BY <2>1 DEF BeliefInv, Working
    <2>4. QED
      BY <2>1, <2>2, <2>3 DEF BeliefInv, Working
  <1>6. ASSUME NEW t \in Tasks, Persist(t)
        PROVE  BeliefInv'
    <2>1. \A u \in Tasks \ doubt : u # t => ~Working(u)
      BY <1>6 DEF Persist, BeliefInv, Working
    <2>2. QED
      BY <1>6, <2>1 DEF Persist, BeliefInv, Working, process
  <1>7. ASSUME NEW t \in Tasks, Ack(t)
        PROVE  BeliefInv'
    <2>1. \A u \in Tasks \ doubt : u # t => ~Working(u)
      BY <1>7 DEF Ack, BeliefInv, Working
    <2>2. CASE t \in doubt
      BY <1>7, <2>1, <2>2 DEF Ack, BeliefInv, Working
    <2>3. CASE t \notin doubt
      <3>1. last' = shown /\ doubt' = {}
        BY <1>7, <2>3 DEF Ack, BeliefInv
      <3>2. \A u \in Tasks : ~Working(u)'
        BY <1>7, <2>3 DEF Ack, BeliefInv, Working
      <3>3. QED
        BY <1>7, <3>1, <3>2 DEF Ack, BeliefInv, Working
    <2>4. QED
      BY <2>2, <2>3
  <1>8. ASSUME NEW t \in Tasks, SendFails(t)
        PROVE  BeliefInv'
    BY <1>8 DEF SendFails, BeliefInv, Working
  <1>9. CASE Restart
    BY <1>9 DEF Restart, BeliefInv, Working
  <1>10. CASE UNCHANGED vars
    BY <1>10 DEF vars, process, work, BeliefInv, Working
  <1>11. QED
    BY <1>1, <1>2, <1>3, <1>4, <1>5, <1>6, <1>7, <1>8, <1>9, <1>10 DEF Next, TaskStep

\* What a process believes of the room without being in doubt is so.
THEOREM BeliefHolds == Spec => []BeliefInv
  <1>1. Init => BeliefInv
    BY DEF Init, BeliefInv, Working
  <1>2. QED
    BY <1>1, BeliefInductive, PublisherTyped, PTL DEF Spec, TypeInv

(***************************************************************************)
(* When nothing is under way or in doubt and the process will publish      *)
(* nothing more, the room shows the rules in force: for any number of      *)
(* calls, failures and restarts before.                                    *)
(***************************************************************************)
THEOREM RoomUpToDate == Spec => []UpToDate
  <1>1. TypeOK /\ BeliefInv => UpToDate
    BY DEF TypeOK, BeliefInv, UpToDate, Quiet
  <1>2. QED
    BY <1>1, BeliefHolds, PublisherTyped, PTL

(***************************************************************************)
(* The room is written only when that changes what it shows, unless it     *)
(* could not be read or a write is in doubt.                               *)
(***************************************************************************)
THEOREM OnlyChangesWritten == Spec => WritesOnlyChanges
  <1>1. TypeOK /\ BeliefInv /\ [Next]_vars =>
          [\A t \in Tasks : Persist(t) => payload[t] # shown \/ last = Nothing \/ doubt # {}]_vars
    <2> SUFFICES ASSUME TypeOK, BeliefInv, NEW t \in Tasks, Persist(t),
                        last # Nothing, doubt = {}
                 PROVE  payload[t] # shown
      OBVIOUS
    <2>1. pc[t] = "sending" /\ primed /\ last # payload[t]
      BY DEF Persist, TypeOK, BeliefInv
    <2>2. \A u \in Tasks : pc[u] # "sent"
      BY <2>1 DEF BeliefInv, Working
    <2>3. last = shown
      BY <2>1, <2>2 DEF BeliefInv
    <2>4. QED
      BY <2>1, <2>3
  <1>2. QED
    BY <1>1, BeliefHolds, PublisherTyped, PTL DEF Spec, WritesOnlyChanges
=============================================================================
