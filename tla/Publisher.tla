------------------------------ MODULE Publisher ------------------------------
(***************************************************************************)
(* RoomPublisher (publish.py) on the main process, and the start-up        *)
(* retries of module.py (_warm_up). A refresh that has loaded rules and a  *)
(* warm-up attempt each run publish() in a task of their own; its awaits   *)
(* (reading what the room shows, sending the event) interleave. The room   *)
(* takes an event when it is persisted, which is before the sender hears   *)
(* of it, if it hears of it at all.                                        *)
(***************************************************************************)
EXTENDS Naturals

CONSTANTS
  Tasks,
  Payloads,         \* what to_payload may make of the rules and the settings
  Nothing,          \* no payload: no event, or none read yet
  WARM_UP_ATTEMPTS,
  MaxLoads,         \* bound: how often rules are loaded
  MaxFailures,      \* bound: how often sending fails
  MaxRestarts       \* bound: how often the process restarts

ASSUME PublisherAssumption ==
  /\ Nothing \notin Payloads /\ Nothing \notin Tasks
  /\ WARM_UP_ATTEMPTS \in Nat \ {0}
  /\ MaxLoads \in Nat /\ MaxFailures \in Nat /\ MaxRestarts \in Nat

VARIABLES
  shown,     \* the content of guardian.effective_rules in the room
  current,   \* what the rules in force here would be published as
  last,      \* _last: what this process believes the room shows
  primed,    \* _primed
  pc,        \* [Tasks -> the await the task is in]
  payload,   \* [Tasks -> what it publishes]
  found,     \* [Tasks -> what it read from the room]
  warming,   \* the tasks that publish for _warm_up
  attempt,   \* the number of the next, or running, start-up attempt
  armed,     \* whether a start-up attempt is scheduled
  doubt,     \* ghost: tasks whose call overlapped another or raised too late;
             \* Nothing stands for earlier ones; {} once a call got through alone
  loads, failures, restarts  \* counted for their bounds

process == <<current, last, primed, warming, attempt, armed>>
work == <<pc, payload, found>>
counted == <<loads, failures, restarts>>
vars == <<shown, process, work, doubt, counted>>

Init ==
  /\ shown \in Payloads \cup {Nothing}
  /\ current = Nothing /\ last = Nothing /\ primed = FALSE
  /\ pc = [t \in Tasks |-> "idle"]
  /\ payload = [t \in Tasks |-> Nothing]
  /\ found = [t \in Tasks |-> Nothing]
  /\ warming = {} /\ attempt = 1 /\ armed = TRUE
  /\ doubt = {}
  /\ loads = 0 /\ failures = 0 /\ restarts = 0
-----------------------------------------------------------------------------
Begin(t, p) ==
  /\ pc[t] = "idle"
  /\ payload' = [payload EXCEPT ![t] = p]
  /\ pc' = [pc EXCEPT ![t] = "begun"]
  /\ UNCHANGED found

\* A refresh puts rules in force; its hook will publish them once it is through
\* with the admin look-ups.
Load(t, p) ==
  /\ loads < MaxLoads /\ loads' = loads + 1
  /\ current' = p
  /\ Begin(t, p)
  /\ UNCHANGED <<shown, last, primed, warming, attempt, armed, doubt, failures, restarts>>

\* The delayed call fires; get_rules answers with the rules in force.
WarmUp(t) ==
  /\ armed /\ current # Nothing
  /\ Begin(t, current)
  /\ armed' = FALSE /\ warming' = warming \cup {t}
  /\ UNCHANGED <<shown, current, last, primed, attempt, doubt, counted>>

\* publish() returned: an attempt at start-up that failed schedules the next one.
StopEarly(t, published) ==
  /\ warming' = warming \ {t}
  /\ armed' = (armed \/ (t \in warming /\ ~published /\ attempt < WARM_UP_ATTEMPTS - 1))
  /\ attempt' = IF armed' # armed THEN attempt + 1 ELSE attempt
Done(t, published) ==
  /\ warming' = warming \ {t}
  /\ armed' = (armed \/ (t \in warming /\ ~published /\ attempt < WARM_UP_ATTEMPTS))
  /\ attempt' = IF armed' # armed THEN attempt + 1 ELSE attempt

ForgetfulCompare(t, known) ==
  /\ pc' = [pc EXCEPT ![t] = "sending"]
  /\ UNCHANGED <<warming, armed, attempt>>
\* The comparison that keeps the room quiet, and the call that sends the event.
Compare(t, known) ==
  IF known = payload[t]
  THEN pc' = [pc EXCEPT ![t] = "idle"] /\ Done(t, TRUE)
  ELSE pc' = [pc EXCEPT ![t] = "sending"] /\ UNCHANGED <<warming, armed, attempt>>

\* Other calls that look at the room, or send, or will.
Others(t) == {u \in Tasks \ {t} : pc[u] \notin {"idle", "begun"}}
Overlap(t) == IF Others(t) # {} THEN doubt \cup Others(t) \cup {t}
              ELSE IF doubt # {} THEN {Nothing} ELSE {}

\* publish() starts: the first ones of a process read what the room shows.
UnprimedPublish(t) ==
  /\ pc[t] = "begun"
  /\ Compare(t, last)
  /\ doubt' = Overlap(t)
  /\ UNCHANGED <<shown, current, last, primed, payload, found, counted>>
Publish(t) ==
  /\ pc[t] = "begun"
  /\ IF primed THEN Compare(t, last)
     ELSE pc' = [pc EXCEPT ![t] = "priming"] /\ UNCHANGED <<warming, armed, attempt>>
  /\ doubt' = Overlap(t)
  /\ UNCHANGED <<shown, current, last, primed, payload, found, counted>>

\* _published reads the event, or finds none, or fails.
ReadShown(t) ==
  /\ pc[t] = "priming"
  /\ \/ found' = [found EXCEPT ![t] = shown]
     \/ found' = [found EXCEPT ![t] = Nothing]
  /\ pc' = [pc EXCEPT ![t] = "read"]
  /\ UNCHANGED <<shown, process, payload, doubt, counted>>

Prime(t) ==
  /\ pc[t] = "read"
  /\ last' = found[t] /\ primed' = TRUE
  /\ Compare(t, found[t])
  /\ UNCHANGED <<shown, current, payload, found, doubt, counted>>

\* The event is persisted; the sender does not know yet.
Persist(t) ==
  /\ pc[t] = "sending"
  /\ shown' = payload[t]
  /\ pc' = [pc EXCEPT ![t] = "sent"]
  /\ UNCHANGED <<process, payload, found, doubt, counted>>

LeftBehindAck(t) ==
  /\ pc[t] = "sent"
  /\ pc' = [pc EXCEPT ![t] = "idle"]
  /\ Done(t, TRUE)
  /\ UNCHANGED <<shown, current, last, primed, payload, found, doubt, counted>>
Ack(t) ==
  /\ pc[t] = "sent"
  /\ last' = payload[t]
  /\ pc' = [pc EXCEPT ![t] = "idle"]
  /\ Done(t, TRUE)
  /\ doubt' = IF t \in doubt THEN doubt ELSE {}
  /\ UNCHANGED <<shown, current, primed, payload, found, counted>>

\* The send raises, before the event is persisted or after.
SendFails(t) ==
  /\ pc[t] \in {"sending", "sent"}
  /\ failures < MaxFailures /\ failures' = failures + 1
  /\ pc' = [pc EXCEPT ![t] = "idle"]
  /\ Done(t, FALSE)
  /\ doubt' = IF pc[t] = "sent" THEN doubt \cup {t} ELSE doubt
  /\ UNCHANGED <<shown, current, last, primed, payload, found, loads, restarts>>

Restart ==
  /\ restarts < MaxRestarts /\ restarts' = restarts + 1
  /\ current' = Nothing /\ last' = Nothing /\ primed' = FALSE
  /\ pc' = [t \in Tasks |-> "idle"]
  /\ payload' = [t \in Tasks |-> Nothing]
  /\ found' = [t \in Tasks |-> Nothing]
  /\ warming' = {} /\ attempt' = 1 /\ armed' = TRUE
  /\ doubt' = {}
  /\ UNCHANGED <<shown, loads, failures>>

TaskStep(t) ==
  Publish(t) \/ ReadShown(t) \/ Prime(t) \/ Persist(t) \/ Ack(t) \/ SendFails(t)

Next ==
  \/ \E t \in Tasks : TaskStep(t) \/ WarmUp(t) \/ \E p \in Payloads : Load(t, p)
  \/ Restart

Spec == Init /\ [][Next]_vars

(***************************************************************************)
(* Synapse runs what was scheduled and the first call loads rules.         *)
(***************************************************************************)
Fairness ==
  /\ \A t \in Tasks : WF_vars(TaskStep(t)) /\ WF_vars(WarmUp(t))
  /\ WF_vars(current = Nothing /\ \E t \in Tasks, p \in Payloads : Load(t, p))

FairSpec == Spec /\ Fairness
-----------------------------------------------------------------------------
Busy == {"begun", "priming", "read", "sending", "sent"}

\* Every variable has its type; a process that sends knows what the room showed.
TypeOK ==
  /\ shown \in Payloads \cup {Nothing}
  /\ current \in Payloads \cup {Nothing} /\ last \in Payloads \cup {Nothing}
  /\ primed \in BOOLEAN /\ armed \in BOOLEAN /\ doubt \subseteq Tasks \cup {Nothing}
  /\ pc \in [Tasks -> Busy \cup {"idle"}]
  /\ payload \in [Tasks -> Payloads \cup {Nothing}]
  /\ found \in [Tasks -> Payloads \cup {Nothing}]
  /\ warming \subseteq Tasks
  /\ attempt \in 1..WARM_UP_ATTEMPTS
  /\ loads \in 0..MaxLoads /\ failures \in 0..MaxFailures /\ restarts \in 0..MaxRestarts
  /\ \A t \in Tasks : pc[t] # "idle" => payload[t] \in Payloads
  /\ \A t \in warming : pc[t] # "idle" /\ ~armed
  /\ \A t \in Tasks : pc[t] \in {"sending", "sent"} => primed

Quiet == \A t \in Tasks : pc[t] = "idle"

(***************************************************************************)
(* When nothing is under way and the process believes that the room shows  *)
(* the rules in force, so that it will publish nothing until they change,  *)
(* the room does show them: whatever failed, was retried or restarted, as  *)
(* long as the last write was acknowledged and no other call overlapped it. *)
(***************************************************************************)
UpToDate == Quiet /\ primed /\ doubt = {} /\ last = current => shown = current

(***************************************************************************)
(* publish.py: "Written only when the content changes", and "A restart     *)
(* must not rewrite an identical event". The exceptions are a room that    *)
(* could not be read, and the doubt about an overlapping or failed write.  *)
(***************************************************************************)
WritesOnlyChanges ==
  [][\A t \in Tasks : Persist(t) => payload[t] # shown \/ last = Nothing \/ doubt # {}]_vars

(***************************************************************************)
(* A server that sees no traffic after its start, so that nothing but the  *)
(* first call loads rules, still gets them into the room as long as one of *)
(* the sends succeeds: the hook's own or one of the start-up attempts'.    *)
(***************************************************************************)
StartUpPublishes == [](loads <= 1) => <>[](current # Nothing /\ shown = current)

(***************************************************************************)
(* publish.py: "Keeps guardian.effective_rules in the control room up to   *)
(* date". What the process believes the room shows, and publishes no more, *)
(* it does show, whichever calls overlapped.  _last follows the first read *)
(* of each call and every acknowledgement, in the order these are used.    *)
(***************************************************************************)
KeptUpToDate == Quiet /\ primed /\ last = current => shown = current
=============================================================================
