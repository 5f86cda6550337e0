----------------------------- MODULE PolicyStore -----------------------------
(***************************************************************************)
(* store.py: the cache of the rules in force.  One Synapse process runs    *)
(* many callbacks at once as asyncio tasks; each calls get_rules(), and a  *)
(* call that finds the cache missing, stale or expired re-reads the        *)
(* control room.  Nothing serialises two refreshes: every await below is   *)
(* a point where another task, an edit of the room, an invalidation or the *)
(* clock may come in between, so a task is a small program counter.        *)
(*                                                                         *)
(* The room is a history of versions, so that what a refresh read can be   *)
(* compared with what the room held then and holds now.                    *)
(***************************************************************************)
EXTENDS Policy, Naturals, Sequences, FiniteSets

CONSTANTS
  Tasks,            \* callbacks that may be inside get_rules() at once
  Static,           \* config.static_rules
  HasRoom,          \* config.control_room is set
  Watch,            \* config.watch_control_room: on_new_event is registered
  RefreshInterval,  \* config.refresh_interval_s, in ticks
  Latency,          \* ticks the awaits of one get_rules() call take at most
  Mine,             \* users for which api.is_mine holds
  Senders,          \* users who may send state into the control room
  Operators,        \* users who may be made server admins
  Slots,            \* <<kind, state key>> pairs the room may use
  Entities,         \* values of content["entity"]
  LevelChoices,     \* power levels the room may have
  StartRoom,        \* the room when the process first runs
  MaxVersions,      \* bound: versions of the room
  NoRules,          \* the cache before the first load
  Removed,          \* an event whose content is empty
  NoEntity,         \* content without the key "entity"
  NotAString        \* an entity that is not a string

Contents == [entity : Entities \cup {NoEntity, NotAString}, sender : Senders]
ContentsOf(s) == {c \in Contents : c.sender = s} \cup {Removed}
\* readable: there is a power levels event whose content is a mapping;
\* may: who has the power to send which kind of rule.
Levels == [readable : BOOLEAN, may : SUBSET (Senders \X Kinds)]
\* present: this server is in the room, else get_room_state answers {}.
Rooms == [entry : [Slots -> Contents \cup {Removed}], levels : Levels, present : BOOLEAN]
Unreadable == [readable |-> FALSE, may |-> {}]

ASSUME StoreAssumption ==
  /\ IsFiniteSet(Tasks)
  /\ Static \in RuleSet
  /\ HasRoom \in BOOLEAN /\ Watch \in BOOLEAN
  /\ RefreshInterval \in Nat /\ Latency \in Nat /\ MaxVersions \in Nat
  /\ Senders \subseteq Names /\ Operators \subseteq Names
  /\ Slots \subseteq Kinds \X Names
  /\ Entities \subseteq Names
  /\ LevelChoices \subseteq Levels
  /\ StartRoom \in Rooms
  /\ NoRules \notin RuleSet
  /\ Removed \notin Contents /\ NotAString \notin Names /\ NoEntity \notin Names

VARIABLES
  hist,      \* the versions of the control room, the last one current
  admins,    \* server admins now
  everAdmin, \* everyone who has been a server admin
  news,      \* versions whose on_new_event is still to be dispatched here
  rules,     \* _rules
  age,       \* clock() - _loaded_at, counted up to Horizon
  stale,     \* _stale
  warned,    \* _warned_admins
  announced, \* the rules last handed to on_rules_loaded
  pc,        \* where each task is
  snap,      \* the version of the room its refresh read
  ask,       \* senders whose admin status it has still to look up
  known,     \* senders it found to be server admins
  held,      \* refresh()'s own `rules`
  todo,      \* protected users _check_admins has still to look up
  yes,       \* the user is_user_admin said is an admin, until the answer is used
  no,        \* the user it said is none, until the answer is used
  view,      \* what get_rules() returned to it
  life,      \* ticks since it called get_rules()
  ver,       \* version the cached rules were read from (0: none was)
  fromRead,  \* the last refresh to end its read did so without an error
  dataAge,   \* ticks since the call that read them began
  heard,     \* latest version it was told of while no read in flight could overwrite it
  reports,   \* calls of on_admin_protected for an admin since they became one
  late       \* answers "none" that were on their way when they became one

room == <<hist, admins, everAdmin>>
cache == <<rules, age, stale>>
check == <<todo, yes, no>>
task == <<pc, snap, ask, known, held, check, view, life>>
alerts == <<reports, late>>
origin == <<ver, fromRead, dataAge>>
vars == <<room, news, cache, warned, announced, task, origin, heard, alerts>>

InFlight == {"reading", "trusting", "checking"}
Current == hist[Len(hist)]
Larger(a, b) == IF a < b THEN b ELSE a
Smaller(a, b) == IF a < b THEN a ELSE b
Horizon == RefreshInterval + 2 * Latency + 1   \* bound: ages are counted up to it
-----------------------------------------------------------------------------
(***************************************************************************)
(* What a refresh makes of a version of the room: the entries of local     *)
(* senders who are server admins or whom the room's levels let send them.  *)
(***************************************************************************)
Active(r) == {s \in Slots : r.entry[s] # Removed}
Empowered(r, sender, kind) == r.levels.readable /\ <<sender, kind>> \in r.levels.may

RemoteToo(r, sender, kind, A) == ~(sender \in A \/ Empowered(r, sender, kind))
AdminsOnly(r, sender, kind, A) == sender \notin Mine \/ sender \notin A
Refuses(r, sender, kind, A) ==
  \/ sender \notin Mine
  \/ sender \notin A /\ ~Empowered(r, sender, kind)

EntityOf(r, s) == IF r.entry[s].entity = NoEntity THEN s[2] ELSE r.entry[s].entity

Accepted(r, A) ==
  {<<s[1], EntityOf(r, s)>> : s \in {x \in Active(r) :
     ~Refuses(r, r.entry[x].sender, x[1], A) /\ EntityOf(r, x) \in Names}}

Unmerged(r, A) == Build(Accepted(r, A))
Loaded(r, A) == Merge(Static, Build(Accepted(r, A)))

\* _sender_power is asked once per sender, and only a local one needs an answer.
SendersToAsk(r) == {r.entry[s].sender : s \in Active(r)} \cap Mine
-----------------------------------------------------------------------------
Init ==
  /\ hist = <<StartRoom>>
  /\ admins = {} /\ everAdmin = {}
  /\ news = {}
  /\ rules = NoRules /\ age = 0 /\ stale = TRUE
  /\ warned = {} /\ announced = NoRules
  /\ pc = [t \in Tasks |-> "idle"]
  /\ snap = [t \in Tasks |-> 0]
  /\ ask = [t \in Tasks |-> {}]
  /\ known = [t \in Tasks |-> {}]
  /\ held = [t \in Tasks |-> NoRules]
  /\ todo = [t \in Tasks |-> {}] /\ yes = [t \in Tasks |-> {}] /\ no = [t \in Tasks |-> {}]
  /\ view = [t \in Tasks |-> NoRules]
  /\ life = [t \in Tasks |-> 0]
  /\ ver = 0 /\ fromRead = FALSE /\ dataAge = 0
  /\ heard = 0
  /\ reports = [u \in Operators |-> 0] /\ late = [u \in Operators |-> 0]
-----------------------------------------------------------------------------
(***************************************************************************)
(* The control room, as Synapse keeps it.  A member may send a rule event  *)
(* if the levels give them the power; a homeserver elsewhere decides that  *)
(* by the same levels, so senders need not be local.                       *)
(***************************************************************************)
MaySend(s, kind) ==
  Current.present /\ (~Current.levels.readable \/ Empowered(Current, s, kind))

NewVersion(r) ==
  /\ Len(hist) < MaxVersions
  /\ r # Current
  /\ hist' = Append(hist, r)

SendRule(s, slot, c) ==
  /\ MaySend(s, slot[1])
  /\ NewVersion([Current EXCEPT !.entry[slot] = c])
  /\ news' = IF Watch /\ HasRoom THEN news \cup {Len(hist) + 1} ELSE news
  /\ UNCHANGED <<admins, everAdmin, cache, warned, announced, task, origin, heard, alerts>>

\* Not one of our event types: on_new_event ignores it.
SetLevels(l) ==
  /\ Current.present
  /\ NewVersion([Current EXCEPT !.levels = l])
  /\ UNCHANGED <<admins, everAdmin, news, cache, warned, announced, task, origin, heard, alerts>>

LoseRoom ==
  /\ NewVersion([entry |-> [s \in Slots |-> Removed], levels |-> Unreadable,
                 present |-> FALSE])
  /\ UNCHANGED <<admins, everAdmin, news, cache, warned, announced, task, origin, heard, alerts>>

\* How many look-ups have found u to be none and wait to be used.
OnTheirWay(u) == Cardinality({t \in Tasks : u \in no[t]})

SetAdmin(u, A) ==
  /\ A \in {admins \cup {u}, admins \ {u}} \ {admins}
  /\ admins' = A
  /\ everAdmin' = everAdmin \cup A
  /\ reports' = [reports EXCEPT ![u] = 0]
  /\ late' = [late EXCEPT ![u] = IF u \in A THEN OnTheirWay(u) ELSE 0]
  /\ UNCHANGED <<hist, news, cache, warned, announced, task, origin, heard>>
-----------------------------------------------------------------------------
(***************************************************************************)
(* Synapse dispatches on_new_event: invalidate().                          *)
(***************************************************************************)
DeafDeliver(v) ==
  /\ v \in news
  /\ news' = news \ {v}
  /\ stale' = (stale \/ age >= RefreshInterval)
  /\ heard' = IF \E t \in Tasks : pc[t] = "trusting" THEN heard ELSE Larger(heard, v)
  /\ UNCHANGED <<room, rules, age, warned, announced, task, origin, alerts>>
Deliver(v) ==
  /\ v \in news
  /\ news' = news \ {v}
  /\ stale' = TRUE
  /\ heard' = IF \E t \in Tasks : pc[t] = "trusting" THEN heard ELSE Larger(heard, v)
  /\ UNCHANGED <<room, rules, age, warned, announced, task, origin, alerts>>

(***************************************************************************)
(* get_rules(): answer from the cache, or refresh() first.                 *)
(***************************************************************************)
NeverExpired == FALSE
Expired == age >= RefreshInterval

NeedsRefresh == rules = NoRules \/ stale \/ Expired

ServeCached(t) ==
  /\ pc[t] = "idle"
  /\ ~NeedsRefresh
  /\ pc' = [pc EXCEPT ![t] = "got"]
  /\ view' = [view EXCEPT ![t] = rules]
  /\ UNCHANGED <<room, news, cache, warned, announced, snap, ask, known, held, check, life,
                 origin, heard, alerts>>

StartRead(t) ==
  /\ pc[t] = "idle"
  /\ NeedsRefresh /\ HasRoom
  /\ pc' = [pc EXCEPT ![t] = "reading"]
  /\ life' = [life EXCEPT ![t] = 0]
  /\ UNCHANGED <<room, news, cache, warned, announced, snap, ask, known, held, check, view,
                 origin, heard, alerts>>

(***************************************************************************)
(* The assignments after the read, up to _check_admins: one step, there is *)
(* no await among them.  _stale is cleared whatever happened meanwhile.    *)
(***************************************************************************)
Adopt(t, rs) ==
  /\ rules' = rs
  /\ age' = 0
  /\ stale' = FALSE
  /\ held' = [held EXCEPT ![t] = rs]
  /\ todo' = [todo EXCEPT ![t] = rs["protected_user"]]
  /\ UNCHANGED <<yes, no>>
  /\ pc' = [pc EXCEPT ![t] = "checking"]

UncheckedLoadStatic(t) ==
  /\ pc[t] = "idle"
  /\ NeedsRefresh /\ ~HasRoom
  /\ rules' = Static /\ age' = 0 /\ stale' = FALSE
  /\ pc' = [pc EXCEPT ![t] = "got"]
  /\ view' = [view EXCEPT ![t] = Static]
  /\ UNCHANGED <<room, news, warned, announced, snap, ask, known, held, check, life, origin,
                 heard, alerts>>
LoadStatic(t) ==
  /\ pc[t] = "idle"
  /\ NeedsRefresh /\ ~HasRoom
  /\ life' = [life EXCEPT ![t] = 0]
  /\ Adopt(t, Static)
  /\ UNCHANGED <<room, news, warned, announced, snap, ask, known, view, origin, heard, alerts>>

\* get_room_state answers with the state the room has at this moment.
ReadRoom(t) ==
  /\ pc[t] = "reading"
  /\ pc' = [pc EXCEPT ![t] = "trusting"]
  /\ snap' = [snap EXCEPT ![t] = Len(hist)]
  /\ ask' = [ask EXCEPT ![t] = SendersToAsk(Current)]
  /\ known' = [known EXCEPT ![t] = {}]
  /\ UNCHANGED <<room, news, cache, warned, announced, held, check, view, life, origin, heard,
                 alerts>>

ForgetfulFallback == Static
Fallback == IF rules = NoRules THEN Static ELSE rules

\* get_room_state raises: keep the previous rules, or run with the static ones.
ReadFails(t) ==
  /\ pc[t] = "reading"
  /\ Adopt(t, Fallback)
  /\ fromRead' = FALSE
  /\ UNCHANGED <<room, news, warned, announced, snap, ask, known, view, life, ver, dataAge,
                 heard, alerts>>

\* is_user_admin answers, or raises and leaves the sender to the room's levels.
AskSender(t, s, answered) ==
  /\ pc[t] = "trusting"
  /\ s \in ask[t]
  /\ ask' = [ask EXCEPT ![t] = @ \ {s}]
  /\ known' = [known EXCEPT ![t] = IF answered /\ s \in admins THEN @ \cup {s} ELSE @]
  /\ UNCHANGED <<room, news, cache, warned, announced, pc, snap, held, check, view, life,
                 origin, heard, alerts>>

AdoptRead(t) ==
  /\ pc[t] = "trusting"
  /\ ask[t] = {}
  /\ Adopt(t, Loaded(hist[snap[t]], known[t]))
  /\ ver' = snap[t]
  /\ fromRead' = TRUE
  /\ dataAge' = life[t]
  /\ UNCHANGED <<room, news, warned, announced, snap, ask, known, view, life, heard, alerts>>

(***************************************************************************)
(* _check_admins, one protected user after another.  is_user_admin is an   *)
(* await: its answer is of one moment, its use of a later one.  An admin   *)
(* is reported unless warned of already, until an answer says they are     *)
(* none.                                                                   *)
(***************************************************************************)
Asking(t) == pc[t] = "checking" /\ yes[t] = {} /\ no[t] = {}

AnswerAdmin(t, u) ==
  /\ Asking(t)
  /\ u \in todo[t]
  /\ todo' = [todo EXCEPT ![t] = @ \ {u}]
  /\ yes' = [yes EXCEPT ![t] = {u} \cap admins]
  /\ no' = [no EXCEPT ![t] = {u} \ admins]
  /\ UNCHANGED <<room, news, cache, warned, announced, pc, snap, ask, known, held, view, life,
                 origin, heard, alerts>>

ForgetfulUseAnswer(t) ==
  /\ yes[t] \cup no[t] # {}
  /\ warned' = warned \ no[t]
  /\ reports' = [u \in Operators |-> reports[u] + IF u \in (yes[t] \cap admins) \ warned THEN 1 ELSE 0]
  /\ yes' = [yes EXCEPT ![t] = {}]
  /\ no' = [no EXCEPT ![t] = {}]
  /\ UNCHANGED <<room, news, cache, announced, pc, snap, ask, known, held, todo, view, life,
                 origin, heard, late>>
UseAnswer(t) ==
  /\ yes[t] \cup no[t] # {}
  /\ warned' = (warned \ no[t]) \cup yes[t]
  /\ reports' = [u \in Operators |-> reports[u] + IF u \in (yes[t] \cap admins) \ warned THEN 1 ELSE 0]
  /\ yes' = [yes EXCEPT ![t] = {}]
  /\ no' = [no EXCEPT ![t] = {}]
  /\ UNCHANGED <<room, news, cache, announced, pc, snap, ask, known, held, todo, view, life,
                 origin, heard, late>>

CheckAdminFails(t, u) ==
  /\ Asking(t)
  /\ u \in todo[t]
  /\ todo' = [todo EXCEPT ![t] = @ \ {u}]
  /\ UNCHANGED <<room, news, cache, warned, announced, pc, snap, ask, known, held, yes, no, view,
                 life, origin, heard, alerts>>

\* The hook gets refresh()'s own rules; get_rules() returns what the cache holds now.
OutdatedFinish(t) ==
  /\ Asking(t)
  /\ todo[t] = {}
  /\ announced' = held[t]
  /\ pc' = [pc EXCEPT ![t] = "got"]
  /\ view' = [view EXCEPT ![t] = announced]
  /\ UNCHANGED <<room, news, cache, warned, snap, ask, known, held, check, life, origin, heard,
                 alerts>>
HeldFinish(t) ==
  /\ Asking(t)
  /\ todo[t] = {}
  /\ announced' = held[t]
  /\ pc' = [pc EXCEPT ![t] = "got"]
  /\ view' = [view EXCEPT ![t] = held[t]]
  /\ UNCHANGED <<room, news, cache, warned, snap, ask, known, held, check, life, origin, heard,
                 alerts>>
WaitingFinish(t) ==
  /\ Asking(t)
  /\ todo[t] = {}
  /\ ~stale
  /\ announced' = held[t]
  /\ pc' = [pc EXCEPT ![t] = "got"]
  /\ view' = [view EXCEPT ![t] = rules]
  /\ UNCHANGED <<room, news, cache, warned, snap, ask, known, held, check, life, origin, heard,
                 alerts>>
FinishRefresh(t) ==
  /\ Asking(t)
  /\ todo[t] = {}
  /\ announced' = held[t]
  /\ pc' = [pc EXCEPT ![t] = "got"]
  /\ view' = [view EXCEPT ![t] = rules]
  /\ UNCHANGED <<room, news, cache, warned, snap, ask, known, held, check, life, origin, heard,
                 alerts>>

\* The callback is done with the rules it was given.
Return(t) ==
  /\ pc[t] = "got"
  /\ pc' = [pc EXCEPT ![t] = "idle"]
  /\ snap' = [snap EXCEPT ![t] = 0]
  /\ known' = [known EXCEPT ![t] = {}]
  /\ held' = [held EXCEPT ![t] = NoRules]
  /\ view' = [view EXCEPT ![t] = NoRules]
  /\ life' = [life EXCEPT ![t] = 0]
  /\ UNCHANGED <<room, news, cache, warned, announced, ask, check, origin, heard, alerts>>
-----------------------------------------------------------------------------
(***************************************************************************)
(* The clock.  Latency is a promise about Synapse: no get_rules() call     *)
(* spends more than that many ticks waiting for it.                        *)
(***************************************************************************)
Tick ==
  /\ \A t \in Tasks : pc[t] \in InFlight => life[t] < Latency
  /\ age' = Smaller(age + 1, Horizon)
  /\ dataAge' = Smaller(dataAge + 1, Horizon)
  /\ life' = [t \in Tasks |-> IF pc[t] \in InFlight THEN life[t] + 1 ELSE life[t]]
  /\ UNCHANGED <<room, news, rules, stale, warned, announced, pc, snap, ask, known, held, check,
                 view, ver, fromRead, heard, alerts>>

\* The process stops, at any await, and comes back with nothing loaded.
Restart ==
  /\ news' = {}
  /\ rules' = NoRules /\ age' = 0 /\ stale' = TRUE
  /\ warned' = {} /\ announced' = NoRules
  /\ reports' = [u \in Operators |-> 0] /\ late' = [u \in Operators |-> 0]
  /\ pc' = [t \in Tasks |-> "idle"]
  /\ snap' = [t \in Tasks |-> 0]
  /\ ask' = [t \in Tasks |-> {}]
  /\ known' = [t \in Tasks |-> {}]
  /\ held' = [t \in Tasks |-> NoRules]
  /\ todo' = [t \in Tasks |-> {}] /\ yes' = [t \in Tasks |-> {}] /\ no' = [t \in Tasks |-> {}]
  /\ view' = [t \in Tasks |-> NoRules]
  /\ life' = [t \in Tasks |-> 0]
  /\ ver' = 0 /\ fromRead' = FALSE /\ dataAge' = 0
  /\ heard' = 0
  /\ UNCHANGED room

RoomStep ==
  \/ \E s \in Senders, slot \in Slots : \E c \in ContentsOf(s) : SendRule(s, slot, c)
  \/ \E l \in LevelChoices : SetLevels(l)
  \/ LoseRoom
  \/ \E u \in Operators, A \in SUBSET Operators : SetAdmin(u, A)

\* A callback calls get_rules(); the rest follows of itself.
CallStep(t) == ServeCached(t) \/ StartRead(t) \/ LoadStatic(t)

AwaitStep(t) ==
  \/ ReadRoom(t)
  \/ ReadFails(t)
  \/ \E s \in Senders, answered \in BOOLEAN : AskSender(t, s, answered)
  \/ AdoptRead(t)
  \/ \E u \in Names : AnswerAdmin(t, u)
  \/ UseAnswer(t)
  \/ \E u \in Names : CheckAdminFails(t, u)
  \/ FinishRefresh(t)
  \/ Return(t)

TaskStep(t) == CallStep(t) \/ AwaitStep(t)

Next ==
  \/ RoomStep
  \/ \E v \in 1..MaxVersions : Deliver(v)
  \/ \E t \in Tasks : TaskStep(t)
  \/ Tick
  \/ Restart

Spec == Init /\ [][Next]_vars
-----------------------------------------------------------------------------
\* Every await ends, with an answer or an error, every callback is over some time,
\* and Synapse dispatches what it has persisted.  Nothing makes a callback come.
Fairness ==
  /\ WF_vars(Tick)
  /\ WF_vars(\E v \in 1..MaxVersions : Deliver(v))
  /\ \A t \in Tasks : WF_vars(AwaitStep(t))

FairSpec == Spec /\ Fairness
-----------------------------------------------------------------------------
RulesOrNone == RuleSet \cup {NoRules}

RoomTypeOK ==
  /\ hist \in Seq(Rooms) /\ Len(hist) \in 1..Larger(MaxVersions, 1)
  /\ admins \subseteq everAdmin /\ everAdmin \subseteq Operators
  /\ news \subseteq 1..Len(hist)

StoreTypeOK ==
  /\ rules \in RulesOrNone /\ announced \in RulesOrNone
  /\ age \in 0..Horizon /\ stale \in BOOLEAN
  /\ warned \subseteq Names

TaskTypeOK ==
  /\ pc \in [Tasks -> {"idle", "got"} \cup InFlight]
  /\ snap \in [Tasks -> 0..Len(hist)]
  /\ ask \in [Tasks -> SUBSET Senders] /\ known \in [Tasks -> SUBSET Operators]
  /\ held \in [Tasks -> RulesOrNone] /\ view \in [Tasks -> RulesOrNone]
  /\ todo \in [Tasks -> SUBSET Names]
  /\ yes \in [Tasks -> SUBSET Operators] /\ no \in [Tasks -> SUBSET Names]
  /\ life \in [Tasks -> 0..Latency]

GhostTypeOK ==
  /\ ver \in 0..Len(hist) /\ fromRead \in BOOLEAN /\ dataAge \in 0..Horizon
  /\ fromRead => HasRoom
  /\ heard \in 0..Len(hist)
  /\ reports \in [Operators -> Nat] /\ late \in [Operators -> Nat]

\* What a task may rely on at each await.
TaskStateOK ==
  \A t \in Tasks :
    /\ pc[t] \in {"reading", "trusting"} => HasRoom
    /\ pc[t] = "trusting" => snap[t] # 0
    /\ pc[t] = "checking" => rules \in RuleSet /\ held[t] \in RuleSet
    /\ yes[t] \cup no[t] # {} => pc[t] = "checking"
    /\ pc[t] = "got" => view[t] \in RuleSet

TypeOK == RoomTypeOK /\ StoreTypeOK /\ TaskTypeOK /\ GhostTypeOK /\ TaskStateOK

(***************************************************************************)
(* Whatever the room says, whoever wrote it and however a refresh ended,   *)
(* the rules a callback is given contain the static baseline: a statically *)
(* protected user is protected and a statically blocked one is refused.    *)
(***************************************************************************)
BaselineServed ==
  \A t \in Tasks : pc[t] = "got" =>
    \A u \in Names :
      /\ IsProtected(Static, u) => IsProtected(view[t], u)
      /\ u \in WellFormed /\ Hit(Static, "blocked_user", u) => ~Allowed(view[t], u)

(***************************************************************************)
(* Nobody can add to the rules but a local user whom the levels of the     *)
(* very version that was read let do so, or who has been a server admin:   *)
(* the power is judged per refresh, across a look-up for every sender.     *)
(***************************************************************************)
OnlyAuthorisedRules ==
  rules # NoRules =>
    \A k \in Kinds : \A n \in rules[k] \ Static[k] :
      /\ ver # 0
      /\ \E s \in Active(hist[ver]) :
           LET sender == hist[ver].entry[s].sender IN
           /\ s[1] = k /\ n = Stored(k, EntityOf(hist[ver], s))
           /\ sender \in Mine
           /\ \/ sender \in everAdmin
              \/ Empowered(hist[ver], sender, k)

(***************************************************************************)
(* Re-deciding what the room already allowed "could only ever reject       *)
(* someone the room had allowed" (_sender_power): no valid entry of a      *)
(* local sender the levels empower is lost, whatever the admin look-ups    *)
(* answered while the refresh was under way.                               *)
(***************************************************************************)
NothingDropped ==
  rules # NoRules /\ fromRead =>
    \A s \in Active(hist[ver]) :
      LET sender == hist[ver].entry[s].sender
          entity == EntityOf(hist[ver], s) IN
      /\ sender \in Mine
      /\ Empowered(hist[ver], sender, s[1])
      /\ entity \in Valid[s[1]]
      => Stored(s[1], entity) \in rules[s[1]]

(***************************************************************************)
(* A user loses protection in a running process only because a read of the *)
(* room succeeded and no entry of an empowered sender protects them in the *)
(* version it saw; a failed read, the clock and other tasks cannot do it.  *)
(***************************************************************************)
ProtectionLostOnlyByReading ==
  [][\A u \in Names :
       /\ rules # NoRules /\ rules' # NoRules
       /\ IsProtected(rules, u) /\ ~IsProtected(rules', u)
       => /\ fromRead'
          /\ ~IsProtected(Loaded(hist[ver'], {}), u)]_vars

(***************************************************************************)
(* Rules a callback is given were read from the room by a call that began  *)
(* less than refresh_interval_s plus one call's latency ago, or, when the  *)
(* callback waited for a refresh itself, two calls' latency (README: "max  *)
(* seconds before a rule change is picked up"), unless the last refresh    *)
(* failed.                                                                 *)
(***************************************************************************)
FreshEnough ==
  [][\A t \in Tasks :
       pc[t] # "got" /\ pc'[t] = "got" /\ fromRead =>
         dataAge < RefreshInterval + Latency \/ dataAge <= 2 * Latency]_vars

(***************************************************************************)
(* An invalidation that arrives while no read is in flight is honoured: as *)
(* long as the cache holds rules older than it, the next call re-reads.    *)
(* (One that arrives between a read and its assignments, which clear       *)
(* _stale, is lost until the interval is over.)                            *)
(***************************************************************************)
InvalidationHonoured == rules # NoRules /\ fromRead /\ ~stale => ver >= heard

(***************************************************************************)
(* A protected user who is a server admin is reported once while they stay *)
(* one, however many refreshes check them at once, and once more at most   *)
(* for each answer that was given before they became one and is used after *)
(* (_check_admins looks a user up before it tests _warned_admins).         *)
(***************************************************************************)
NoNeedlessReport == \A u \in admins : reports[u] <= 1 + late[u]

(***************************************************************************)
(* The store implements RuleCache: the room rules in force are those some  *)
(* version of the room gives, with the admins of the time; they are never  *)
(* a blend of two versions, although entries, power levels and admins are  *)
(* looked at one after the other.                                          *)
(***************************************************************************)
OfferedBy(r) == {Build(entries) : entries \in {Accepted(r, A) : A \in SUBSET everAdmin}}
Offered == UNION {OfferedBy(hist[v]) : v \in 1..Len(hist)}

Cache == INSTANCE RuleCache WITH offered <- Offered, cached <- rules, answer <- view

ImplementsRuleCache == Cache!CacheSpec

(***************************************************************************)
(* DESIGN.md: "a missing room can never unprotect".  For a room the server *)
(* is not in, get_room_state does not raise: it answers {}.                *)
(***************************************************************************)
MissingRoomNeverUnprotects ==
  [][\A u \in Names :
       /\ rules # NoRules /\ rules' # NoRules
       /\ IsProtected(rules, u) /\ ~IsProtected(rules', u)
       => hist[ver'].present]_vars
-----------------------------------------------------------------------------
\* Every call ends, although calls interleave at every await; a restart ends it too.
CallsReturn == \A t \in Tasks : (pc[t] \in InFlight) ~> (pc[t] \notin InFlight)

(***************************************************************************)
(* Once the process stays up and the room stays readable, what callbacks   *)
(* are given is in the end always what the room says, whatever overlapping *)
(* refreshes and lost invalidations did on the way.                        *)
(***************************************************************************)
Calm == <>[][~Restart /\ \A t \in Tasks : ~ReadFails(t)]_vars

EditsEnforced ==
  Calm => <>[][\A t \in Tasks :
                 pc[t] # "got" /\ pc'[t] = "got" => view'[t] = Loaded(Current, {})]_vars

(***************************************************************************)
(* A statically protected user who is a server admin for good is one of    *)
(* those warned of in the end, for good, if the process stays up, look-ups *)
(* stop failing and callbacks keep coming.  _warned_admins has them only   *)
(* from a report on: a restart, or a look-up that finds them to be no      *)
(* admin, takes them out, so that no report from before either will do.    *)
(***************************************************************************)
LookUpsAnswered == <>[][~Restart /\ \A t \in Tasks, u \in Names : ~CheckAdminFails(t, u)]_vars
CallbacksCome == []<><<\E t \in Tasks : CallStep(t)>>_vars

AdminReported ==
  LookUpsAnswered /\ CallbacksCome =>
    \A u \in Static["protected_user"] : <>[](u \in admins) => <>[](u \in warned)
=============================================================================
