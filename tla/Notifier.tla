------------------------------ MODULE Notifier ------------------------------
(***************************************************************************)
(* The dedupe and flood cap every notice passes (_ThrottledNotifier in     *)
(* notify.py). A key is a blocked action: who did what to whom. Time is    *)
(* the monotonic clock in seconds; calls happen at any of its readings.    *)
(* What is let through is handed to a transport, which may lose it.        *)
(***************************************************************************)
EXTENDS Integers, FiniteSets, Sequences

CONSTANTS
  Keys,
  DedupeS,                 \* notify_dedupe_s
  MAX_RECENT,
  MAX_NOTICES_PER_WINDOW,
  Never,                   \* no time: the key is not in _recent
  Booted,                  \* what the clock may read when the module starts
  MaxTime                  \* bound: the clock's last reading

\* GuardianConfig takes any notify_dedupe_s that is not negative; the limits are
\* fixed in notify.py, where the memory holds more than two windows let through.
ASSUME NotifierAssumption ==
  /\ DedupeS \in Nat
  /\ MAX_RECENT \in Nat /\ MAX_NOTICES_PER_WINDOW \in Nat \ {0}
  /\ MAX_RECENT >= 2 * MAX_NOTICES_PER_WINDOW
  /\ Never \notin Nat
  /\ Booted \subseteq Nat /\ MaxTime \in Nat
  /\ IsFiniteSet(Keys)

VARIABLES
  now,
  recent,            \* _recent: [Keys -> when it was last let through, or Never]
  window_started, sent_in_window,
  log                \* ghost: what was let through in the last DedupeS seconds

vars == <<now, recent, window_started, sent_in_window, log>>

Init ==
  /\ now \in Booted
  /\ recent = [k \in Keys |-> Never]
  /\ window_started = 0 /\ sent_in_window = 0
  /\ log = <<>>
-----------------------------------------------------------------------------
\* _recent without the entries that have expired.
Pruned ==
  [k \in Keys |-> IF recent[k] # Never /\ now - recent[k] < DedupeS THEN recent[k] ELSE Never]

Held(r) == {k \in Keys : r[k] # Never}

\* _recent with k added, its oldest entry evicted if it is full.
Added(r, k) ==
  {[s EXCEPT ![k] = now] : s \in
     IF Cardinality(Held(r)) < MAX_RECENT THEN {r}
     ELSE {[r EXCEPT ![o] = Never] : o \in {h \in Held(r) : \A g \in Held(r) : r[h] <= r[g]}}}

NewWindow == now - window_started >= DedupeS

\* A key let through not long ago is dropped; so is a notice beyond the cap.
RefreshingRepeated(k) ==
  /\ Pruned[k] # Never
  /\ recent' = [Pruned EXCEPT ![k] = now]
  /\ UNCHANGED <<window_started, sent_in_window, log>>
Repeated(k) ==
  /\ Pruned[k] # Never
  /\ recent' = Pruned
  /\ UNCHANGED <<window_started, sent_in_window, log>>

\* _sent_in_window as a new window, if one begins, leaves it.
UncountedSent == 0
Sent == IF NewWindow THEN 0 ELSE sent_in_window

LateAtCap == Sent > MAX_NOTICES_PER_WINDOW
AtCap == Sent >= MAX_NOTICES_PER_WINDOW

WindowStart == IF NewWindow THEN now ELSE window_started

Suppress(k) ==
  /\ Pruned[k] = Never
  /\ AtCap
  /\ recent' = Pruned
  /\ window_started' = WindowStart /\ sent_in_window' = Sent
  /\ UNCHANGED log

ForgettingLetThrough(k) ==
  /\ Pruned[k] = Never
  /\ ~AtCap
  /\ recent' = [j \in Keys |-> IF j = k THEN now ELSE Never]
  /\ window_started' = WindowStart /\ sent_in_window' = Sent + 1
  /\ log' = Append(log, [key |-> k, at |-> now])
LetThrough(k) ==
  /\ Pruned[k] = Never
  /\ ~AtCap
  /\ recent' \in Added(Pruned, k)
  /\ window_started' = WindowStart /\ sent_in_window' = Sent + 1
  /\ log' = Append(log, [key |-> k, at |-> now])

\* notify() is called for a blocked action.
Notify(k) == (Repeated(k) \/ Suppress(k) \/ LetThrough(k)) /\ UNCHANGED now

\* A log reaches back for a number of seconds, and to this very moment at least:
\* entries that are older are taken off its front.
Recently(at, time, reach) == time = at \/ time - at < reach
Since(entries, time, reach) ==
  {SubSeq(entries, n + 1, Len(entries)) : n \in {m \in 0..Len(entries) :
     /\ \A i \in 1..m : ~Recently(entries[i].at, time, reach)
     /\ m < Len(entries) => Recently(entries[m + 1].at, time, reach)}}

Tick ==
  /\ now < MaxTime
  /\ now' = now + 1
  /\ log' \in Since(log, now', DedupeS)
  /\ UNCHANGED <<recent, window_started, sent_in_window>>

Next == Tick \/ \E k \in Keys : Notify(k)

Spec == Init /\ [][Next]_vars
-----------------------------------------------------------------------------
\* Every variable has its type and what was let through in this window is
\* within the cap.
TypeOK ==
  /\ now \in Nat
  /\ recent \in [Keys -> Nat \cup {Never}]
  /\ window_started \in Nat /\ window_started <= now
  /\ sent_in_window \in 0..MAX_NOTICES_PER_WINDOW
  /\ log \in Seq([key : Keys, at : Nat])

(***************************************************************************)
(* The same blocked action is reported once in any notify_dedupe_s: the    *)
(* cap on the memory never makes the notifier forget one that matters.     *)
(***************************************************************************)
NoRepeat ==
  DedupeS > 0 => \A i, j \in 1..Len(log) : i # j => log[i].key # log[j].key

(***************************************************************************)
(* However the calls fall, a flood gets at most two windows' worth of      *)
(* notices through in any notify_dedupe_s, and fills no more memory; but   *)
(* with a window of no length every notice starts a window of its own.     *)
(***************************************************************************)
FloodBounded ==
  DedupeS > 0 =>
    /\ Len(log) <= 2 * MAX_NOTICES_PER_WINDOW
    /\ Cardinality(Held(Pruned)) <= 2 * MAX_NOTICES_PER_WINDOW

\* Both of what _ThrottledNotifier promises of the notices it lets through.
Throttled == NoRepeat /\ FloodBounded

(***************************************************************************)
(* Nothing is kept back without cause: whenever notify() would drop a      *)
(* notice as a repeat the same one went through in the last                *)
(* notify_dedupe_s, and whenever it would drop one for the cap a whole     *)
(* window's worth did. The memory and the count never say so by mistake.   *)
(***************************************************************************)
DroppedForCause ==
  \A k \in Keys :
    /\ Pruned[k] # Never => \E i \in 1..Len(log) : log[i].key = k
    /\ Pruned[k] = Never /\ AtCap => Len(log) >= MAX_NOTICES_PER_WINDOW
=============================================================================
