---------------------------- MODULE NoticeProofs ----------------------------
(***************************************************************************)
(* Notifier, Config and NoticePath, for any windows and caps, any blocked  *)
(* actions, any configurations and any times at which calls, requests and  *)
(* restarts come.                                                          *)
(***************************************************************************)
EXTENDS NoticePath, FiniteSetTheorems, TLAPS

-----------------------------------------------------------------------------
(***************************************************************************)
(* Both throttles are windows over a log of what they let through: s is    *)
(* the log, the window began at start and has counted sent.                *)
(***************************************************************************)
Logs == Seq([at : Nat])

\* A log is in order and reaches back no further than it has to.
InOrder(s, time, reach) ==
  /\ \A i \in 1..Len(s) : s[i].at \in Nat /\ s[i].at <= time /\ Recently(s[i].at, time, reach)
  /\ \A i, j \in 1..Len(s) : i <= j => s[i].at <= s[j].at

(***************************************************************************)
(* Its front, no longer than the cap, is older than the window; the rest   *)
(* was counted in the window, and is all that was as long as the window    *)
(* lasts.                                                                  *)
(***************************************************************************)
Windowed(s, start, sent, time, reach, cap) ==
  \E p \in 0..Len(s) :
    /\ p <= cap /\ Len(s) - p <= sent
    /\ \A i \in 1..p : s[i].at <= start
    /\ \A i \in p + 1 .. Len(s) : start <= s[i].at
    /\ time - start < reach => Len(s) - p = sent

\* An entry is recent if an earlier one is.
LEMMA LaterIsRecent ==
  ASSUME NEW at \in Nat, NEW after \in Nat, NEW time \in Nat, NEW later \in Nat,
         NEW reach \in Nat, at <= after, after <= time, time <= later, later - at < reach
  PROVE  after <= later /\ Recently(after, later, reach)
  BY DEF Recently

\* The first n entries of s were taken off it, as too old.
LeftAfter(n, s, left, later, reach) ==
  /\ Len(left) = Len(s) - n
  /\ \A i \in 1..Len(left) : left[i] = s[n + i]
  /\ n > 0 => s[n].at \in Nat /\ later - s[n].at >= reach

\* What is left when time has passed: a suffix, the first entry of which is recent.
LEMMA SinceIsSuffix ==
  ASSUME NEW S, NEW s \in Seq(S), NEW time \in Nat, NEW later \in Nat, time <= later,
         NEW reach \in Nat \ {0}, InOrder(s, time, reach),
         NEW left \in Since(s, later, reach)
  PROVE  /\ left \in Seq(S) /\ InOrder(left, later, reach)
         /\ \E n \in 0..Len(s) : LeftAfter(n, s, left, later, reach)
  <1>1. PICK n \in 0..Len(s) :
          /\ \A i \in 1..n : ~Recently(s[i].at, later, reach)
          /\ n < Len(s) => Recently(s[n + 1].at, later, reach)
          /\ left = SubSeq(s, n + 1, Len(s))
    BY DEF Since
  <1>2. /\ left \in Seq(S) /\ Len(left) = Len(s) - n
        /\ \A i \in 1..Len(left) : left[i] = s[n + i]
    BY <1>1
  <1>3. n > 0 => s[n].at \in Nat /\ later - s[n].at >= reach
    BY <1>1 DEF InOrder, Recently
  <1>4. ASSUME NEW i \in 1..Len(left)
        PROVE  left[i].at \in Nat /\ left[i].at <= later /\ Recently(left[i].at, later, reach)
    <2>1. /\ n + 1 \in 1..Len(s) /\ n + i \in 1..Len(s) /\ n + 1 <= n + i /\ n < Len(s)
          /\ left[i] = s[n + i]
      BY <1>2
    <2>2. /\ s[n + 1].at \in Nat /\ s[n + i].at \in Nat
          /\ s[n + 1].at <= time /\ s[n + i].at <= time
          /\ s[n + 1].at <= s[n + i].at
      BY <2>1 DEF InOrder
    <2>6. Recently(s[n + 1].at, later, reach)
      BY <1>1, <2>1
    <2>7. s[n + 1].at <= later
      BY <2>2
    <2>3. later - s[n + 1].at < reach
      BY <2>2, <2>6, <2>7 DEF Recently
    <2>4. s[n + i].at <= later /\ Recently(s[n + i].at, later, reach)
      BY <2>2, <2>3, LaterIsRecent
    <2>5. QED
      BY <2>1, <2>2, <2>4, Zenon
  <1>5. ASSUME NEW i \in 1..Len(left), NEW j \in 1..Len(left), i <= j
        PROVE  left[i].at <= left[j].at
    <2>1. /\ n + i \in 1..Len(s) /\ n + j \in 1..Len(s) /\ n + i <= n + j
          /\ left[i] = s[n + i] /\ left[j] = s[n + j]
      BY <1>2, <1>5
    <2>2. QED
      BY <2>1 DEF InOrder
  <1>6. QED
    BY <1>2, <1>3, <1>4, <1>5 DEF InOrder, LeftAfter

\* Time passes, and the window goes on over what is left.
LEMMA WindowAges ==
  ASSUME NEW S, NEW s \in Seq(S), NEW time \in Nat, NEW later \in Nat, time <= later,
         NEW reach \in Nat \ {0}, InOrder(s, time, reach),
         NEW left \in Since(s, later, reach),
         NEW start \in Nat, NEW sent \in Nat, NEW cap \in Nat,
         Windowed(s, start, sent, time, reach, cap)
  PROVE  /\ left \in Seq(S) /\ InOrder(left, later, reach)
         /\ Windowed(left, start, sent, later, reach, cap)
  <1>1. PICK n \in 0..Len(s) :
          /\ left \in Seq(S) /\ Len(left) = Len(s) - n
          /\ \A i \in 1..Len(left) : left[i] = s[n + i]
          /\ n > 0 => s[n].at \in Nat /\ later - s[n].at >= reach
          /\ InOrder(left, later, reach)
    <2>1. /\ left \in Seq(S) /\ InOrder(left, later, reach)
          /\ \E n \in 0..Len(s) : LeftAfter(n, s, left, later, reach)
      BY SinceIsSuffix
    <2>2. QED
      BY <2>1 DEF LeftAfter
  <1>2. PICK p \in 0..Len(s) :
          /\ p <= cap /\ Len(s) - p <= sent
          /\ \A i \in 1..p : s[i].at <= start
          /\ \A i \in p + 1 .. Len(s) : start <= s[i].at
          /\ time - start < reach => Len(s) - p = sent
    BY DEF Windowed
  <1>3. CASE n <= p
    <2>1. p - n \in 0..Len(left) /\ p - n <= cap /\ Len(left) - (p - n) = Len(s) - p
      <3>1. Len(s) \in Nat /\ Len(left) = Len(s) - n /\ p <= cap
        BY <1>1, <1>2
      <3>2. QED
        BY <1>3, <3>1
    <2>2. ASSUME NEW i \in 1..p - n
          PROVE  left[i].at <= start
      <3>1. i \in 1..Len(left) /\ n + i \in 1..p
        BY <1>1, <1>3
      <3>2. QED
        BY <1>1, <1>2, <3>1
    <2>3. ASSUME NEW i \in p - n + 1 .. Len(left)
          PROVE  start <= left[i].at
      <3>1. i \in 1..Len(left) /\ n + i \in p + 1 .. Len(s)
        BY <1>1, <1>3
      <3>2. QED
        BY <1>1, <1>2, <3>1
    <2>4. later - start < reach => Len(left) - (p - n) = sent
      BY <1>2, <2>1
    <2>5. QED
      BY <1>1, <1>2, <2>1, <2>2, <2>3, <2>4 DEF Windowed
  <1>4. CASE n > p
    <2>1. ASSUME NEW i \in 1..Len(left)
          PROVE  start <= left[i].at
      <3>1. n + i \in p + 1 .. Len(s)
        BY <1>1, <1>4
      <3>2. QED
        BY <1>1, <1>2, <3>1
    <2>2. start <= s[n].at
      BY <1>2, <1>4
    <2>3. ~(later - start < reach)
      BY <1>1, <1>4, <2>2
    <2>4. Len(left) <= sent /\ 0 \in 0..Len(left)
      BY <1>1, <1>2, <1>4
    <2>5. QED
      BY <1>1, <2>1, <2>3, <2>4 DEF Windowed
  <1>5. QED
    BY <1>3, <1>4

\* A window that is over leaves nothing older than itself, so that its log fits the next.
LEMMA WindowRenewed ==
  ASSUME NEW S, NEW s \in Seq(S), NEW time \in Nat, NEW reach \in Nat \ {0},
         NEW start \in Nat, NEW sent \in Nat, NEW cap \in Nat, sent <= cap,
         InOrder(s, time, reach), Windowed(s, start, sent, time, reach, cap),
         time - start >= reach
  PROVE  Windowed(s, time, 0, time, reach, cap)
  <1>1. PICK p \in 0..Len(s) :
          /\ Len(s) - p <= sent
          /\ \A i \in 1..p : s[i].at <= start
    BY DEF Windowed
  <1>2. p = 0
    <2>1. SUFFICES ASSUME p # 0 PROVE FALSE
      OBVIOUS
    <2>2. 1 \in 1..p /\ 1 \in 1..Len(s)
      BY <1>1, <2>1
    <2>3. s[1].at \in Nat /\ s[1].at <= start /\ Recently(s[1].at, time, reach)
      BY <1>1, <2>2 DEF InOrder
    <2>4. QED
      BY <2>3 DEF Recently
  <1>3. Len(s) \in Nat /\ Len(s) <= cap
    BY <1>1, <1>2
  <1>4. \A i \in 1..Len(s) : s[i].at <= time
    BY DEF InOrder
  <1>5. \A i \in Len(s) + 1 .. Len(s) : time <= s[i].at
    BY <1>3
  <1>6. QED
    BY <1>3, <1>4, <1>5 DEF Windowed

\* What is let through while the window lasts is logged and counted.
LEMMA WindowCounts ==
  ASSUME NEW S, NEW s \in Seq(S), NEW e \in S, NEW time \in Nat, e.at = time,
         NEW reach \in Nat \ {0},
         NEW start \in Nat, NEW sent \in Nat, NEW cap \in Nat, start <= time,
         InOrder(s, time, reach), Windowed(s, start, sent, time, reach, cap)
  PROVE  /\ InOrder(Append(s, e), time, reach)
         /\ Windowed(Append(s, e), start, sent + 1, time, reach, cap)
  <1> DEFINE t == Append(s, e)
  <1>1. /\ Len(t) = Len(s) + 1 /\ Len(s) \in Nat
        /\ \A i \in 1..Len(s) : t[i] = s[i]
        /\ t[Len(s) + 1] = e
    OBVIOUS
  <1> HIDE DEF t
  <1>2. \A i \in 1..Len(s) : t[i].at = s[i].at
    BY <1>1
  <1>3. t[Len(s) + 1].at = time
    BY <1>1
  <1>4. ASSUME NEW i \in 1..Len(t)
        PROVE  t[i].at \in Nat /\ t[i].at <= time /\ Recently(t[i].at, time, reach)
    <2>1. CASE i \in 1..Len(s)
      BY <1>2, <2>1 DEF InOrder
    <2>2. CASE i = Len(s) + 1
      BY <1>3, <2>2 DEF Recently
    <2>3. QED
      BY <1>1, <2>1, <2>2
  <1>5. ASSUME NEW i \in 1..Len(t), NEW j \in 1..Len(t), i <= j
        PROVE  t[i].at <= t[j].at
    <2>1. CASE j \in 1..Len(s)
      <3>1. i \in 1..Len(s)
        BY <1>1, <1>5, <2>1
      <3>2. QED
        BY <1>2, <1>5, <2>1, <3>1 DEF InOrder
    <2>2. CASE j = Len(s) + 1
      BY <1>3, <1>4, <2>2
    <2>3. QED
      BY <1>1, <2>1, <2>2
  <1>6. Windowed(t, start, sent + 1, time, reach, cap)
    <2>1. PICK p \in 0..Len(s) :
            /\ p <= cap /\ Len(s) - p <= sent
            /\ \A i \in 1..p : s[i].at <= start
            /\ \A i \in p + 1 .. Len(s) : start <= s[i].at
            /\ time - start < reach => Len(s) - p = sent
      BY DEF Windowed
    <2>2. \A i \in 1..p : t[i].at <= start
      BY <1>1, <1>2, <2>1
    <2>3. ASSUME NEW i \in p + 1 .. Len(t)
          PROVE  start <= t[i].at
      <3>1. CASE i \in 1..Len(s)
        BY <1>2, <2>1, <3>1
      <3>2. CASE i = Len(s) + 1
        BY <1>3, <3>2
      <3>3. QED
        BY <1>1, <2>1, <3>1, <3>2
    <2>4. /\ p \in 0..Len(t) /\ Len(t) - p <= sent + 1
          /\ time - start < reach => Len(t) - p = sent + 1
      BY <1>1, <2>1
    <2>5. QED
      BY <2>1, <2>2, <2>3, <2>4 DEF Windowed
  <1>7. QED
    BY <1>4, <1>5, <1>6 DEF InOrder, t

\* A window as the next notice finds it, and as one that is let through leaves it.
LEMMA WindowGoesOn ==
  ASSUME NEW S, NEW s \in Seq(S), NEW time \in Nat, NEW reach \in Nat \ {0},
         NEW start \in Nat, NEW sent \in Nat, NEW cap \in Nat, start <= time, sent <= cap,
         InOrder(s, time, reach), Windowed(s, start, sent, time, reach, cap),
         NEW from, from = (IF time - start >= reach THEN time ELSE start),
         NEW counted, counted = (IF time - start >= reach THEN 0 ELSE sent)
  PROVE  /\ from \in Nat /\ from <= time /\ counted \in 0..cap
         /\ Windowed(s, from, counted, time, reach, cap)
         /\ counted >= cap /\ cap # 0 => Len(s) >= cap
         /\ Len(s) <= cap + counted
  <1>1. /\ from \in Nat /\ from <= time /\ counted \in 0..cap
        /\ Windowed(s, from, counted, time, reach, cap)
    BY WindowRenewed
  <1>2. PICK p \in 0..Len(s) :
          /\ p <= cap /\ Len(s) - p <= counted
          /\ time - from < reach => Len(s) - p = counted
    BY <1>1 DEF Windowed
  <1>3. Len(s) \in Nat
    OBVIOUS
  <1>4. time - from < reach
    OBVIOUS
  <1>5. QED
    BY <1>1, <1>2, <1>3, <1>4

\* No log is longer than two windows.
LEMMA WindowBound ==
  ASSUME NEW S, NEW s \in Seq(S), NEW time, NEW reach,
         NEW start, NEW cap \in Nat, NEW sent \in 0..cap,
         Windowed(s, start, sent, time, reach, cap)
  PROVE  Len(s) <= 2 * cap
  <1>1. PICK p \in 0..Len(s) : p <= cap /\ Len(s) - p <= sent
    BY DEF Windowed
  <1>2. QED
    BY <1>1
-----------------------------------------------------------------------------
(***************************************************************************)
(* The throttle of a process. Its memory is exact where it matters: while  *)
(* an entry of the log is recent, the memory holds its key with its time,  *)
(* and every key it holds that has not expired is there for one of them.   *)
(***************************************************************************)
Remembered ==
  /\ \A i \in 1..Len(log) : log[i].key \in Keys /\ recent[log[i].key] = log[i].at
  /\ \A k \in Keys : recent[k] # Never /\ now - recent[k] < DedupeS =>
       \E i \in 1..Len(log) : log[i].key = k

ThrottleInv ==
  /\ \A k \in Keys : recent[k] # Never => recent[k] <= now
  /\ DedupeS > 0 =>
       /\ InOrder(log, now, DedupeS)
       /\ Windowed(log, window_started, sent_in_window, now, DedupeS, MAX_NOTICES_PER_WINDOW)
       /\ Remembered
       /\ NoRepeat

Entries == [key : Keys, at : Nat]

\* A key that has not expired is one of those let through lately, and the other way round.
LEMMA PrunedInLog ==
  ASSUME TypeOK, ThrottleInv, NEW k \in Keys
  PROVE  /\ Pruned \in [Keys -> Nat \cup {Never}]
         /\ Pruned[k] # Never => /\ DedupeS > 0 /\ Pruned[k] = recent[k]
                                 /\ \E i \in 1..Len(log) : log[i].key = k
         /\ DedupeS > 0 => \A i \in 1..Len(log) : Pruned[log[i].key] = log[i].at
  <1>1. Pruned \in [Keys -> Nat \cup {Never}]
    BY DEF TypeOK, Pruned
  <1>2. ASSUME Pruned[k] # Never
        PROVE  /\ DedupeS > 0 /\ Pruned[k] = recent[k]
               /\ \E i \in 1..Len(log) : log[i].key = k
    <2>1. recent[k] # Never /\ now - recent[k] < DedupeS /\ Pruned[k] = recent[k]
      BY <1>2 DEF Pruned
    <2>2. recent[k] \in Nat /\ recent[k] <= now /\ now \in Nat /\ DedupeS \in Nat
      BY <2>1, NotifierAssumption DEF TypeOK, ThrottleInv
    <2>3. DedupeS > 0
      BY <2>1, <2>2
    <2>4. QED
      BY <2>1, <2>3 DEF ThrottleInv, Remembered
  <1>3. ASSUME DedupeS > 0, NEW i \in 1..Len(log)
        PROVE  Pruned[log[i].key] = log[i].at
    <2>1. /\ log[i].key \in Keys /\ recent[log[i].key] = log[i].at
          /\ log[i].at \in Nat /\ log[i].at <= now /\ Recently(log[i].at, now, DedupeS)
      BY <1>3 DEF ThrottleInv, Remembered, InOrder
    <2>2. now - log[i].at < DedupeS
      BY <1>3, <2>1, NotifierAssumption DEF Recently, TypeOK
    <2>3. log[i].at # Never
      BY <2>1, NotifierAssumption
    <2>4. QED
      BY <2>1, <2>2, <2>3 DEF Pruned
  <1>4. QED
    BY <1>1, <1>2, <1>3

\* No more keys are held than notices were let through.
LEMMA HeldByLog ==
  ASSUME TypeOK, ThrottleInv
  PROVE  IsFiniteSet(Held(Pruned)) /\ Cardinality(Held(Pruned)) <= Len(log)
  <1> DEFINE Logged == {log[i].key : i \in 1..Len(log)}
             f == [i \in 1..Len(log) |-> log[i].key]
  <1>1. Len(log) \in Nat
    BY DEF TypeOK
  <1>2. IsFiniteSet(1..Len(log)) /\ Cardinality(1..Len(log)) = Len(log)
    <2>1. /\ IsFiniteSet(1..Len(log))
          /\ Cardinality(1..Len(log)) = IF 1 > Len(log) THEN 0 ELSE Len(log) - 1 + 1
      <3>1. 1 \in Int /\ Len(log) \in Int
        BY <1>1
      <3>2. QED
        BY <3>1, FS_Interval, Zenon
    <2>2. CASE Len(log) = 0
      BY <2>1, <2>2
    <2>3. CASE Len(log) > 0
      BY <1>1, <2>1, <2>3
    <2>4. QED
      BY <1>1, <2>2, <2>3
  <1>3. f \in Surjection(1..Len(log), Logged)
    BY DEF Surjection
  <1>4. IsFiniteSet(Logged) /\ Cardinality(Logged) <= Len(log)
    BY <1>2, <1>3, FS_Surjection
  <1>5. Held(Pruned) \subseteq Logged
    BY PrunedInLog DEF Held
  <1>6. /\ IsFiniteSet(Held(Pruned)) /\ Cardinality(Held(Pruned)) <= Cardinality(Logged)
    BY <1>4, <1>5, FS_Subset
  <1>7. Cardinality(Held(Pruned)) \in Nat /\ Cardinality(Logged) \in Nat
    BY <1>4, <1>6, FS_CardinalityType
  <1>8. QED
    BY <1>1, <1>4, <1>6, <1>7

\* What WindowGoesOn says of the notifier's own window.
LEMMA NotifierWindow ==
  ASSUME TypeOK, ThrottleInv, DedupeS > 0
  PROVE  /\ log \in Seq(Entries)
         /\ WindowStart \in Nat /\ WindowStart <= now /\ Sent \in 0..MAX_NOTICES_PER_WINDOW
         /\ Windowed(log, WindowStart, Sent, now, DedupeS, MAX_NOTICES_PER_WINDOW)
         /\ AtCap => Len(log) >= MAX_NOTICES_PER_WINDOW
         /\ Len(log) <= MAX_NOTICES_PER_WINDOW + Sent
  <1>1. /\ log \in Seq(Entries) /\ now \in Nat /\ DedupeS \in Nat \ {0}
        /\ window_started \in Nat /\ sent_in_window \in Nat /\ window_started <= now
        /\ MAX_NOTICES_PER_WINDOW \in Nat \ {0} /\ sent_in_window <= MAX_NOTICES_PER_WINDOW
    BY NotifierAssumption DEF TypeOK, Entries
  <1>2. /\ InOrder(log, now, DedupeS)
        /\ Windowed(log, window_started, sent_in_window, now, DedupeS, MAX_NOTICES_PER_WINDOW)
    BY DEF ThrottleInv
  <1>3. /\ WindowStart = (IF now - window_started >= DedupeS THEN now ELSE window_started)
        /\ Sent = (IF now - window_started >= DedupeS THEN 0 ELSE sent_in_window)
    BY DEF WindowStart, Sent, NewWindow
  <1>4. QED
    BY <1>1, <1>2, <1>3, WindowGoesOn DEF AtCap

\* A window of no length is always over, and holds no key back.
LEMMA NoWindow ==
  ASSUME TypeOK, ThrottleInv, ~(DedupeS > 0)
  PROVE  Sent = 0 /\ ~AtCap /\ \A k \in Keys : Pruned[k] = Never
  <1>1. now - window_started >= DedupeS
    BY NotifierAssumption DEF TypeOK
  <1>2. QED
    BY <1>1, PrunedInLog, NotifierAssumption DEF Sent, NewWindow, AtCap

\* Forgetting the keys that have expired forgets nothing that matters.
LEMMA PruningKept ==
  ASSUME TypeOK, ThrottleInv, recent' = Pruned, UNCHANGED <<now, log>>
  PROVE  /\ \A k \in Keys : recent'[k] # Never => recent'[k] <= now
         /\ DedupeS > 0 => Remembered'
  <1>1. ASSUME NEW k \in Keys, recent'[k] # Never
        PROVE  recent'[k] = recent[k] /\ recent'[k] <= now
    BY <1>1, PrunedInLog DEF ThrottleInv
  <1>2. ASSUME DedupeS > 0
        PROVE  Remembered'
    <2>1. \A i \in 1..Len(log) : log[i].key \in Keys /\ recent'[log[i].key] = log[i].at
      BY <1>2, PrunedInLog DEF ThrottleInv, Remembered
    <2>2. \A k \in Keys : recent'[k] # Never => \E i \in 1..Len(log) : log[i].key = k
      BY PrunedInLog
    <2>3. QED
      BY <2>1, <2>2 DEF Remembered
  <1>3. QED
    BY <1>1, <1>2

\* A notice that is dropped changes nothing that the throttle relies on.
LEMMA DropKept ==
  ASSUME TypeOK, ThrottleInv, NEW k \in Keys, Repeated(k) \/ Suppress(k), UNCHANGED now
  PROVE  TypeOK' /\ ThrottleInv'
  <1>1. recent' = Pruned /\ UNCHANGED <<now, log>>
    BY DEF Repeated, Suppress
  <1>2. /\ Pruned \in [Keys -> Nat \cup {Never}]
        /\ WindowStart \in Nat /\ WindowStart <= now /\ Sent \in 0..MAX_NOTICES_PER_WINDOW
    BY PrunedInLog, NotifierAssumption DEF TypeOK, WindowStart, Sent
  <1>3. TypeOK'
    BY <1>1, <1>2 DEF TypeOK, Repeated, Suppress
  <1>4. ASSUME DedupeS > 0
        PROVE  Windowed(log, window_started, sent_in_window, now, DedupeS, MAX_NOTICES_PER_WINDOW)'
    BY <1>1, <1>4, NotifierWindow DEF ThrottleInv, Repeated, Suppress
  <1>5. QED
    BY <1>1, <1>3, <1>4, PruningKept DEF ThrottleInv, NoRepeat

\* What is let through is not in the log yet, and the memory has room for it.
LEMMA RoomForOne ==
  ASSUME TypeOK, ThrottleInv, NEW k \in Keys, LetThrough(k)
  PROVE  Cardinality(Held(Pruned)) < MAX_RECENT \/ ~(DedupeS > 0)
  <1> SUFFICES ASSUME DedupeS > 0 PROVE Cardinality(Held(Pruned)) < MAX_RECENT
    OBVIOUS
  <1>1. Sent < MAX_NOTICES_PER_WINDOW /\ Len(log) <= MAX_NOTICES_PER_WINDOW + Sent
    BY NotifierWindow, NotifierAssumption DEF LetThrough, AtCap
  <1>2. /\ Cardinality(Held(Pruned)) \in Nat /\ Cardinality(Held(Pruned)) <= Len(log)
        /\ Len(log) \in Nat
    BY HeldByLog, FS_CardinalityType DEF TypeOK
  <1>3. QED
    BY <1>1, <1>2, NotifierWindow, NotifierAssumption

\* A notice that is let through is remembered, logged and counted.
LEMMA LetThroughKept ==
  ASSUME TypeOK, ThrottleInv, NEW k \in Keys, LetThrough(k), UNCHANGED now
  PROVE  TypeOK' /\ ThrottleInv'
  <1> DEFINE e == [key |-> k, at |-> now]
  <1>1. /\ Pruned[k] = Never /\ ~AtCap /\ log' = Append(log, e)
        /\ window_started' = WindowStart /\ sent_in_window' = Sent + 1 /\ now' = now
    BY DEF LetThrough
  <1>2. PICK r \in [Keys -> Nat \cup {Never}] :
          /\ recent' = [r EXCEPT ![k] = now]
          /\ \A j \in Keys : r[j] \in {Pruned[j], Never}
          /\ DedupeS > 0 => r = Pruned
    <2>1. Pruned \in [Keys -> Nat \cup {Never}]
      BY PrunedInLog
    <2>2. CASE Cardinality(Held(Pruned)) < MAX_RECENT
      BY <2>1, <2>2 DEF LetThrough, Added
    <2>3. CASE ~(Cardinality(Held(Pruned)) < MAX_RECENT)
      <3>1. ~(DedupeS > 0)
        BY <2>3, RoomForOne
      <3>2. PICK o \in Keys : recent' = [[Pruned EXCEPT ![o] = Never] EXCEPT ![k] = now]
        BY <2>3 DEF LetThrough, Added, Held
      <3>3. QED
        BY <2>1, <3>1, <3>2
    <2>4. QED
      BY <2>2, <2>3
  <1>3. now \in Nat /\ log \in Seq(Entries) /\ e \in Entries /\ e.at = now /\ e.key = k
    BY DEF TypeOK, Entries
  <1>4. TypeOK'
    <2>1. /\ WindowStart \in Nat /\ WindowStart <= now
          /\ Sent + 1 \in 0..MAX_NOTICES_PER_WINDOW
      BY <1>1, NotifierAssumption DEF TypeOK, WindowStart, Sent, AtCap
    <2>2. recent' \in [Keys -> Nat \cup {Never}]
      BY <1>2, <1>3
    <2>3. log' \in Seq(Entries)
      BY <1>1, <1>3
    <2>4. QED
      BY <1>1, <1>3, <2>1, <2>2, <2>3 DEF TypeOK, Entries
  <1>5. \A j \in Keys : recent'[j] = IF j = k THEN now ELSE r[j]
    BY <1>2
  <1>6. \A j \in Keys : recent'[j] # Never => recent'[j] <= now'
    BY <1>1, <1>2, <1>3, <1>5, PrunedInLog DEF ThrottleInv
  <1>7. ASSUME DedupeS > 0
        PROVE  /\ InOrder(log, now, DedupeS)'
               /\ Windowed(log, window_started, sent_in_window, now, DedupeS,
                           MAX_NOTICES_PER_WINDOW)'
               /\ Remembered' /\ NoRepeat'
    <2>1. /\ InOrder(log', now, DedupeS)
          /\ Windowed(log', WindowStart, Sent + 1, now, DedupeS, MAX_NOTICES_PER_WINDOW)
      <3>1. /\ WindowStart \in Nat /\ WindowStart <= now /\ Sent \in Nat
            /\ Windowed(log, WindowStart, Sent, now, DedupeS, MAX_NOTICES_PER_WINDOW)
            /\ InOrder(log, now, DedupeS)
        BY <1>7, NotifierWindow DEF ThrottleInv
      <3>2. DedupeS \in Nat \ {0} /\ MAX_NOTICES_PER_WINDOW \in Nat
        BY <1>7, NotifierAssumption
      <3>3. QED
        BY <1>1, <1>3, <3>1, <3>2, WindowCounts
    <2>2. \A i \in 1..Len(log) : Pruned[log[i].key] = log[i].at /\ log[i].at # Never
      BY <1>7, PrunedInLog, NotifierAssumption DEF ThrottleInv, InOrder
    <2>3. \A i \in 1..Len(log) : log[i].key # k /\ log[i].key \in Keys
      BY <1>1, <1>7, <2>2 DEF ThrottleInv, Remembered
    <2>4. /\ Len(log') = Len(log) + 1 /\ Len(log) \in Nat
          /\ \A i \in 1..Len(log) : log'[i] = log[i]
          /\ log'[Len(log) + 1] = e
      BY <1>1, <1>3
    <2>5. NoRepeat'
      <3>1. \A i, j \in 1..Len(log) : i # j => log[i].key # log[j].key
        BY <1>7 DEF ThrottleInv, NoRepeat
      <3>2. ASSUME NEW i \in 1..Len(log'), NEW j \in 1..Len(log'), i # j
            PROVE  log'[i].key # log'[j].key
        <4>1. CASE i \in 1..Len(log) /\ j \in 1..Len(log)
          BY <2>4, <3>1, <3>2, <4>1
        <4>2. CASE i \in 1..Len(log) /\ j = Len(log) + 1
          BY <1>3, <2>3, <2>4, <4>2
        <4>3. CASE i = Len(log) + 1 /\ j \in 1..Len(log)
          BY <1>3, <2>3, <2>4, <4>3
        <4>4. QED
          BY <2>4, <3>2, <4>1, <4>2, <4>3
      <3>3. QED
        BY <3>2 DEF NoRepeat
    <2>6. Remembered'
      <3>1. ASSUME NEW i \in 1..Len(log')
            PROVE  log'[i].key \in Keys /\ recent'[log'[i].key] = log'[i].at
        <4>1. CASE i \in 1..Len(log)
          BY <1>2, <1>5, <1>7, <2>2, <2>3, <2>4, <4>1
        <4>2. CASE i = Len(log) + 1
          BY <1>3, <1>5, <2>4, <4>2
        <4>3. QED
          BY <2>4, <4>1, <4>2
      <3>2. ASSUME NEW j \in Keys, recent'[j] # Never
            PROVE  \E i \in 1..Len(log') : log'[i].key = j
        <4>1. CASE j = k
          BY <1>3, <2>4, <4>1
        <4>2. CASE j # k
          <5>1. Pruned[j] # Never
            BY <1>2, <1>5, <1>7, <3>2, <4>2
          <5>2. PICK i \in 1..Len(log) : log[i].key = j
            BY <5>1, PrunedInLog
          <5>3. i \in 1..Len(log') /\ log'[i].key = j
            BY <2>4, <5>2
          <5>4. QED
            BY <5>3
        <4>3. QED
          BY <4>1, <4>2
      <3>3. QED
        BY <3>1, <3>2 DEF Remembered
    <2>7. QED
      BY <1>1, <2>1, <2>5, <2>6
  <1>8. QED
    BY <1>4, <1>6, <1>7 DEF ThrottleInv

\* Time takes entries off the log as it takes keys out of the memory.
LEMMA TickKept ==
  ASSUME TypeOK, ThrottleInv, now' = now + 1, log' \in Since(log, now', DedupeS),
         UNCHANGED <<recent, window_started, sent_in_window>>
  PROVE  TypeOK' /\ ThrottleInv'
  <1>1. /\ now \in Nat /\ now' \in Nat /\ now <= now'
        /\ window_started \in Nat /\ sent_in_window \in Nat
        /\ log \in Seq(Entries) /\ DedupeS \in Nat /\ MAX_NOTICES_PER_WINDOW \in Nat
    BY NotifierAssumption DEF TypeOK, Entries
  <1>2. log' \in Seq(Entries)
    <2>1. PICK n \in 0..Len(log) : log' = SubSeq(log, n + 1, Len(log))
      BY DEF Since
    <2>2. QED
      BY <1>1, <2>1
  <1>3. TypeOK'
    BY <1>1, <1>2 DEF TypeOK, Entries
  <1>4. \A k \in Keys : recent'[k] # Never => recent'[k] <= now'
    BY <1>1, NotifierAssumption DEF TypeOK, ThrottleInv
  <1>5. ASSUME DedupeS > 0
        PROVE  /\ InOrder(log, now, DedupeS)'
               /\ Windowed(log, window_started, sent_in_window, now, DedupeS,
                           MAX_NOTICES_PER_WINDOW)'
               /\ Remembered' /\ NoRepeat'
    <2>1. /\ InOrder(log, now, DedupeS) /\ DedupeS \in Nat \ {0}
          /\ Windowed(log, window_started, sent_in_window, now, DedupeS, MAX_NOTICES_PER_WINDOW)
      BY <1>1, <1>5 DEF ThrottleInv
    <2>2. /\ InOrder(log', now', DedupeS)
          /\ Windowed(log', window_started, sent_in_window, now', DedupeS,
                      MAX_NOTICES_PER_WINDOW)
      BY <1>1, <2>1, WindowAges
    <2>3. PICK n \in 0..Len(log) :
            /\ Len(log') = Len(log) - n
            /\ \A i \in 1..Len(log') : log'[i] = log[n + i]
            /\ n > 0 => log[n].at \in Nat /\ now' - log[n].at >= DedupeS
      <3>1. \E n \in 0..Len(log) : LeftAfter(n, log, log', now', DedupeS)
        BY <1>1, <2>1, SinceIsSuffix
      <3>2. QED
        BY <3>1 DEF LeftAfter
    <2>4. Len(log) \in Nat
      BY <1>1
    <2>5. NoRepeat'
      BY <1>5, <2>3, <2>4 DEF ThrottleInv, NoRepeat
    <2>6. Remembered'
      <3>1. ASSUME NEW i \in 1..Len(log')
            PROVE  log'[i].key \in Keys /\ recent'[log'[i].key] = log'[i].at
        <4>1. n + i \in 1..Len(log) /\ log'[i] = log[n + i]
          BY <2>3, <2>4
        <4>2. log[n + i].key \in Keys /\ recent[log[n + i].key] = log[n + i].at
          BY <1>5, <4>1 DEF ThrottleInv, Remembered
        <4>3. QED
          BY <4>1, <4>2, Zenon
      <3>2. ASSUME NEW k \in Keys, recent[k] # Never, now' - recent[k] < DedupeS
            PROVE  \E i \in 1..Len(log') : log'[i].key = k
        <4>1. recent[k] \in Nat /\ now - recent[k] < DedupeS
          BY <1>1, <3>2 DEF TypeOK
        <4>2. PICK i \in 1..Len(log) : log[i].key = k /\ log[i].at = recent[k]
          BY <1>5, <3>2, <4>1 DEF ThrottleInv, Remembered
        <4>3. i > n
          <5>1. SUFFICES ASSUME i <= n PROVE FALSE
            BY <2>3, <4>2
          <5>2. n \in 1..Len(log) /\ n > 0
            BY <2>3, <2>4, <5>1
          <5>3. log[i].at <= log[n].at
            BY <2>1, <5>1, <5>2 DEF InOrder
          <5>4. QED
            BY <1>1, <2>3, <3>2, <4>1, <4>2, <5>2, <5>3
        <4>4. i - n \in 1..Len(log') /\ log'[i - n] = log[i]
          <5>1. i - n \in 1..Len(log') /\ n + (i - n) = i
            BY <2>3, <2>4, <4>3
          <5>2. QED
            BY <2>3, <5>1
        <4>5. QED
          BY <4>2, <4>4
      <3>3. QED
        BY <3>1, <3>2 DEF Remembered
    <2>7. QED
      BY <2>2, <2>5, <2>6
  <1>6. QED
    BY <1>3, <1>4, <1>5 DEF ThrottleInv
-----------------------------------------------------------------------------
\* What a configuration that is accepted leads to.
LEMMA StartedRight ==
  ASSUME NEW started \in Starts
  PROVE  /\ started \in [transport : {"refused", "off", "room", "bot"},
                         secret : Secrets \cup {Unset}]
         /\ started.transport = "bot" <=> started.secret # Unset
  <1>1. PICK cfg \in Configs : started = Started(cfg)
    BY DEF Starts
  <1>2. CASE Refused(cfg) \/ ~NotifyRoom(cfg)
    <2>1. \E transport \in {"refused", "off"} :
            started = [transport |-> transport, secret |-> Unset]
      BY <1>1, <1>2 DEF Started
    <2>2. QED
      BY <2>1
  <1>3. CASE ~Refused(cfg) /\ NotifyRoom(cfg)
    <2>1. /\ cfg["notify_via"] # Ill /\ cfg["notify_secret"] # Ill
          /\ cfg["notify_secret_path"] # Ill
          /\ ~SecretRefused(cfg) /\ ~Incomplete(cfg)
      BY <1>3 DEF Refused, ConfigKeys
    <2>2. CASE NotifyVia(cfg) = "bot"
      <3>1. Given(cfg["notify_url"]) /\ Given(Secret(cfg))
        BY <2>1, <2>2 DEF Incomplete
      <3>2. Secret(cfg) \in Secrets
        <4>1. CASE Given(cfg["notify_secret_path"])
          BY <2>1, <4>1, PathAssumption DEF Secret, SecretRefused, Given
        <4>2. CASE ~Given(cfg["notify_secret_path"])
          BY <2>1, <3>1, <4>2, PathAssumption DEF Secret, Given
        <4>3. QED
          BY <4>1, <4>2
      <3>3. started = [transport |-> "bot", secret |-> Secret(cfg)]
        BY <1>1, <1>3, <2>2, <3>1 DEF Started, Given
      <3>4. QED
        BY <3>2, <3>3, PathAssumption
    <2>3. CASE NotifyVia(cfg) # "bot"
      <3>1. NotifyVia(cfg) = "room"
        BY <2>1, <2>3, PathAssumption DEF NotifyVia
      <3>2. Unset \notin {cfg["control_room"], cfg["notify_user"]}
        BY <2>1, <3>1 DEF Incomplete
      <3>3. started = [transport |-> "room", secret |-> Unset]
        BY <1>1, <1>3, <2>3, <3>2 DEF Started
      <3>4. QED
        BY <3>3
    <2>4. QED
      BY <2>2, <2>3
  <1>4. QED
    BY <1>2, <1>3
-----------------------------------------------------------------------------
\* The endpoint's window, over what it posted.
EndpointInv ==
  /\ posted \in Logs
  /\ InOrder(posted, now, NOTIFY_WINDOW_S)
  /\ Windowed(posted, bot_window_started, bot_sent_in_window, now, NOTIFY_WINDOW_S,
              NOTIFY_MAX_PER_WINDOW)

PathInv ==
  /\ PathTypeOK
  /\ ThrottleInv
  /\ service.transport # "assertion"
  /\ EndpointInv

EndpointTyped ==
  bot_window_started \in 0..now /\ bot_sent_in_window \in 0..NOTIFY_MAX_PER_WINDOW

\* What WindowGoesOn says of the endpoint's window.
LEMMA EndpointWindow ==
  ASSUME PathTypeOK, EndpointInv
  PROVE  /\ BotWindowStart \in Nat /\ BotWindowStart <= now
         /\ BotSent \in 0..NOTIFY_MAX_PER_WINDOW
         /\ Windowed(posted, BotWindowStart, BotSent, now, NOTIFY_WINDOW_S,
                     NOTIFY_MAX_PER_WINDOW)
         /\ BotSent >= NOTIFY_MAX_PER_WINDOW => Len(posted) >= NOTIFY_MAX_PER_WINDOW
  <1>1. /\ now \in Nat /\ NOTIFY_WINDOW_S \in Nat \ {0} /\ posted \in Seq([at : Nat])
        /\ bot_window_started \in Nat /\ bot_sent_in_window \in Nat
        /\ bot_window_started <= now
        /\ NOTIFY_MAX_PER_WINDOW \in Nat \ {0}
        /\ bot_sent_in_window <= NOTIFY_MAX_PER_WINDOW
    BY PathAssumption DEF PathTypeOK, TypeOK, EndpointInv, Logs
  <1>2. /\ InOrder(posted, now, NOTIFY_WINDOW_S)
        /\ Windowed(posted, bot_window_started, bot_sent_in_window, now, NOTIFY_WINDOW_S,
                    NOTIFY_MAX_PER_WINDOW)
    BY DEF EndpointInv
  <1>3. /\ BotWindowStart = (IF now - bot_window_started >= NOTIFY_WINDOW_S THEN now
                             ELSE bot_window_started)
        /\ BotSent = (IF now - bot_window_started >= NOTIFY_WINDOW_S THEN 0
                      ELSE bot_sent_in_window)
    BY DEF BotWindowStart, BotSent, BotNewWindow
  <1>4. QED
    BY <1>1, <1>2, <1>3, WindowGoesOn

\* Whatever the endpoint answers, its window bounds what it has posted.
LEMMA HandlingKept ==
  ASSUME PathTypeOK, EndpointInv, NEW status, BotHandles(status), UNCHANGED now
  PROVE  EndpointInv' /\ EndpointTyped'
  <1>1. CASE UNCHANGED endpoint
    BY <1>1 DEF PathTypeOK, EndpointInv, EndpointTyped, endpoint
  <1>2. CASE BotDrops
    BY <1>2, EndpointWindow DEF BotDrops, EndpointInv, EndpointTyped
  <1>3. CASE BotPosts
    <2> DEFINE e == [at |-> now]
    <2>1. /\ now \in Nat /\ now' = now /\ posted \in Seq([at : Nat]) /\ e \in [at : Nat]
          /\ e.at = now
          /\ NOTIFY_WINDOW_S \in Nat \ {0} /\ NOTIFY_MAX_PER_WINDOW \in Nat
          /\ InOrder(posted, now, NOTIFY_WINDOW_S)
      BY PathAssumption DEF PathTypeOK, TypeOK, EndpointInv, Logs
    <2>2. /\ BotSent < NOTIFY_MAX_PER_WINDOW /\ posted' = Append(posted, e)
          /\ bot_window_started' = BotWindowStart /\ bot_sent_in_window' = BotSent + 1
      BY <1>3 DEF BotPosts
    <2>3. /\ BotWindowStart \in Nat /\ BotWindowStart <= now /\ BotSent \in Nat
          /\ Windowed(posted, BotWindowStart, BotSent, now, NOTIFY_WINDOW_S,
                      NOTIFY_MAX_PER_WINDOW)
      BY EndpointWindow
    <2> HIDE DEF e
    <2>4. /\ InOrder(Append(posted, e), now, NOTIFY_WINDOW_S)
          /\ Windowed(Append(posted, e), BotWindowStart, BotSent + 1, now, NOTIFY_WINDOW_S,
                      NOTIFY_MAX_PER_WINDOW)
      BY <2>1, <2>3, WindowCounts
    <2>5. Append(posted, e) \in Seq([at : Nat])
      BY <2>1
    <2>6. QED
      BY <2>1, <2>2, <2>3, <2>4, <2>5 DEF EndpointInv, EndpointTyped, Logs
  <1>4. QED
    BY <1>1, <1>2, <1>3 DEF BotHandles

\* Time makes the endpoint's window no wider.
LEMMA ForgettingKept ==
  ASSUME PathTypeOK, EndpointInv, now' = now + 1, Forget,
         UNCHANGED <<bot_window_started, bot_sent_in_window>>
  PROVE  EndpointInv' /\ EndpointTyped'
  <1>1. /\ now \in Nat /\ now' \in Nat /\ now <= now' /\ posted \in Seq([at : Nat])
        /\ NOTIFY_WINDOW_S \in Nat \ {0} /\ NOTIFY_MAX_PER_WINDOW \in Nat
        /\ bot_window_started \in Nat /\ bot_sent_in_window \in Nat
    BY PathAssumption DEF PathTypeOK, TypeOK, EndpointInv, Logs
  <1>2. /\ InOrder(posted, now, NOTIFY_WINDOW_S)
        /\ Windowed(posted, bot_window_started, bot_sent_in_window, now, NOTIFY_WINDOW_S,
                    NOTIFY_MAX_PER_WINDOW)
        /\ posted' \in Since(posted, now', NOTIFY_WINDOW_S)
    BY DEF EndpointInv, Forget
  <1>3. /\ posted' \in Seq([at : Nat]) /\ InOrder(posted', now', NOTIFY_WINDOW_S)
        /\ Windowed(posted', bot_window_started, bot_sent_in_window, now', NOTIFY_WINDOW_S,
                    NOTIFY_MAX_PER_WINDOW)
    BY <1>1, <1>2, WindowAges
  <1>4. EndpointTyped'
    BY <1>1 DEF PathTypeOK, EndpointTyped
  <1>5. QED
    BY <1>3, <1>4 DEF EndpointInv, Logs

\* What is neither of the notifier nor of the endpoint.
MailOK ==
  /\ mail \subseteq Letters
  /\ \A m \in mail : m.awaited => service.transport \in {"room", "bot"} /\ m.auth = service.secret

RestOK ==
  /\ service \in [transport : {"refused", "off", "room", "bot"}, secret : Secrets \cup {Unset}]
  /\ service.transport = "bot" <=> service.secret # Unset
  /\ MailOK
  /\ bot \in BotConfigs
  /\ restarts \in 0..MaxRestarts

\* The invariant, taken apart into what the steps change together.
LEMMA PathParts ==
  PathInv <=> TypeOK /\ ThrottleInv /\ EndpointTyped /\ EndpointInv /\ RestOK
  <1>1. ASSUME PathInv
        PROVE  RestOK
    <2>1. service \in [transport : {"refused", "off", "room", "bot"},
                       secret : Secrets \cup {Unset}]
      BY <1>1 DEF PathInv, PathTypeOK
    <2>2. QED
      BY <1>1, <2>1 DEF PathInv, PathTypeOK, RestOK, MailOK
  <1>2. ASSUME TypeOK, ThrottleInv, EndpointTyped, EndpointInv, RestOK
        PROVE  PathInv
    <2>1. /\ service \in [transport : {"refused", "off", "assertion", "room", "bot"},
                          secret : Secrets \cup {Unset}]
          /\ service.transport # "assertion"
      BY <1>2 DEF RestOK
    <2>2. QED
      BY <1>2, <2>1 DEF PathInv, PathTypeOK, RestOK, MailOK, EndpointTyped
  <1>3. QED
    BY <1>1, <1>2 DEF PathInv, PathTypeOK, EndpointTyped

\* Nothing happens to the notifier.
LEMMA NotifierIdle ==
  ASSUME TypeOK, ThrottleInv, UNCHANGED <<now, notifier>>
  PROVE  TypeOK' /\ ThrottleInv'
  BY DEF TypeOK, ThrottleInv, Remembered, NoRepeat, notifier

\* Nothing happens to the endpoint.
LEMMA EndpointIdle ==
  ASSUME EndpointTyped, EndpointInv, UNCHANGED <<now, endpoint>>
  PROVE  EndpointTyped' /\ EndpointInv'
  BY DEF EndpointTyped, EndpointInv, endpoint

\* Requests vanish, or are no longer waited for.
LEMMA MailLeft ==
  ASSUME RestOK, UNCHANGED <<service, bot, restarts>>,
         \A m \in mail' : m \in mail \/ \E l \in mail : m = [l EXCEPT !.awaited = FALSE]
  PROVE  RestOK'
  <1>1. ASSUME NEW m \in mail'
        PROVE  /\ m \in Letters
               /\ m.awaited => service.transport \in {"room", "bot"} /\ m.auth = service.secret
    <2>1. CASE m \in mail
      BY <2>1 DEF RestOK, MailOK
    <2>2. CASE \E l \in mail : m = [l EXCEPT !.awaited = FALSE]
      BY <2>2 DEF RestOK, MailOK, Letters
    <2>3. QED
      BY <2>1, <2>2
  <1>2. QED
    BY <1>1 DEF RestOK, MailOK

\* The invariant is inductive: one step per action.
LEMMA PathInductive == PathInv /\ [PathNext]_pathVars => PathInv'
  <1> SUFFICES ASSUME PathInv, [PathNext]_pathVars PROVE PathInv'
    OBVIOUS
  <1>1. /\ TypeOK /\ ThrottleInv /\ EndpointTyped /\ EndpointInv /\ RestOK /\ PathTypeOK
    BY PathParts DEF PathInv
  <1> DEFINE Notified == TypeOK' /\ ThrottleInv'
             Endpoint == EndpointTyped' /\ EndpointInv'
             Kept == Notified /\ Endpoint /\ RestOK'
  <1>2. ASSUME NEW k \in Keys, Block(k)
        PROVE  Kept
    <2>1. Notified
      BY <1>1, <1>2, DropKept, LetThroughKept DEF Block
    <2>2. Endpoint
      BY <1>1, <1>2, EndpointIdle DEF Block
    <2>3. Letter(k) \in Letters
      BY <1>1 DEF Letter, Letters, TypeOK, RestOK
    <2>4. mail' \subseteq mail \cup {Letter(k)}
      BY <1>2 DEF Block
    <2>5. Letter(k).auth = service.secret /\ service.transport \in {"room", "bot"}
      BY <1>2 DEF Block, Letter
    <2>6. RestOK'
      BY <1>1, <1>2, <2>3, <2>4, <2>5 DEF Block, RestOK, MailOK
    <2>7. QED
      BY <2>1, <2>2, <2>6
  <1>3. ASSUME NEW m \in mail, PostAsUser(m) \/ TimeOut(m) \/ Lose(m)
        PROVE  Kept
    <2>1. UNCHANGED <<now, notifier, service, bot, endpoint, restarts>>
      BY <1>3 DEF PostAsUser, TimeOut, Lose
    <2>2. \A l \in mail' : l \in mail \/ \E g \in mail : l = [g EXCEPT !.awaited = FALSE]
      BY <1>3 DEF PostAsUser, TimeOut, Lose
    <2>3. Notified /\ Endpoint
      BY <1>1, <2>1, NotifierIdle, EndpointIdle
    <2>4. RestOK'
      BY <1>1, <2>1, <2>2, MailLeft
    <2>5. QED
      BY <2>3, <2>4
  <1>4. ASSUME NEW m \in mail, Arrive(m)
        PROVE  Kept
    <2>1. /\ UNCHANGED <<now, notifier, service, bot, restarts>> /\ mail' \subseteq mail
          /\ \E fits \in BOOLEAN : BotHandles(Status(m.auth, fits, TRUE, bot))
      BY <1>4 DEF Arrive
    <2>2. Notified
      BY <1>1, <2>1, NotifierIdle
    <2>3. Endpoint
      BY <1>1, <2>1, HandlingKept
    <2>4. RestOK'
      BY <1>1, <2>1, MailLeft
    <2>5. QED
      BY <2>2, <2>3, <2>4
  <1>5. ASSUME NEW auth \in Secrets, NEW fits \in BOOLEAN, NEW well_formed \in BOOLEAN,
               Intrude(auth, fits, well_formed)
        PROVE  Kept
    <2>1. /\ UNCHANGED <<now, notifier, service, mail, bot, restarts>>
          /\ BotHandles(Status(auth, fits, well_formed, bot))
      BY <1>5 DEF Intrude
    <2>2. Notified
      BY <1>1, <2>1, NotifierIdle
    <2>3. Endpoint
      BY <1>1, <2>1, HandlingKept
    <2>4. RestOK'
      BY <1>1, <2>1, MailLeft
    <2>5. QED
      BY <2>2, <2>3, <2>4
  <1>6. ASSUME NEW botCfg \in BotConfigs, Reconfigure(botCfg)
        PROVE  Kept
    <2>1. UNCHANGED <<now, notifier, service, mail, endpoint, restarts>> /\ bot' = botCfg
      BY <1>6 DEF Reconfigure
    <2>2. Notified /\ Endpoint
      BY <1>1, <2>1, NotifierIdle, EndpointIdle
    <2>3. RestOK'
      BY <1>1, <2>1 DEF RestOK, MailOK
    <2>4. QED
      BY <2>2, <2>3
  <1>7. ASSUME PathTick
        PROVE  Kept
    <2>1. /\ now' = now + 1 /\ log' \in Since(log, now', DedupeS) /\ Forget
          /\ UNCHANGED <<recent, window_started, sent_in_window, service, mail, bot,
                         bot_window_started, bot_sent_in_window, restarts>>
      BY <1>7 DEF PathTick, Tick
    <2>2. Notified
      BY <1>1, <2>1, TickKept
    <2>3. Endpoint
      BY <1>1, <2>1, ForgettingKept
    <2>4. RestOK'
      BY <1>1, <2>1, MailLeft
    <2>5. QED
      BY <2>2, <2>3, <2>4
  <1>8. ASSUME NEW started \in Starts, Restart(started)
        PROVE  Kept
    <2>1. /\ now' = now + 1 /\ now < MaxTime /\ Forget
          /\ recent' = [k \in Keys |-> Never] /\ window_started' = 0 /\ sent_in_window' = 0
          /\ log' = <<>>
          /\ restarts < MaxRestarts /\ restarts' = restarts + 1
          /\ service' = started
          /\ mail' = {[m EXCEPT !.awaited = FALSE] : m \in {l \in mail : l.auth # Unset}}
          /\ UNCHANGED <<bot, bot_window_started, bot_sent_in_window>>
      BY <1>8 DEF Restart
    <2>2. Endpoint
      BY <1>1, <2>1, ForgettingKept
    <2>3. Notified
      <3>1. TypeOK'
        BY <1>1, <2>1, NotifierAssumption DEF TypeOK
      <3>2. InOrder(<<>>, now', DedupeS)
        BY DEF InOrder
      <3>3. Windowed(<<>>, 0, 0, now', DedupeS, MAX_NOTICES_PER_WINDOW)
        BY NotifierAssumption DEF Windowed
      <3>4. QED
        BY <2>1, <3>1, <3>2, <3>3, NotifierAssumption DEF ThrottleInv, Remembered, NoRepeat
    <2>4. RestOK'
      <3>1. ASSUME NEW m \in mail'
            PROVE  m \in Letters /\ ~m.awaited
        <4>1. PICK l \in mail : m = [l EXCEPT !.awaited = FALSE]
          BY <2>1
        <4>2. l \in Letters
          BY <1>1 DEF RestOK, MailOK
        <4>3. m = [key |-> l.key, at |-> l.at, auth |-> l.auth, awaited |-> FALSE]
          BY <4>1, <4>2 DEF Letters
        <4>4. QED
          BY <4>2, <4>3 DEF Letters
      <3>2. restarts' \in 0..MaxRestarts
        BY <1>1, <2>1, PathAssumption DEF RestOK
      <3>3. QED
        BY <1>1, <2>1, <3>1, <3>2, StartedRight DEF RestOK, MailOK
    <2>5. QED
      BY <2>2, <2>3, <2>4
  <1>9. ASSUME UNCHANGED pathVars
        PROVE  Kept
    <2>1. UNCHANGED <<now, notifier, service, mail, bot, endpoint, restarts>>
      BY <1>9 DEF pathVars
    <2>2. Notified /\ Endpoint
      BY <1>1, <2>1, NotifierIdle, EndpointIdle
    <2>3. RestOK'
      BY <1>1, <2>1, MailLeft
    <2>4. QED
      BY <2>2, <2>3
  <1>10. Kept
    BY <1>2, <1>3, <1>4, <1>5, <1>6, <1>7, <1>8, <1>9 DEF PathNext
  <1>11. PathInv' <=> (TypeOK /\ ThrottleInv /\ EndpointTyped /\ EndpointInv /\ RestOK)'
    BY PathParts, PTL
  <1>12. QED
    BY <1>10, <1>11

\* It holds at the start, whatever the clock reads and the configurations say.
LEMMA PathStarts == PathInit => PathInv
  <1> SUFFICES ASSUME PathInit PROVE PathInv
    OBVIOUS
  <1>1. TypeOK
    BY NotifierAssumption DEF PathInit, Init, TypeOK
  <1>2. ThrottleInv
    <2>1. InOrder(<<>>, now, DedupeS)
      BY DEF InOrder
    <2>2. Windowed(<<>>, 0, 0, now, DedupeS, MAX_NOTICES_PER_WINDOW)
      BY NotifierAssumption DEF Windowed
    <2>3. QED
      BY <2>1, <2>2 DEF PathInit, Init, ThrottleInv, Remembered, NoRepeat
  <1>3. EndpointTyped
    BY <1>1, PathAssumption DEF PathInit, EndpointTyped, TypeOK
  <1>4. EndpointInv
    <2>1. InOrder(<<>>, now, NOTIFY_WINDOW_S)
      BY DEF InOrder
    <2>2. Windowed(<<>>, 0, 0, now, NOTIFY_WINDOW_S, NOTIFY_MAX_PER_WINDOW)
      BY PathAssumption DEF Windowed
    <2>3. QED
      BY <2>1, <2>2 DEF PathInit, EndpointInv, Logs
  <1>5. RestOK
    BY StartedRight, PathAssumption DEF PathInit, RestOK, MailOK
  <1>6. QED
    BY <1>1, <1>2, <1>3, <1>4, <1>5, PathParts

\* The invariant holds in every reachable state.
LEMMA PathAlways == PathSpec => []PathInv
  BY PathStarts, PathInductive, PTL DEF PathSpec
-----------------------------------------------------------------------------
(***************************************************************************)
(* Every variable has its type, and only a process that runs waits for an  *)
(* answer, in every reachable state.                                       *)
(***************************************************************************)
THEOREM NoticesTyped == PathSpec => []PathTypeOK
  <1>1. PathInv => PathTypeOK
    BY DEF PathInv
  <1>2. QED
    BY <1>1, PathAlways, PTL

(***************************************************************************)
(* Whatever configuration the module is started with, parse refuses it or  *)
(* it starts.                                                              *)
(***************************************************************************)
THEOREM EveryConfigStarts == PathSpec => []ConfigStarts
  <1>1. PathInv => ConfigStarts
    BY DEF PathInv, ConfigStarts
  <1>2. QED
    BY <1>1, PathAlways, PTL

(***************************************************************************)
(* The notifier reports a blocked action once in any notify_dedupe_s, and  *)
(* a flood gets two windows' worth of notices through at most.             *)
(***************************************************************************)
THEOREM NotifierThrottles == PathSpec => []Throttled
  <1>1. PathInv => Throttled
    <2> SUFFICES ASSUME PathInv PROVE Throttled
      OBVIOUS
    <2>1. TypeOK /\ ThrottleInv
      BY DEF PathInv, PathTypeOK
    <2>2. ASSUME DedupeS > 0
          PROVE  Len(log) <= 2 * MAX_NOTICES_PER_WINDOW
      <3>1. /\ log \in Seq(Entries) /\ MAX_NOTICES_PER_WINDOW \in Nat
            /\ sent_in_window \in 0..MAX_NOTICES_PER_WINDOW
            /\ Windowed(log, window_started, sent_in_window, now, DedupeS,
                        MAX_NOTICES_PER_WINDOW)
        BY <2>1, <2>2, NotifierAssumption DEF TypeOK, Entries, ThrottleInv
      <3>2. QED
        BY <3>1, WindowBound
    <2>3. /\ Cardinality(Held(Pruned)) \in Nat /\ Cardinality(Held(Pruned)) <= Len(log)
          /\ Len(log) \in Nat
      BY <2>1, HeldByLog, FS_CardinalityType DEF TypeOK
    <2>4. NoRepeat
      BY <2>1 DEF ThrottleInv, NoRepeat
    <2>5. QED
      BY <2>2, <2>3, <2>4, NotifierAssumption DEF Throttled, FloodBounded
  <1>2. QED
    BY <1>1, PathAlways, PTL

(***************************************************************************)
(* In no state would notify() drop a notice without cause: what it takes   *)
(* for a repeat went through in the last notify_dedupe_s, and when it      *)
(* finds the cap reached a whole window's worth went through in them.      *)
(***************************************************************************)
THEOREM NothingKeptBack == PathSpec => []DroppedForCause
  <1>1. ASSUME PathInv, NEW k \in Keys
        PROVE  /\ Pruned[k] # Never => \E i \in 1..Len(log) : log[i].key = k
               /\ Pruned[k] = Never /\ AtCap => Len(log) >= MAX_NOTICES_PER_WINDOW
    <2>1. TypeOK /\ ThrottleInv
      BY <1>1 DEF PathInv, PathTypeOK
    <2>2. Pruned[k] # Never => \E i \in 1..Len(log) : log[i].key = k
      BY <2>1, PrunedInLog
    <2>3. AtCap => Len(log) >= MAX_NOTICES_PER_WINDOW
      BY <2>1, NoWindow, NotifierWindow
    <2>4. QED
      BY <2>2, <2>3
  <1>2. PathInv => DroppedForCause
    BY <1>1 DEF DroppedForCause
  <1>3. QED
    BY <1>2, PathAlways, PTL

(***************************************************************************)
(* However many post and however often Synapse restarts, the bot posts two *)
(* windows' worth at most in any NOTIFY_WINDOW_S; and it drops a notice    *)
(* only if a whole window's worth was posted.                              *)
(***************************************************************************)
THEOREM EndpointThrottles == PathSpec => []BotThrottles
  <1>1. PathInv => BotThrottles
    <2> SUFFICES ASSUME PathInv PROVE BotThrottles
      OBVIOUS
    <2>1. PathTypeOK /\ EndpointInv
      BY DEF PathInv
    <2>2. /\ posted \in Seq([at : Nat]) /\ NOTIFY_MAX_PER_WINDOW \in Nat
          /\ bot_sent_in_window \in 0..NOTIFY_MAX_PER_WINDOW
          /\ Windowed(posted, bot_window_started, bot_sent_in_window, now, NOTIFY_WINDOW_S,
                      NOTIFY_MAX_PER_WINDOW)
      BY <2>1, PathAssumption DEF PathTypeOK, EndpointInv, Logs
    <2>3. RoomFloodBounded
      BY <2>2, WindowBound DEF RoomFloodBounded
    <2>4. BotDropsForCause
      BY <2>1, EndpointWindow DEF BotDropsForCause
    <2>5. QED
      BY <2>3, <2>4 DEF BotThrottles
  <1>2. QED
    BY <1>1, PathAlways, PTL
=============================================================================
