--------------------------- MODULE RuleEditsProofs ---------------------------
(***************************************************************************)
(* The properties of RuleEdits for every universe of names, every static   *)
(* configuration and any number of entries in the room; then those of      *)
(* GlobRules, from what Glob compiles of any pattern.                      *)
(***************************************************************************)
EXTENDS GlobRules, PolicyLemmas, SequenceTheorems, WellFoundedInduction

\* The rules in force are made of names their kinds accept.
LEMMA EffectiveTyped == Effective \in RuleSet /\ \A k \in Kinds : Effective[k] \subseteq Valid[k]
  <1>1. Canonical(Effective)
    BY BuildCanonical, MergeCanonical DEF Effective, Static
  <1>2. QED
    BY <1>1 DEF Canonical

(***************************************************************************)
(* The rules in force are always a rule set that came out of build(), made *)
(* of entries the room may hold: what is invalid is left out.              *)
(***************************************************************************)
THEOREM EditsTyped == Spec => []TypeOK
  <1>1. Init => TypeOK
    BY EffectiveTyped DEF Init, TypeOK
  <1>2. TypeOK /\ [Next]_entries => TypeOK'
    <2> SUFFICES ASSUME TypeOK, [Next]_entries PROVE TypeOK'
      OBVIOUS
    <2>1. (Effective \in RuleSet /\ \A k \in Kinds : Effective[k] \subseteq Valid[k])'
      <3>1. Canonical(Effective')
        BY BuildCanonical, MergeCanonical DEF Effective, Static
      <3>2. QED
        BY <3>1 DEF Canonical
    <2>2. ASSUME NEW e \in RoomEntries, AddEntry(e)
          PROVE  entries' \subseteq RoomEntries
      BY <2>2 DEF AddEntry, TypeOK
    <2>3. ASSUME NEW e \in RoomEntries, ClearEntry(e)
          PROVE  entries' \subseteq RoomEntries
      BY <2>3 DEF ClearEntry, TypeOK
    <2>4. CASE UNCHANGED entries
      BY <2>1, <2>4 DEF TypeOK
    <2>5. QED
      BY <2>1, <2>2, <2>3, <2>4 DEF Next, TypeOK
  <1>3. QED
    BY <1>1, <1>2, PTL DEF Spec

\* The verdict by the rules that concern a user, kind by kind.
LEMMA VerdictByKind ==
  ASSUME NEW rs, NEW u \in WellFormed
  PROVE  Allowed(rs, u) <=>
           /\ ~Concerns(rs, "blocked_user", u)
           /\ \/ Concerns(rs, "allowed_user", u)
              \/ ~Concerns(rs, "blocked_server", u) /\ Concerns(rs, "allowed_server", u)
  BY DEF Allowed, Evaluate, Concerns

(***************************************************************************)
(* An edit changes nothing of the rules in force but its own pattern, of   *)
(* its own kind.                                                           *)
(***************************************************************************)
LEMMA OneEdit ==
  ASSUME NEW e \in Kinds \X Names, AddEntry(e) \/ ClearEntry(e), NEW kind \in Kinds
  PROVE  /\ kind # e[1] => Effective'[kind] = Effective[kind]
         /\ Effective'[kind] \subseteq Effective[kind] \cup Build({e})[kind]
         /\ Effective[kind] \subseteq Effective'[kind] \cup Build({e})[kind]
  <1> DEFINE Entered(es) == {m \in Valid[kind] : <<kind, m>> \in es}
             Added(es) == {Stored(kind, m) : m \in Entered(es)}
  <1>1. \A es : Build(es)[kind] = Added(es)
    BY DEF Build
  <1>2. /\ Effective[kind] = Static[kind] \cup Added(entries)
        /\ Effective'[kind] = Static[kind] \cup Added(entries')
    BY <1>1 DEF Effective, Merge, Static
  <1>3. (entries' = entries \cup {e}) \/ (entries' = entries \ {e})
    BY DEF AddEntry, ClearEntry
  <1>4. ASSUME kind # e[1]
        PROVE  Effective'[kind] = Effective[kind]
    <2>1. \A m : <<kind, m>> # e
      BY <1>4
    <2>2. Entered(entries') = Entered(entries)
      BY <1>3, <2>1
    <2>3. QED
      BY <1>2, <2>2
  <1>5. Entered(entries') \subseteq Entered(entries) \cup Entered({e})
    BY <1>3
  <1>6. Entered(entries) \subseteq Entered(entries') \cup Entered({e})
    BY <1>3
  <1>7. /\ Added(entries') \subseteq Added(entries) \cup Added({e})
        /\ Added(entries) \subseteq Added(entries') \cup Added({e})
    <2> HIDE DEF Entered
    <2>1. QED
      BY <1>5, <1>6
  <1>8. QED
    BY <1>1, <1>2, <1>4, <1>7

(***************************************************************************)
(* An edit changes the verdict on a user only if its pattern matches them  *)
(* and no rule further up the table does.                                  *)
(***************************************************************************)
THEOREM TableOrderStands == Spec => HigherRuleDecides
  <1> DEFINE Decides(u, e) ==
        \/ Allowed(Effective, u) <=> Allowed(Effective', u)
        \/ /\ e[1] \in RuleKinds
           /\ Concerns(Build({e}), e[1], u)
           /\ \A kind \in FurtherUp(e[1]) : ~Concerns(Effective, kind, u)
  <1>1. ASSUME NEW u \in WellFormed, NEW e \in RoomEntries, AddEntry(e) \/ ClearEntry(e)
        PROVE  Decides(u, e)
    <2>0. e \in Kinds \X Names /\ e[1] \in Kinds
      BY EditsAssumption
    <2>1. ASSUME NEW kind \in Kinds, kind # e[1]
          PROVE  Concerns(Effective, kind, u) <=> Concerns(Effective', kind, u)
      <3>1. Effective'[kind] = Effective[kind]
        BY <1>1, <2>0, <2>1, OneEdit
      <3>2. QED
        BY <3>1 DEF Concerns, Hit
    <2>2. ASSUME ~Concerns(Build({e}), e[1], u)
          PROVE  Concerns(Effective, e[1], u) <=> Concerns(Effective', e[1], u)
      <3>1. /\ Effective'[e[1]] \subseteq Effective[e[1]] \cup Build({e})[e[1]]
            /\ Effective[e[1]] \subseteq Effective'[e[1]] \cup Build({e})[e[1]]
        BY <1>1, <2>0, OneEdit
      <3>2. QED
        BY <2>2, <3>1 DEF Concerns, Hit
    <2>3. RuleKinds \subseteq Kinds
      BY DEF Kinds
    <2>4. ASSUME \A kind \in RuleKinds : Concerns(Effective, kind, u) <=> Concerns(Effective', kind, u)
          PROVE  Allowed(Effective, u) <=> Allowed(Effective', u)
      BY <2>4, VerdictByKind DEF RuleKinds
    <2>5. CASE e[1] \notin RuleKinds \/ ~Concerns(Build({e}), e[1], u)
      BY <2>1, <2>2, <2>3, <2>4, <2>5
    <2>6. ASSUME e[1] \in RuleKinds, NEW kind \in FurtherUp(e[1]), Concerns(Effective, kind, u)
          PROVE  Allowed(Effective, u) <=> Allowed(Effective', u)
      <3>1. \A k \in RuleKinds \ {e[1]} :
              Concerns(Effective, k, u) <=> Concerns(Effective', k, u)
        BY <2>1, <2>3
      <3>2. CASE e[1] = "blocked_user"
        BY <2>6, <3>2 DEF FurtherUp
      <3>3. CASE e[1] = "allowed_user"
        BY <2>6, <3>1, <3>3, VerdictByKind DEF FurtherUp, RuleKinds
      <3>4. CASE e[1] = "blocked_server"
        BY <2>6, <3>1, <3>4, VerdictByKind DEF FurtherUp, RuleKinds
      <3>5. CASE e[1] = "allowed_server"
        BY <2>6, <3>1, <3>5, VerdictByKind DEF FurtherUp, RuleKinds
      <3>6. QED
        BY <2>6, <3>2, <3>3, <3>4, <3>5 DEF RuleKinds
    <2>7. QED
      BY <2>5, <2>6
  <1>2. ASSUME Next, NEW u \in WellFormed,
               NEW e \in (entries \ entries') \cup (entries' \ entries)
        PROVE  Decides(u, e)
    <2>1. PICK x \in RoomEntries : AddEntry(x) \/ ClearEntry(x)
      BY <1>2 DEF Next
    <2>2. x = e
      BY <2>1 DEF AddEntry, ClearEntry
    <2>3. QED
      BY <1>1, <2>1, <2>2
  <1>3. Next => \A u \in WellFormed : \A e \in (entries \ entries') \cup (entries' \ entries) :
                  Decides(u, e)
    BY <1>2
  <1>4. QED
    BY <1>3, PTL DEF Spec, HigherRuleDecides

(***************************************************************************)
(* No edit of the room weakens the static baseline.                        *)
(***************************************************************************)
THEOREM BaselineStands == Spec => []StaticBaselineHolds
  <1>1. Static \in RuleSet /\ Effective \in RuleSet
    BY BuildType, MergeType DEF Effective, Static
  <1>2. \A k \in Kinds : Static[k] \subseteq Effective[k]
    BY BuildType, MergeKeeps DEF Effective, Static
  <1>3. StaticBaselineHolds
    BY <1>1, <1>2, ContainingBaseline DEF StaticBaselineHolds
  <1>4. QED
    BY <1>3, PTL

(***************************************************************************)
(* The bot evaluates what the module published, whatever it published.     *)
(***************************************************************************)
THEOREM PublishedIsRebuilt == Spec => []PayloadRoundTrip
  <1>1. Canonical(Effective)
    BY BuildCanonical, MergeCanonical DEF Effective, Static
  <1>2. PayloadRoundTrip
    BY <1>1, RoundTrip DEF PayloadRoundTrip
  <1>3. QED
    BY <1>2, PTL

(***************************************************************************)
(* The bot's list names every rule in force, whatever the room holds.      *)
(***************************************************************************)
THEOREM ListHidesNothing == Spec => []EverythingListed
  <1>1. Canonical(Static)
    BY BuildCanonical DEF Static
  <1>2. ASSUME NEW k \in Kinds, NEW p \in Effective[k]
        PROVE  \E e \in Listed : e[1] = k /\ Stored(k, e[2]) = p
    <2>1. p \in Static[k] \/ p \in Build(entries)[k]
      BY DEF Effective, Merge
    <2>2. CASE p \in Static[k]
      <3>1. p \in Names /\ Stored(k, p) = p
        BY <1>1, <2>2, PolicyAssumption DEF Canonical, Stored, RuleSet
      <3>2. <<k, p>> \in Listed
        BY <2>2, <3>1 DEF Listed, StaticExtra, ToPayload
      <3>3. QED
        BY <3>1, <3>2
    <2>3. CASE p \in Build(entries)[k]
      <3>1. PICK n \in Names : <<k, n>> \in entries /\ p = Stored(k, n)
        BY <2>3, PolicyAssumption DEF Build
      <3>2. QED
        BY <3>1 DEF Listed
    <2>4. QED
      BY <2>1, <2>2, <2>3
  <1>3. EverythingListed
    BY <1>2 DEF EverythingListed
  <1>4. QED
    BY <1>3, PTL

(***************************************************************************)
(* The bot answers and lists by the rules that are in force.               *)
(***************************************************************************)
THEOREM BotSeesWhatIsInForce == Spec => []BotSeesRules
  BY PublishedIsRebuilt, ListHidesNothing, PTL DEF BotSeesRules

(***************************************************************************)
(* An edit opens the door to a user only by adding an allow entry or by    *)
(* clearing a block entry.                                                 *)
(***************************************************************************)
THEOREM GrantsOpen == Spec => OnlyGrantsOpen
  <1> DEFINE Opens(u) ==
        ~Allowed(Effective, u) /\ Allowed(Effective', u) =>
          \/ \E e \in entries' \ entries : e[1] \in {"allowed_user", "allowed_server"}
          \/ \E e \in entries \ entries' : e[1] \in {"blocked_user", "blocked_server"}
  <1>1. ASSUME NEW u \in Names
        PROVE  Opens(u)
    <2> SUFFICES ASSUME \A e \in entries' \ entries : e[1] \notin {"allowed_user", "allowed_server"},
                        \A e \in entries \ entries' : e[1] \notin {"blocked_user", "blocked_server"},
                        Allowed(Effective', u)
                 PROVE  Allowed(Effective, u)
      OBVIOUS
    <2>1. Effective \in RuleSet /\ Effective' \in RuleSet
      BY BuildType, MergeType DEF Effective, Static
    <2>2. \A k \in Kinds : /\ Effective[k] = Static[k] \cup Build(entries)[k]
                          /\ Effective'[k] = Static[k] \cup Build(entries')[k]
      BY DEF Effective, Merge, Static
    <2>3. ASSUME NEW k \in {"allowed_user", "allowed_server"}
          PROVE  Build(entries')[k] \subseteq Build(entries)[k]
      <3>1. \A m : <<k, m>> \in entries' => <<k, m>> \in entries
        OBVIOUS
      <3>2. QED
        BY <3>1 DEF Build, Kinds, RuleKinds
    <2>4. ASSUME NEW k \in {"blocked_user", "blocked_server"}
          PROVE  Build(entries)[k] \subseteq Build(entries')[k]
      <3>1. \A m : <<k, m>> \in entries => <<k, m>> \in entries'
        OBVIOUS
      <3>2. QED
        BY <3>1 DEF Build, Kinds, RuleKinds
    <2>5. {"allowed_user", "allowed_server", "blocked_user", "blocked_server"} \subseteq Kinds
      BY DEF Kinds, RuleKinds
    <2>6. /\ \A k \in {"allowed_user", "allowed_server"} : Effective'[k] \subseteq Effective[k]
          /\ \A k \in {"blocked_user", "blocked_server"} : Effective[k] \subseteq Effective'[k]
      BY <2>2, <2>3, <2>4, <2>5
    <2>7. QED
      BY <2>1, <2>6, AllowedMonotone
  <1>2. \A u \in Names : Opens(u)
    BY <1>1
  <1>3. QED
    BY <1>2, PTL DEF Spec, OnlyGrantsOpen
-----------------------------------------------------------------------------
\* Induction over the natural numbers, for the members of a set.
LEMMA NatSteps ==
  ASSUME NEW T, 0 \in T, \A n \in Nat : n \in T => n + 1 \in T
  PROVE  Nat \subseteq T
  <1> DEFINE Left == Nat \ T
  <1>1. SUFFICES ASSUME Left # {} PROVE FALSE
    OBVIOUS
  <1>2. \E x \in Left : \A y \in Left : ~(<<y, x>> \in OpToRel(<, Nat))
    BY <1>1, NatLessThanWellFounded, WFMin, Zenon
  <1>3. PICK x \in Left : \A y \in Left : ~(y < x)
    BY <1>2 DEF OpToRel
  <1>4. x # 0 /\ x - 1 \in Nat /\ x - 1 < x /\ x = (x - 1) + 1
    BY <1>3
  <1>5. x - 1 \in T
    BY <1>3, <1>4
  <1>6. QED
    BY <1>3, <1>4, <1>5

\* f is what step after step makes of init.
Unfolds(f, init, step, n) == f[0] = init /\ \A i \in 1..n : f[i] = step[i][f[i - 1]]

\* What is defined step by step exists: a recursive function of the module has a value.
LEMMA StepsUnfold ==
  ASSUME NEW D, NEW init \in D, NEW N \in Nat, NEW step \in [1..N -> [D -> D]]
  PROVE  \E f \in [0..N -> D] : Unfolds(f, init, step, N)
  <1> DEFINE T == {n \in Nat : n <= N => \E f \in [0..n -> D] : Unfolds(f, init, step, n)}
  <1>1. 0 \in T
    <2>1. [i \in 0..0 |-> init] \in [0..0 -> D] /\ Unfolds([i \in 0..0 |-> init], init, step, 0)
      BY DEF Unfolds
    <2>2. QED
      BY <2>1
  <1>2. ASSUME NEW n \in Nat, n \in T, n + 1 <= N
        PROVE  \E f \in [0..n + 1 -> D] : Unfolds(f, init, step, n + 1)
    <2>1. PICK f \in [0..n -> D] : Unfolds(f, init, step, n)
      BY <1>2
    <2>2. n + 1 \in 1..N /\ f[n] \in D
      BY <1>2
    <2>3. step[n + 1][f[n]] \in D
      BY <2>2
    <2> DEFINE g == [i \in 0..n + 1 |-> IF i = n + 1 THEN step[n + 1][f[n]] ELSE f[i]]
    <2>4. g \in [0..n + 1 -> D]
      BY <2>3
    <2>5. g[0] = init
      BY <2>1 DEF Unfolds
    <2>6. ASSUME NEW i \in 1..n + 1
          PROVE  g[i] = step[i][g[i - 1]]
      <3>1. CASE i = n + 1
        BY <3>1
      <3>2. CASE i # n + 1
        <4>1. i \in 1..n /\ i - 1 \in 0..n /\ i \in 0..n + 1 /\ i - 1 \in 0..n + 1 /\ i - 1 # n + 1
          BY <3>2
        <4>2. g[i] = f[i] /\ g[i - 1] = f[i - 1]
          BY <3>2, <4>1
        <4>3. QED
          BY <2>1, <4>1, <4>2 DEF Unfolds
      <3>3. QED
        BY <3>1, <3>2
    <2>7. Unfolds(g, init, step, n + 1)
      BY <2>5, <2>6 DEF Unfolds
    <2>8. QED
      BY <2>4, <2>7
  <1>3. \A n \in Nat : n \in T => n + 1 \in T
    BY <1>2
  <1>4. N \in T
    BY <1>1, <1>3, NatSteps
  <1>5. QED
    BY <1>4

\* What Ends says of the spans of pieces over a word of L characters.
SpanSeq(L) == Seq([0..L -> SUBSET (0..L)])
Reached(span, begins) == UNION {span[from] : from \in begins}
Row(f, spans) ==
  f = [i \in 0..Len(spans) |-> IF i = 0 THEN {0} ELSE Reached(spans[i], f[i - 1])]

\* The recursion of Ends has a solution,
LEMMA RowExists ==
  ASSUME NEW L \in Nat, NEW spans \in SpanSeq(L)
  PROVE  \E f : f \in [0..Len(spans) -> SUBSET (0..L)] /\ Row(f, spans)
  <1> DEFINE N == Len(spans)
             D == SUBSET (0..L)
             step == [i \in 1..N |-> [begins \in D |-> Reached(spans[i], begins)]]
  <1>1. N \in Nat /\ {0} \in D
    BY DEF SpanSeq
  <1>2. ASSUME NEW i \in 1..N, NEW begins \in D
        PROVE  Reached(spans[i], begins) \in D
    <2>1. spans[i] \in [0..L -> SUBSET (0..L)]
      BY DEF SpanSeq
    <2>2. QED
      BY <2>1 DEF Reached
  <1>3. step \in [1..N -> [D -> D]]
    BY <1>2
  <1>4. PICK f \in [0..N -> D] : Unfolds(f, {0}, step, N)
    <2> HIDE DEF step, N, D
    <2>1. QED
      BY <1>1, <1>3, StepsUnfold
  <1>5. ASSUME NEW i \in 1..N
        PROVE  f[i] = Reached(spans[i], f[i - 1])
    <2>1. i - 1 \in 0..N /\ f[i - 1] \in D
      BY <1>1
    <2>2. f[i] = step[i][f[i - 1]]
      BY <1>4 DEF Unfolds
    <2>3. QED
      BY <2>1, <2>2
  <1>6. f[0] = {0}
    BY <1>4 DEF Unfolds
  <1>7. Row(f, spans)
    <2> DEFINE g == [i \in 0..N |-> IF i = 0 THEN {0} ELSE Reached(spans[i], f[i - 1])]
    <2>1. \A i \in 0..N : f[i] = g[i]
      BY <1>1, <1>5, <1>6
    <2>2. f = g
      BY <2>1
    <2>3. QED
      BY <2>2 DEF Row
  <1>8. QED
    BY <1>7

\* and only one,
LEMMA RowsAgree ==
  ASSUME NEW L \in Nat, NEW spans \in SpanSeq(L), NEW f, NEW g, Row(f, spans), Row(g, spans)
  PROVE  f = g
  <1> DEFINE N == Len(spans)
             T == {n \in Nat : n <= N => f[n] = g[n]}
  <1>1. N \in Nat
    BY DEF SpanSeq
  <1>2. 0 \in T
    BY <1>1 DEF Row
  <1>3. ASSUME NEW n \in Nat, n \in T, n + 1 <= N
        PROVE  f[n + 1] = g[n + 1]
    <2>1. n + 1 \in 0..N /\ n + 1 # 0 /\ (n + 1) - 1 = n /\ f[n] = g[n]
      BY <1>1, <1>3
    <2>2. f[n + 1] = Reached(spans[n + 1], f[n]) /\ g[n + 1] = Reached(spans[n + 1], g[n])
      BY <2>1 DEF Row
    <2>3. QED
      BY <2>1, <2>2
  <1>4. \A n \in Nat : n \in T => n + 1 \in T
    BY <1>3
  <1>5. Nat \subseteq T
    BY <1>2, <1>4, NatSteps
  <1>6. \A n \in 0..N : f[n] = g[n]
    BY <1>1, <1>5
  <1>7. QED
    BY <1>6, Zenon DEF Row

\* so that any solution of it says what Ends is.
LEMMA EndsIsLast ==
  ASSUME NEW L \in Nat, NEW spans \in SpanSeq(L), NEW f, Row(f, spans)
  PROVE  Ends(spans) = f[Len(spans)]
  <1> DEFINE g == CHOOSE g : Row(g, spans)
  <1>1. Row(g, spans)
    BY RowExists
  <1>2. f = g
    BY <1>1, RowsAgree
  <1>3. Ends(spans) = g[Len(spans)]
    BY DEF Ends, Row, Reached
  <1>4. QED
    BY <1>2, <1>3

\* With no piece to read the word has not begun.
LEMMA EndsOfNone == Ends(<<>>) = {0}
  <1>1. <<>> \in SpanSeq(0) /\ Row([i \in 0..0 |-> {0}], <<>>)
    BY DEF SpanSeq, Row
  <1>2. QED
    BY <1>1, EndsIsLast

\* One piece more goes on from where the others end.
LEMMA EndsOfOneMore ==
  ASSUME NEW L \in Nat, NEW spans \in SpanSeq(L), NEW span \in [0..L -> SUBSET (0..L)]
  PROVE  /\ Ends(spans) \in SUBSET (0..L)
         /\ Ends(Append(spans, span)) = Reached(span, Ends(spans))
  <1> DEFINE N == Len(spans)
             more == Append(spans, span)
  <1>1. PICK f : f \in [0..N -> SUBSET (0..L)] /\ Row(f, spans)
    BY RowExists
  <1>2. N \in Nat /\ Ends(spans) = f[N]
    <2>1. N \in Nat
      BY DEF SpanSeq
    <2>2. Ends(spans) = f[Len(spans)]
      BY <1>1, EndsIsLast
    <2>3. QED
      BY <2>1, <2>2
  <1>3. more \in SpanSeq(L) /\ Len(more) = N + 1 /\ more[N + 1] = span
        /\ \A i \in 1..N : more[i] = spans[i]
    BY <1>2 DEF SpanSeq
  <1> HIDE DEF more, N
  <1> DEFINE g == [i \in 0..N + 1 |-> IF i = N + 1 THEN Reached(span, f[N]) ELSE f[i]]
             h == [i \in 0..N + 1 |-> IF i = 0 THEN {0} ELSE Reached(more[i], g[i - 1])]
  <1>4. ASSUME NEW i \in 0..N + 1
        PROVE  g[i] = h[i]
    <2>1. CASE i = N + 1
      BY <1>2, <1>3, <2>1
    <2>2. CASE i = 0
      BY <1>1, <1>2, <2>2 DEF Row, N
    <2>3. CASE i \in 1..N
      <3>1. i \in 0..N /\ i # 0 /\ i - 1 \in 0..N + 1 /\ i - 1 # N + 1 /\ i # N + 1
        BY <1>2, <2>3
      <3>2. f[i] = Reached(spans[i], f[i - 1])
        BY <1>1, <3>1 DEF Row, N
      <3>3. g[i] = f[i] /\ g[i - 1] = f[i - 1]
        BY <3>1
      <3>4. h[i] = Reached(more[i], g[i - 1])
        BY <3>1
      <3>5. QED
        BY <1>3, <2>3, <3>2, <3>3, <3>4
    <2>4. QED
      BY <1>2, <2>1, <2>2, <2>3
  <1>5. g = h
    BY <1>4
  <1>6. Row(g, more)
    BY <1>3, <1>5, Zenon DEF Row
  <1>7. Ends(more) = g[N + 1]
    BY <1>3, <1>6, EndsIsLast
  <1>8. QED
    BY <1>1, <1>2, <1>7 DEF more

\* What glob_to_regex appends: a literal or a run of wildcards.
Tokens == [lit : Chars \cup {""}, least : Nat, open : BOOLEAN]

\* Lower case leaves a character, which the empty string is not.
LEMMA CharsAreLetters ==
  ASSUME NEW c \in Chars
  PROVE  c # "" /\ LowerChar(c) \in Chars /\ LowerChar(c) # ""
  <1>1. LowerChar(c) \in Chars
    BY CharsAssumption DEF LowerChar
  <1>2. c # "" /\ LowerChar(c) # ""
    BY <1>1, CharsAssumption
  <1>3. QED
    BY <1>1, <1>2

\* The run that has not begun takes no character.
LEMMA NoRunIsToken == NoRun \in Tokens /\ IsRun(NoRun) /\ NoRun.least = 0 /\ NoRun.open = FALSE
  <1>1. NoRun \in Tokens
    BY DEF NoRun, Tokens
  <1>2. NoRun.lit = "" /\ NoRun.least = 0
    BY DEF NoRun
  <1>3. NoRun.open = FALSE
    BY DEF NoRun
  <1>4. QED
    BY <1>1, <1>2, <1>3 DEF IsRun

\* A literal is kept in lower case.
LEMMA LiteralIsToken ==
  ASSUME NEW c \in Chars
  PROVE  Literal(c) \in Tokens /\ Literal(c).lit = LowerChar(c)
  <1>1. LowerChar(c) \in Chars
    BY CharsAreLetters
  <1>2. Literal(c).lit = LowerChar(c)
    BY NoRunIsToken DEF Literal, Tokens
  <1>3. Literal(c) \in Tokens
    BY <1>1, NoRunIsToken DEF Literal, Tokens
  <1>4. QED
    BY <1>2, <1>3

\* A wildcard adds to a run one character, or the freedom to take more.
LEMMA WiderIsToken ==
  ASSUME NEW run \in Tokens, NEW c
  PROVE  /\ Wider(run, c) \in Tokens
         /\ Wider(run, c).lit = run.lit
         /\ Wider(run, c).least = IF c = "?" THEN run.least + 1 ELSE run.least
         /\ Wider(run, c).open = (run.open \/ c = "*")
  <1>1. Wider(run, c).lit = run.lit
    BY DEF Wider, Tokens
  <1>2. Wider(run, c).least = IF c = "?" THEN run.least + 1 ELSE run.least
    BY DEF Wider, Tokens
  <1>3. Wider(run, c).open = (run.open \/ c = "*")
    BY DEF Wider, Tokens
  <1>4. Wider(run, c) \in Tokens
    <2>1. (IF c = "?" THEN run.least + 1 ELSE run.least) \in Nat
      <3>1. run.least \in Nat
        BY DEF Tokens
      <3>2. run.least + 1 \in Nat
        BY <3>1
      <3>3. QED
        BY <3>1, <3>2, Zenon
    <2>2. (run.open \/ c = "*") \in BOOLEAN
      OBVIOUS
    <2>3. run.lit \in Chars \cup {""} /\ DOMAIN run = {"lit", "least", "open"}
      BY DEF Tokens
    <2>4. QED
      BY <2>1, <2>2, <2>3 DEF Wider, Tokens
  <1>5. QED
    BY <1>1, <1>2, <1>3, <1>4, Zenon

\* Compiling a character leaves a list of tokens.
LEMMA TokeniseTypes ==
  ASSUME NEW ts \in Seq(Tokens), NEW c \in Chars
  PROVE  Tokenise(ts, c) \in Seq(Tokens)
  <1>1. CASE c \notin Wildcards
    BY <1>1, LiteralIsToken DEF Tokenise
  <1>2. CASE c \in Wildcards /\ ~(ts # <<>> /\ IsRun(Last(ts)))
    BY <1>2, NoRunIsToken, WiderIsToken DEF Tokenise
  <1>3. CASE c \in Wildcards /\ ts # <<>> /\ IsRun(Last(ts))
    <2>1. Front(ts) \in Seq(Tokens) /\ Last(ts) \in Tokens
      BY <1>3 DEF Front, Last
    <2>2. <<Wider(Last(ts), c)>> \in Seq(Tokens)
      BY <1>3, <2>1, WiderIsToken
    <2>3. QED
      BY <1>3, <2>1, <2>2 DEF Tokenise
  <1>4. QED
    BY <1>1, <1>2, <1>3

\* A pattern is compiled character by character, whatever its length.
LEMMA CompiledStepwise ==
  ASSUME NEW p \in Seq(Chars)
  PROVE  \E f \in [0..Len(p) -> Seq(Tokens)] :
           /\ f[0] = <<>> /\ \A i \in 1..Len(p) : f[i] = Tokenise(f[i - 1], p[i])
           /\ Compiled(p) = f[Len(p)]
  <1> DEFINE N == Len(p)
             step == [i \in 1..N |-> [ts \in Seq(Tokens) |-> Tokenise(ts, p[i])]]
             IsIt(f) == f = [i \in 0..N |-> IF i = 0 THEN <<>> ELSE Tokenise(f[i - 1], p[i])]
  <1>1. N \in Nat /\ \A i \in 1..N : p[i] \in Chars
    OBVIOUS
  <1>2. step \in [1..N -> [Seq(Tokens) -> Seq(Tokens)]]
    BY <1>1, TokeniseTypes
  <1>3. PICK f \in [0..N -> Seq(Tokens)] : Unfolds(f, <<>>, step, N)
    <2>1. <<>> \in Seq(Tokens)
      OBVIOUS
    <2> HIDE DEF step, N
    <2>2. QED
      BY <1>1, <1>2, <2>1, StepsUnfold
  <1>4. IsIt(f)
    <2> DEFINE g == [i \in 0..N |-> IF i = 0 THEN <<>> ELSE Tokenise(f[i - 1], p[i])]
    <2>1. ASSUME NEW i \in 1..N
          PROVE  f[i] = g[i]
      <3>1. i \in 0..N /\ i # 0 /\ i - 1 \in 0..N
        BY <1>1
      <3>4. f[i - 1] \in Seq(Tokens)
        BY <3>1
      <3>2. f[i] = step[i][f[i - 1]]
        BY <1>3 DEF Unfolds
      <3>3. QED
        BY <3>1, <3>2, <3>4
    <2>2. f[0] = g[0]
      <3>1. 0 \in 0..N /\ f[0] = <<>>
        BY <1>1, <1>3 DEF Unfolds
      <3>2. QED
        BY <3>1
    <2>3. \A i \in 0..N : f[i] = g[i]
      <3>1. \A i \in 0..N : i = 0 \/ i \in 1..N
        BY <1>1
      <3> HIDE DEF g, N
      <3>2. QED
        BY <2>1, <2>2, <3>1
    <2>4. f = g
      BY <2>3
    <2>5. QED
      BY <2>4
  <1> DEFINE h == CHOOSE h : IsIt(h)
  <1>5. IsIt(h)
    BY <1>4
  <1>6. Compiled(p) = h[N]
    BY DEF Compiled
  <1>7. h[0] = <<>> /\ \A i \in 1..N : h[i] = Tokenise(h[i - 1], p[i])
    <2>1. \A i \in 0..N : h[i] = IF i = 0 THEN <<>> ELSE Tokenise(h[i - 1], p[i])
      BY <1>5
    <2>2. QED
      BY <1>1, <2>1
  <1>8. h \in [0..N -> Seq(Tokens)]
    <2> DEFINE T == {n \in Nat : n <= N => h[n] \in Seq(Tokens)}
    <2>1. 0 \in T
      <3>1. <<>> \in Seq(Tokens)
        OBVIOUS
      <3>3. h[0] \in Seq(Tokens)
        BY <1>7, <3>1, Zenon
      <3>2. QED
        BY <3>3
    <2>2. ASSUME NEW n \in Nat, n \in T, n + 1 <= N
          PROVE  h[n + 1] \in Seq(Tokens)
      <3>1. n + 1 \in 1..N /\ (n + 1) - 1 = n /\ h[n] \in Seq(Tokens)
        BY <1>1, <2>2
      <3>2. h[n + 1] = Tokenise(h[n], p[n + 1])
        BY <1>7, <3>1
      <3>3. QED
        BY <1>1, <3>1, <3>2, TokeniseTypes
    <2>3. \A n \in Nat : n \in T => n + 1 \in T
      BY <2>2
    <2>4. Nat \subseteq T
      BY <2>1, <2>3, NatSteps
    <2>5. \A n \in 0..N : h[n] \in Seq(Tokens)
      BY <1>1, <2>4
    <2>6. QED
      BY <1>5, <2>5
  <1>9. QED
    BY <1>6, <1>7, <1>8

Shapes(L) == [0..L -> SUBSET (0..L)]

\* Tokens and characters of a pattern end inside the word.
LEMMA SpansTyped ==
  ASSUME NEW w \in Seq(Chars), NEW token \in Tokens
  PROVE  Spans(token, w) \in Shapes(Len(w))
  <1>1. token.least \in Nat /\ Len(w) \in Nat
    <2>1. token.least \in Nat
      BY DEF Tokens
    <2>2. QED
      BY <2>1
  <1>2. ASSUME NEW from \in 0..Len(w)
        PROVE  Spans(token, w)[from] \subseteq 0..Len(w)
    BY <1>1 DEF Spans
  <1>3. QED
    BY <1>2 DEF Spans, Shapes

LEMMA StretchesTyped ==
  ASSUME NEW w \in Seq(Chars), NEW c
  PROVE  Stretches(c, w) \in Shapes(Len(w))
  <1>1. ASSUME NEW from \in 0..Len(w)
        PROVE  Stretches(c, w)[from] \subseteq 0..Len(w)
    BY DEF Stretches
  <1>2. QED
    BY <1>1 DEF Stretches, Shapes

\* A literal matches what its character stands for.
LEMMA LiteralStretch ==
  ASSUME NEW w \in Seq(Chars), NEW c \in Chars, c \notin Wildcards
  PROVE  Spans(Literal(c), w) = Stretches(c, w)
  <1>1. ~IsRun(Literal(c)) /\ Literal(c).lit = LowerChar(c)
    BY LiteralIsToken, CharsAreLetters DEF IsRun
  <1>2. c # "*" /\ c # "?"
    BY DEF Wildcards
  <1>3. ASSUME NEW from \in 0..Len(w)
        PROVE  Spans(Literal(c), w)[from] = Stretches(c, w)[from]
    BY <1>1, <1>2 DEF Spans, Stretches
  <1>4. QED
    BY <1>3 DEF Spans, Stretches

\* The run with one wildcard more matches what the run and the wildcard match in turn.
LEMMA RunStretch ==
  ASSUME NEW w \in Seq(Chars), NEW run \in Tokens, IsRun(run), NEW c \in Wildcards,
         NEW from \in 0..Len(w)
  PROVE  Spans(Wider(run, c), w)[from] = Reached(Stretches(c, w), Spans(run, w)[from])
  <1> DEFINE L == Len(w)
             m == run.least
             o == run.open
  <1>1. L \in Nat /\ m \in Nat
    <2>1. m \in Nat
      BY DEF Tokens
    <2>2. QED
      BY <2>1
  <1>2. Spans(run, w)[from] = {to \in from + m .. L : o \/ to = from + m}
    BY DEF Spans
  <1>3. /\ Wider(run, c).least = IF c = "?" THEN m + 1 ELSE m
        /\ Wider(run, c).open = (o \/ c = "*")
        /\ IsRun(Wider(run, c))
    BY WiderIsToken DEF IsRun
  <1>4. CASE c = "?"
    <2>1. Spans(Wider(run, c), w)[from] = {to \in from + (m + 1) .. L : o \/ to = from + (m + 1)}
      BY <1>3, <1>4 DEF Spans
    <2>2. \A mid \in 0..L : Stretches(c, w)[mid] = {mid + 1} \cap 1..L
      BY <1>4 DEF Stretches
    <2>3. ASSUME NEW to
          PROVE  to \in Spans(Wider(run, c), w)[from]
                   <=> \E mid \in Spans(run, w)[from] : to \in Stretches(c, w)[mid]
      <3>1. ASSUME to \in Spans(Wider(run, c), w)[from]
            PROVE  \E mid \in Spans(run, w)[from] : to \in Stretches(c, w)[mid]
        <4>1. /\ to - 1 \in from + m .. L /\ to - 1 \in 0..L /\ to \in 1..L
              /\ o \/ to - 1 = from + m
          BY <1>1, <2>1, <3>1
        <4>2. to - 1 \in Spans(run, w)[from] /\ to \in Stretches(c, w)[to - 1]
          BY <1>2, <2>2, <4>1
        <4>3. QED
          BY <4>2
      <3>2. ASSUME NEW mid \in Spans(run, w)[from], to \in Stretches(c, w)[mid]
            PROVE  to \in Spans(Wider(run, c), w)[from]
        BY <1>1, <1>2, <2>1, <2>2, <3>2
      <3>3. QED
        BY <3>1, <3>2
    <2>4. QED
      BY <2>3 DEF Reached
  <1>5. CASE c = "*"
    <2>1. Spans(Wider(run, c), w)[from] = from + m .. L
      BY <1>3, <1>5 DEF Spans
    <2>2. \A mid \in 0..L : Stretches(c, w)[mid] = mid .. L
      BY <1>5 DEF Stretches
    <2>3. ASSUME NEW to
          PROVE  to \in Spans(Wider(run, c), w)[from]
                   <=> \E mid \in Spans(run, w)[from] : to \in Stretches(c, w)[mid]
      <3>1. ASSUME to \in Spans(Wider(run, c), w)[from]
            PROVE  \E mid \in Spans(run, w)[from] : to \in Stretches(c, w)[mid]
        <4>1. from + m \in Spans(run, w)[from] /\ to \in Stretches(c, w)[from + m]
          BY <1>1, <1>2, <2>1, <2>2, <3>1
        <4>2. QED
          BY <4>1
      <3>2. ASSUME NEW mid \in Spans(run, w)[from], to \in Stretches(c, w)[mid]
            PROVE  to \in Spans(Wider(run, c), w)[from]
        BY <1>1, <1>2, <2>1, <2>2, <3>2
      <3>3. QED
        BY <3>1, <3>2
    <2>4. QED
      BY <2>3 DEF Reached
  <1>6. QED
    BY <1>4, <1>5 DEF Wildcards

\* A run of one wildcard matches what the wildcard stands for.
LEMMA NewRunStretch ==
  ASSUME NEW w \in Seq(Chars), NEW c \in Wildcards
  PROVE  Spans(Wider(NoRun, c), w) = Stretches(c, w)
  <1>1. ASSUME NEW from \in 0..Len(w)
        PROVE  Spans(Wider(NoRun, c), w)[from] = Stretches(c, w)[from]
    <2>1. Spans(NoRun, w)[from] = {from}
      BY NoRunIsToken DEF Spans
    <2>2. Spans(Wider(NoRun, c), w)[from] = Reached(Stretches(c, w), {from})
      <3>1. NoRun \in Tokens /\ IsRun(NoRun)
        BY NoRunIsToken
      <3>2. Spans(Wider(NoRun, c), w)[from] = Reached(Stretches(c, w), Spans(NoRun, w)[from])
        BY <3>1, RunStretch
      <3>3. QED
        BY <2>1, <3>2
    <2>3. QED
      BY <2>2 DEF Reached
  <1>2. QED
    BY <1>1 DEF Spans, Stretches

\* What a wider run reaches, it reaches by the run and one wildcard more.
LEMMA WiderReaches ==
  ASSUME NEW w \in Seq(Chars), NEW run \in Tokens, IsRun(run), NEW c \in Wildcards,
         NEW begins \in SUBSET (0..Len(w))
  PROVE  Reached(Spans(Wider(run, c), w), begins)
           = Reached(Stretches(c, w), Reached(Spans(run, w), begins))
  <1>1. \A from \in begins : Spans(Wider(run, c), w)[from]
                               = Reached(Stretches(c, w), Spans(run, w)[from])
    BY RunStretch
  <1>2. QED
    BY <1>1 DEF Reached

SpansOf(ts, w) == [i \in DOMAIN ts |-> Spans(ts[i], w)]

\* What the tokens of a pattern match in w, as Ends takes it.
LEMMA SpansOfTyped ==
  ASSUME NEW w \in Seq(Chars), NEW ts \in Seq(Tokens)
  PROVE  SpansOf(ts, w) \in SpanSeq(Len(w))
  <1>1. \A i \in 1..Len(ts) : Spans(ts[i], w) \in Shapes(Len(w))
    BY SpansTyped
  <1>2. Len(ts) \in Nat /\ DOMAIN ts = 1..Len(ts)
    OBVIOUS
  <1>3. SpansOf(ts, w) \in [1..Len(ts) -> Shapes(Len(w))]
    BY <1>1, <1>2 DEF SpansOf
  <1>4. QED
    BY <1>2, <1>3 DEF SpanSeq, Shapes

\* The last token of a pattern goes on from where the others end,
LEMMA SpansOfOneMore ==
  ASSUME NEW w \in Seq(Chars), NEW ts \in Seq(Tokens), NEW token \in Tokens
  PROVE  /\ Ends(SpansOf(ts, w)) \in SUBSET (0..Len(w))
         /\ Ends(SpansOf(Append(ts, token), w)) = Reached(Spans(token, w), Ends(SpansOf(ts, w)))
  <1> DEFINE old == SpansOf(ts, w)
             more == SpansOf(Append(ts, token), w)
  <1>1. old \in SpanSeq(Len(w)) /\ Spans(token, w) \in Shapes(Len(w)) /\ Len(w) \in Nat
    BY SpansOfTyped, SpansTyped
  <1>2. Len(old) = Len(ts) /\ Len(ts) \in Nat /\ old \in Seq(Shapes(Len(w)))
    BY <1>1 DEF SpansOf, SpanSeq, Shapes
  <1>3. more = Append(old, Spans(token, w))
    <2>1. more \in Seq(Shapes(Len(w))) /\ Len(more) = Len(ts) + 1
      <3>1. Append(ts, token) \in Seq(Tokens) /\ Len(Append(ts, token)) = Len(ts) + 1
        OBVIOUS
      <3>2. QED
        <4>1. more \in Seq(Shapes(Len(w)))
          BY <3>1, SpansOfTyped DEF SpanSeq, Shapes
        <4>2. DOMAIN more = 1..Len(ts) + 1
          BY <3>1 DEF SpansOf
        <4>3. QED
          BY <1>2, <4>1, <4>2
    <2>2. Append(old, Spans(token, w)) \in Seq(Shapes(Len(w)))
          /\ Len(Append(old, Spans(token, w))) = Len(ts) + 1
      BY <1>1, <1>2
    <2>3. ASSUME NEW i \in 1..Len(ts) + 1
          PROVE  more[i] = Append(old, Spans(token, w))[i]
      <3>1. more[i] = Spans(Append(ts, token)[i], w)
        BY <2>3 DEF SpansOf
      <3>2. CASE i = Len(ts) + 1
        BY <1>2, <3>1, <3>2
      <3>3. CASE i \in 1..Len(ts)
        <4>1. Append(ts, token)[i] = ts[i] /\ old[i] = Spans(ts[i], w)
          BY <3>3 DEF SpansOf
        <4>2. Append(old, Spans(token, w))[i] = old[i]
          BY <1>2, <3>3
        <4>3. QED
          BY <3>1, <4>1, <4>2
      <3>4. QED
        BY <1>2, <3>2, <3>3
    <2>4. QED
      BY <2>1, <2>2, <2>3, SeqEqual
  <1>4. QED
    BY <1>1, <1>3, EndsOfOneMore DEF Shapes

\* The first n characters of p, as a glob.
StretchesOf(p, n, w) == [i \in 1..n |-> Stretches(p[i], w)]

\* and so does its last character.
LEMMA StretchesOfOneMore ==
  ASSUME NEW w \in Seq(Chars), NEW p \in Seq(Chars), NEW n \in Nat, n < Len(p)
  PROVE  Ends(StretchesOf(p, n + 1, w)) = Reached(Stretches(p[n + 1], w), Ends(StretchesOf(p, n, w)))
  <1> DEFINE old == StretchesOf(p, n, w)
             more == StretchesOf(p, n + 1, w)
             last == Stretches(p[n + 1], w)
             S == Shapes(Len(w))
  <1>1. \A i \in 1..n + 1 : Stretches(p[i], w) \in S
    BY StretchesTyped
  <1>2. old \in Seq(S) /\ Len(old) = n
    BY <1>1 DEF StretchesOf
  <1>3. more \in Seq(S) /\ Len(more) = n + 1
    BY <1>1 DEF StretchesOf
  <1>4. last \in S
    BY <1>1
  <1>5. \A i \in 1..n : more[i] = old[i]
    BY DEF StretchesOf
  <1>6. more[n + 1] = last
    BY DEF StretchesOf
  <1> HIDE DEF old, more, last, S
  <1>7. Append(old, last) \in Seq(S) /\ Len(Append(old, last)) = n + 1
    BY <1>2, <1>4
  <1>8. \A i \in 1..n + 1 : more[i] = Append(old, last)[i]
    BY <1>2, <1>4, <1>5, <1>6
  <1>9. more = Append(old, last)
    BY <1>3, <1>7, <1>8, SeqEqual
  <1>10. Len(w) \in Nat /\ old \in SpanSeq(Len(w)) /\ last \in [0..Len(w) -> SUBSET (0..Len(w))]
    BY <1>2, <1>4 DEF SpanSeq, Shapes, S
  <1>11. Ends(Append(old, last)) = Reached(last, Ends(old))
    BY <1>10, EndsOfOneMore
  <1>12. QED
    BY <1>9, <1>11 DEF old, more, last

\* One more character compiled is one more character read.
LEMMA TokeniseReads ==
  ASSUME NEW w \in Seq(Chars), NEW ts \in Seq(Tokens), NEW c \in Chars
  PROVE  Ends(SpansOf(Tokenise(ts, c), w)) = Reached(Stretches(c, w), Ends(SpansOf(ts, w)))
  <1>1. CASE c \notin Wildcards
    <2>1. Tokenise(ts, c) = Append(ts, Literal(c)) /\ Literal(c) \in Tokens
      BY <1>1, LiteralIsToken DEF Tokenise
    <2>2. Spans(Literal(c), w) = Stretches(c, w)
      BY <1>1, LiteralStretch
    <2>3. QED
      BY <2>1, <2>2, SpansOfOneMore
  <1>2. CASE c \in Wildcards /\ ~(ts # <<>> /\ IsRun(Last(ts)))
    <2>1. Tokenise(ts, c) = Append(ts, Wider(NoRun, c)) /\ Wider(NoRun, c) \in Tokens
      <3>1. NoRun \in Tokens
        BY NoRunIsToken
      <3>2. QED
        BY <1>2, <3>1, WiderIsToken DEF Tokenise
    <2>2. Spans(Wider(NoRun, c), w) = Stretches(c, w)
      BY <1>2, NewRunStretch
    <2>3. QED
      BY <2>1, <2>2, SpansOfOneMore
  <1>3. CASE c \in Wildcards /\ ts # <<>> /\ IsRun(Last(ts))
    <2> DEFINE front == Front(ts)
               run == Last(ts)
               begins == Ends(SpansOf(front, w))
    <2>1. front \in Seq(Tokens) /\ run \in Tokens /\ ts = Append(front, run)
      BY <1>3 DEF Front, Last
    <2>2. Wider(run, c) \in Tokens
      BY <2>1, WiderIsToken
    <2>3. Tokenise(ts, c) = Append(front, Wider(run, c))
      <3>1. Tokenise(ts, c) = front \o <<Wider(run, c)>>
        BY <1>3 DEF Tokenise
      <3> HIDE DEF front, run
      <3>2. front \o <<Wider(run, c)>> = Append(front, Wider(run, c))
        BY <2>1, <2>2
      <3>3. QED
        BY <3>1, <3>2
    <2>4. IsRun(run)
      BY <1>3
    <2> HIDE DEF front, run
    <2>5. begins \in SUBSET (0..Len(w)) /\ Ends(SpansOf(ts, w)) = Reached(Spans(run, w), begins)
      BY <2>1, SpansOfOneMore
    <2>6. Ends(SpansOf(Append(front, Wider(run, c)), w)) = Reached(Spans(Wider(run, c), w), begins)
      BY <2>1, <2>2, SpansOfOneMore
    <2>7. Reached(Spans(Wider(run, c), w), begins)
            = Reached(Stretches(c, w), Reached(Spans(run, w), begins))
      BY <1>3, <2>1, <2>4, <2>5, WiderReaches
    <2>8. QED
      BY <2>3, <2>5, <2>6, <2>7
  <1>4. QED
    BY <1>1, <1>2, <1>3

(***************************************************************************)
(* glob_to_regex keeps the meaning of every pattern: counted repetitions   *)
(* match exactly what the wildcards of a run match one after another.      *)
(***************************************************************************)
THEOREM GlobMeaning ==
  ASSUME NEW p \in Seq(Chars), NEW w \in Seq(Chars)
  PROVE  GlobMatches(p, w) <=> Means(p, w)
  <1> DEFINE N == Len(p)
  <1>1. PICK f \in [0..N -> Seq(Tokens)] :
          /\ f[0] = <<>> /\ \A i \in 1..N : f[i] = Tokenise(f[i - 1], p[i])
          /\ Compiled(p) = f[N]
    BY CompiledStepwise
  <1> DEFINE T == {n \in Nat : n <= N =>
                     Ends(SpansOf(f[n], w)) = Ends(StretchesOf(p, n, w))}
  <1>2. 0 \in T
    <2>1. SpansOf(<<>>, w) = <<>>
      BY DEF SpansOf
    <2>2. StretchesOf(p, 0, w) = <<>>
      BY DEF StretchesOf
    <2>3. QED
      BY <1>1, <2>1, <2>2
  <1>3. ASSUME NEW n \in Nat, n \in T, n + 1 <= N
        PROVE  Ends(SpansOf(f[n + 1], w)) = Ends(StretchesOf(p, n + 1, w))
    <2>1. n + 1 \in 1..N /\ n \in 0..N /\ (n + 1) - 1 = n /\ n < N
      BY <1>3
    <2>2. f[n] \in Seq(Tokens) /\ p[n + 1] \in Chars
      BY <2>1
    <2>3. f[n + 1] = Tokenise(f[n], p[n + 1])
      BY <1>1, <2>1
    <2>4. Ends(SpansOf(f[n], w)) = Ends(StretchesOf(p, n, w))
      BY <1>3, <2>1
    <2>5. Ends(SpansOf(f[n + 1], w)) = Reached(Stretches(p[n + 1], w), Ends(SpansOf(f[n], w)))
      BY <2>2, <2>3, TokeniseReads
    <2>6. Ends(StretchesOf(p, n + 1, w))
            = Reached(Stretches(p[n + 1], w), Ends(StretchesOf(p, n, w)))
      BY <2>1, StretchesOfOneMore
    <2>7. QED
      BY <2>4, <2>5, <2>6
  <1>4. \A n \in Nat : n \in T => n + 1 \in T
    BY <1>3
  <1>5. Nat \subseteq T
    <2> HIDE DEF T
    <2>1. QED
      BY <1>2, <1>4, NatSteps
  <1>6. Ends(SpansOf(Compiled(p), w)) = Ends(StretchesOf(p, N, w))
    <2>1. N \in Nat
      OBVIOUS
    <2>2. N \in T
      BY <1>5, <2>1
    <2>3. QED
      BY <1>1, <2>1, <2>2
  <1>7. GlobMatches(p, w) <=> Len(w) \in Ends(SpansOf(Compiled(p), w))
    BY DEF GlobMatches, RegexMatches, SpansOf
  <1>8. Means(p, w) <=> Len(w) \in Ends(StretchesOf(p, N, w))
    <2>1. DOMAIN p = 1..N
      OBVIOUS
    <2>2. QED
      BY <2>1, Zenon DEF Means, StretchesOf
  <1>9. QED
    BY <1>6, <1>7, <1>8

(***************************************************************************)
(* The patterns in force match what Matrix says they match, and so does    *)
(* every other pattern.                                                    *)
(***************************************************************************)
THEOREM PatternsMeanWhatTheySay == Spec => []CompiledAsMeant
  <1>1. Effective \in RuleSet
    BY EffectiveTyped
  <1>2. ShortAgree
    BY SpellingAssumption, GlobMeaning DEF ShortAgree
  <1>3. ASSUME NEW p \in Names
        PROVE  Meant[p] = {s \in Names : <<p, s>> \in Matches}
    <2>1. \A s \in Names : <<p, s>> \in Matches <=> GlobMatches(Spelling[p], Spelling[s])
      BY SpellingAssumption
    <2>2. \A s \in Names : Spelling[p] \in Seq(Chars) /\ Spelling[s] \in Seq(Chars)
      BY SpellingAssumption
    <2>3. \A s \in Names : <<p, s>> \in Matches <=> Means(Spelling[p], Spelling[s])
      BY <2>1, <2>2, GlobMeaning
    <2>4. QED
      BY <2>3 DEF Meant
  <1>4. \A k \in RuleKinds : Effective[k] \subseteq Names
    BY <1>1 DEF RuleSet, Kinds
  <1>5. CompiledAsMeant
    BY <1>2, <1>3, <1>4 DEF CompiledAsMeant
  <1>6. QED
    BY <1>5, PTL
=============================================================================
