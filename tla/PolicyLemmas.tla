---------------------------- MODULE PolicyLemmas ----------------------------
(***************************************************************************)
(* Facts about the operators of Policy, for every universe of names.       *)
(***************************************************************************)
EXTENDS Policy, TLAPS

(***************************************************************************)
(* What RuleSet.build stores is a name, and one the kind accepts.          *)
(***************************************************************************)
LEMMA StoredValid ==
  ASSUME NEW k \in Kinds, NEW n \in Valid[k]
  PROVE  Stored(k, n) \in Valid[k] /\ Stored(k, n) \in Names
  <1>1. n \in Names /\ Valid[k] \subseteq Names
    BY PolicyAssumption
  <1>2. CASE k = "protected_user"
    BY <1>1, <1>2, PolicyAssumption DEF Stored
  <1>3. CASE k # "protected_user"
    BY <1>1, <1>3 DEF Stored
  <1>4. QED
    BY <1>2, <1>3

(***************************************************************************)
(* build() returns a rule set whatever entries it is given: the invalid    *)
(* ones are skipped.                                                       *)
(***************************************************************************)
LEMMA BuildType == \A entries : Build(entries) \in RuleSet
  <1> TAKE entries
  <1>1. ASSUME NEW k \in Kinds
        PROVE  {Stored(k, n) : n \in {m \in Valid[k] : <<k, m>> \in entries}} \subseteq Names
    BY StoredValid
  <1>2. QED
    BY <1>1 DEF Build, RuleSet

\* merge() returns a rule set.
LEMMA MergeType ==
  ASSUME NEW rs \in RuleSet, NEW other \in RuleSet
  PROVE  Merge(rs, other) \in RuleSet
  BY DEF Merge, RuleSet

\* merge() keeps every rule of its first argument.
LEMMA MergeKeeps ==
  ASSUME NEW rs \in RuleSet, NEW other \in RuleSet, NEW k \in Kinds
  PROVE  rs[k] \subseteq Merge(rs, other)[k]
  BY DEF Merge, RuleSet

(***************************************************************************)
(* A rule set that contains another one protects at least the same users   *)
(* and refuses at least the users its user blocks refuse.                  *)
(***************************************************************************)
LEMMA ContainingBaseline ==
  ASSUME NEW base \in RuleSet, NEW rs \in RuleSet,
         \A k \in Kinds : base[k] \subseteq rs[k],
         NEW u \in Names
  PROVE  /\ IsProtected(base, u) => IsProtected(rs, u)
         /\ u \in WellFormed /\ Hit(base, "blocked_user", u) => ~Allowed(rs, u)
  <1>1. base["protected_user"] \subseteq rs["protected_user"]
        /\ base["blocked_user"] \subseteq rs["blocked_user"]
    BY DEF Kinds, RuleKinds
  <1>2. IsProtected(base, u) => IsProtected(rs, u)
    BY <1>1 DEF IsProtected
  <1>3. ASSUME u \in WellFormed, Hit(base, "blocked_user", u)
        PROVE  ~Allowed(rs, u)
    <2>1. Hit(rs, "blocked_user", u)
      BY <1>1, <1>3 DEF Hit
    <2>2. Evaluate(rs, u) = "blocked_user"
      BY <1>3, <2>1 DEF Evaluate
    <2>3. QED
      BY <2>2 DEF Allowed
  <1>4. QED
    BY <1>2, <1>3

(***************************************************************************)
(* Only allow rules open the door and only block rules shut it: with fewer *)
(* allow rules and more block rules nobody new is allowed.                 *)
(***************************************************************************)
LEMMA AllowedMonotone ==
  ASSUME NEW rs \in RuleSet, NEW tighter \in RuleSet, NEW u \in Names,
         \A k \in {"allowed_user", "allowed_server"} : tighter[k] \subseteq rs[k],
         \A k \in {"blocked_user", "blocked_server"} : rs[k] \subseteq tighter[k],
         Allowed(tighter, u)
  PROVE  Allowed(rs, u)
  <1>1. \A s : /\ Hit(tighter, "allowed_user", s) => Hit(rs, "allowed_user", s)
               /\ Hit(tighter, "allowed_server", s) => Hit(rs, "allowed_server", s)
               /\ Hit(rs, "blocked_user", s) => Hit(tighter, "blocked_user", s)
               /\ Hit(rs, "blocked_server", s) => Hit(tighter, "blocked_server", s)
    BY DEF Hit
  <1>2. QED
    BY <1>1 DEF Allowed, Evaluate

(***************************************************************************)
(* Rule sets that came out of build(): every pattern is one its kind       *)
(* accepts and protected users are folded to lower case.                   *)
(***************************************************************************)
Canonical(rs) ==
  /\ rs \in RuleSet
  /\ \A k \in Kinds : rs[k] \subseteq Valid[k]
  /\ \A n \in rs["protected_user"] : Lower[n] = n

\* What build() returns is canonical.
LEMMA BuildCanonical == \A entries : Canonical(Build(entries))
  <1> TAKE entries
  <1> DEFINE rs == Build(entries)
  <1>1. rs \in RuleSet
    BY BuildType
  <1>2. ASSUME NEW k \in Kinds
        PROVE  rs[k] \subseteq Valid[k]
    BY StoredValid DEF Build
  <1>3. ASSUME NEW n \in rs["protected_user"]
        PROVE  Lower[n] = n
    <2>1. "protected_user" \in Kinds
      BY DEF Kinds
    <2>2. PICK m \in Valid["protected_user"] : n = Stored("protected_user", m)
      BY <2>1, <1>3 DEF Build
    <2>3. m \in Names /\ n = Lower[m]
      BY <2>1, <2>2, PolicyAssumption DEF Stored
    <2>4. QED
      BY <2>3, PolicyAssumption
  <1>4. QED
    BY <1>1, <1>2, <1>3 DEF Canonical

\* What is merged of canonical rule sets is canonical.
LEMMA MergeCanonical ==
  ASSUME NEW rs, NEW other, Canonical(rs), Canonical(other)
  PROVE  Canonical(Merge(rs, other))
  <1>1. Merge(rs, other) \in RuleSet
    BY MergeType DEF Canonical
  <1>2. \A k \in Kinds : Merge(rs, other)[k] = rs[k] \cup other[k]
    BY DEF Merge
  <1>3. "protected_user" \in Kinds
    BY DEF Kinds
  <1>4. QED
    BY <1>1, <1>2, <1>3 DEF Canonical

(***************************************************************************)
(* The bot rebuilds exactly the rule set the module published, although    *)
(* from_payload validates and folds a second time what to_payload wrote.   *)
(***************************************************************************)
THEOREM RoundTrip ==
  ASSUME NEW rs, Canonical(rs)
  PROVE  FromPayload(ToPayload(rs)) = rs
  <1> DEFINE sent == {e \in Kinds \X Names : e[2] \in ToPayload(rs)[e[1]]}
  <1>1. FromPayload(ToPayload(rs)) = Build(sent)
    BY DEF FromPayload
  <1>2. ASSUME NEW k \in Kinds
        PROVE  {Stored(k, n) : n \in {m \in Valid[k] : <<k, m>> \in sent}} = rs[k]
    <2>1. rs[k] \subseteq Valid[k] /\ Valid[k] \subseteq Names
      BY PolicyAssumption DEF Canonical
    <2>2. \A m \in Names : <<k, m>> \in sent <=> m \in rs[k]
      BY DEF ToPayload
    <2>3. {m \in Valid[k] : <<k, m>> \in sent} = rs[k]
      BY <2>1, <2>2
    <2>4. \A n \in rs[k] : Stored(k, n) = n
      BY DEF Stored, Canonical
    <2>5. {Stored(k, n) : n \in rs[k]} = rs[k]
      BY <2>4
    <2>6. QED
      BY <2>3, <2>5, Zenon
  <1>3. Build(sent) = [k \in Kinds |-> rs[k]]
    BY <1>2 DEF Build
  <1>4. rs = [k \in Kinds |-> rs[k]]
    BY DEF Canonical, RuleSet
  <1>5. QED
    BY <1>1, <1>3, <1>4
=============================================================================
