------------------------------ MODULE GlobRules ------------------------------
(***************************************************************************)
(* RuleEdits over names that are spelled: the constants of Policy that     *)
(* stand for the character-level code are what Glob computes of it.        *)
(***************************************************************************)
EXTENDS RuleEdits, Glob

CONSTANTS
  Spelling,          \* [Names -> words]
  MAX_SUBJECT_LEN,
  ShortPatterns, ShortWords   \* bounded words for the comparison of two matchers

ASSUME SpellingAssumption ==
  /\ Spelling \in [Names -> Seq(Chars)] /\ IsInjective(Spelling)
  /\ \A k \in Kinds : Valid[k] = {n \in Names : Accepts(k, Spelling[n])}
  /\ \A n \in Names : Spelling[Lower[n]] = LowerWord(Spelling[n])
  /\ WellFormed =
       {n \in Names : LooksLikeUser(Spelling[n]) /\ Len(Spelling[n]) <= MAX_SUBJECT_LEN}
  /\ \A u \in WellFormed : Spelling[ServerOf[u]] = ServerPart(Spelling[u])
  /\ \A p, s \in Names : <<p, s>> \in Matches <=> GlobMatches(Spelling[p], Spelling[s])
  /\ ShortPatterns \cup ShortWords \subseteq Seq(Chars)

(***************************************************************************)
(* policy.py compiles runs of wildcards into counted repetitions to keep   *)
(* matching free of backtracking; that must not change what a pattern      *)
(* means, neither for the patterns in force nor for any short one.         *)
(***************************************************************************)
Meant == [p \in Names |-> {s \in Names : Means(Spelling[p], Spelling[s])}]
ShortAgree ==
  \A p \in ShortPatterns, w \in ShortWords : GlobMatches(p, w) <=> Means(p, w)
CompiledAsMeant ==
  /\ ShortAgree
  /\ \A k \in RuleKinds : \A p \in Effective[k] :
       Meant[p] = {s \in Names : <<p, s>> \in Matches}
=============================================================================
