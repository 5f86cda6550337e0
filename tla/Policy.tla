------------------------------- MODULE Policy -------------------------------
(***************************************************************************)
(* The pure rule logic of policy.py: the rule kinds, how entries become a  *)
(* RuleSet, how two rule sets merge and how another user is evaluated.     *)
(*                                                                         *)
(* User IDs, server names and glob patterns are members of one set, Names. *)
(* What the character-level code decides about them is given by constants: *)
(* which names are acceptable for a kind (validate_pattern), which pattern *)
(* matches which subject (the compiled regex), what a name folds to        *)
(* (str.lower) and what server a user ID names (server_of).                *)
(***************************************************************************)
CONSTANTS
  Names,       \* user IDs, server names and patterns, as they are written
  WellFormed,  \* the names server_of accepts, of at most MAX_SUBJECT_LEN characters
  ServerOf,    \* the server part of a well-formed user ID
  Lower,       \* str.lower
  Valid,       \* Valid[k]: the names validate_pattern(k, _) accepts
  Matches      \* <<pattern, subject>> pairs the compiled glob matches

RuleKinds == {"blocked_user", "allowed_user", "blocked_server", "allowed_server"}
Kinds == RuleKinds \cup {"protected_user"}

RuleSet == [Kinds -> SUBSET Names]

(***************************************************************************)
(* What the code relies on: lower() is idempotent and keeps a user ID      *)
(* valid, protected users are exact user IDs, and globs ignore case.       *)
(***************************************************************************)
ASSUME PolicyAssumption ==
  /\ WellFormed \subseteq Names
  /\ ServerOf \in [WellFormed -> Names]
  /\ Lower \in [Names -> Names]
  /\ \A n \in Names : Lower[Lower[n]] = Lower[n]
  /\ Valid \in [Kinds -> SUBSET Names]
  /\ \A n \in Valid["protected_user"] : Lower[n] \in Valid["protected_user"]
  /\ Matches \subseteq Names \X Names
-----------------------------------------------------------------------------
EMPTY == [k \in Kinds |-> {}]

\* RuleSet.build folds protected users to lower case and stores patterns as given.
Stored(k, n) == IF k = "protected_user" THEN Lower[n] ELSE n

\* Invalid entries are skipped (on_invalid), never fatal.
LaxBuild(entries) ==
  [k \in Kinds |-> {Stored(k, n) : n \in {m \in Names : <<k, m>> \in entries}}]
SwappedBuild(entries) ==
  LET field(k) == CASE k = "allowed_user" -> "blocked_user"
                    [] k = "blocked_user" -> "allowed_user"
                    [] OTHER -> k
  IN [k \in Kinds |-> {Stored(k, n) : n \in {m \in Valid[k] : <<field(k), m>> \in entries}}]
Build(entries) ==
  [k \in Kinds |-> {Stored(k, n) : n \in {m \in Valid[k] : <<k, m>> \in entries}}]

OverridingMerge(rs, other) ==
  [k \in Kinds |-> IF other[k] = {} THEN rs[k] ELSE other[k]]
Merge(rs, other) == [k \in Kinds |-> rs[k] \cup other[k]]

IsProtected(rs, u) == Lower[u] \in rs["protected_user"]

Hit(rs, k, subject) == \E p \in rs[k] : <<p, subject>> \in Matches

(***************************************************************************)
(* RuleSet.evaluate: the kind of the deciding rule, the first that matches *)
(* in the code's order; "default-deny" when none does or u is malformed.   *)
(***************************************************************************)
LenientEvaluate(rs, u) ==
  IF u \notin WellFormed THEN "default-deny"
  ELSE IF Hit(rs, "blocked_user", u) THEN "blocked_user"
  ELSE IF Hit(rs, "allowed_user", u) THEN "allowed_user"
  ELSE IF Hit(rs, "allowed_server", ServerOf[u]) THEN "allowed_server"
  ELSE IF Hit(rs, "blocked_server", ServerOf[u]) THEN "blocked_server"
  ELSE "default-deny"
Evaluate(rs, u) ==
  IF u \notin WellFormed THEN "default-deny"
  ELSE IF Hit(rs, "blocked_user", u) THEN "blocked_user"
  ELSE IF Hit(rs, "allowed_user", u) THEN "allowed_user"
  ELSE IF Hit(rs, "blocked_server", ServerOf[u]) THEN "blocked_server"
  ELSE IF Hit(rs, "allowed_server", ServerOf[u]) THEN "allowed_server"
  ELSE "default-deny"

Allowed(rs, u) == Evaluate(rs, u) \in {"allowed_user", "allowed_server"}

(***************************************************************************)
(* to_payload / from_payload: what the module publishes and what the bot   *)
(* rebuilds from it, through the same validation as any other entries.     *)
(***************************************************************************)
LossyToPayload(rs) == [k \in Kinds |-> IF k = "blocked_server" THEN {} ELSE rs[k]]
ToPayload(rs) == [k \in Kinds |-> rs[k]]
FromPayload(payload) == Build({e \in Kinds \X Names : e[2] \in payload[e[1]]})
=============================================================================
