------------------------------ MODULE RuleEdits ------------------------------
(***************************************************************************)
(* The rule logic under edits: entries of the control room are added and   *)
(* removed one at a time on top of the static configuration, and every     *)
(* reachable pair of rule sets is evaluated.  This is the whole of what    *)
(* policy.py promises about evaluation, without the cache around it.       *)
(***************************************************************************)
EXTENDS Policy, FiniteSets, Naturals

CONSTANTS
  StaticEntries,  \* the entries of homeserver.yaml
  RoomEntries,    \* the entries that may be written in the control room
  MaxEntries      \* bound: entries in the room at once

ASSUME EditsAssumption ==
  /\ StaticEntries \subseteq {e \in Kinds \X Names : e[2] \in Valid[e[1]]}
  /\ RoomEntries \subseteq Kinds \X Names
  /\ MaxEntries \in Nat

VARIABLE entries    \* active entries of the control room

Static == Build(StaticEntries)
Effective == Merge(Static, Build(entries))

Init == entries = {}

AddEntry(e) ==
  /\ e \notin entries
  /\ Cardinality(entries) < MaxEntries
  /\ entries' = entries \cup {e}

ClearEntry(e) ==
  /\ e \in entries
  /\ entries' = entries \ {e}

Next == \E e \in RoomEntries : AddEntry(e) \/ ClearEntry(e)

\* static_extra_lines: what the listing of the room does not show already.
KindlessStaticExtra(static, shown) ==
  {e \in Kinds \X Names : e[2] \in static[e[1]] /\ \A other \in shown : other[2] # e[2]}
StaticExtra(static, shown) == {e \in Kinds \X Names : e[2] \in static[e[1]]} \ shown

\* The bot's list, once the module has published the static rules.
Listed == entries \cup StaticExtra(ToPayload(Static), entries)

Spec == Init /\ [][Next]_entries
-----------------------------------------------------------------------------
\* Whatever the room may hold, what is in force is valid for its kind.
TypeOK ==
  /\ entries \subseteq RoomEntries
  /\ Effective \in RuleSet
  /\ \A k \in Kinds : Effective[k] \subseteq Valid[k]

(***************************************************************************)
(* The static baseline cannot be removed from the room (README): whatever  *)
(* entries the room holds, a statically protected user stays protected and *)
(* a statically blocked user stays blocked.                                *)
(***************************************************************************)
StaticBaselineHolds ==
  \A u \in Names :
    /\ IsProtected(Static, u) => IsProtected(Effective, u)
    /\ u \in WellFormed /\ Hit(Static, "blocked_user", u) => ~Allowed(Effective, u)

(***************************************************************************)
(* What the module publishes is what the bot evaluates: rebuilding a rule  *)
(* set from its payload gives the rule set back, although the entries go   *)
(* through validation and case folding a second time.                      *)
(***************************************************************************)
PayloadRoundTrip == FromPayload(ToPayload(Effective)) = Effective

(***************************************************************************)
(* The bot hides no rule from the family: each rule in force is in the     *)
(* list it shows, in some spelling of it, although the list is put         *)
(* together of the room's own entries and of what the module published.    *)
(***************************************************************************)
EverythingListed ==
  \A k \in Kinds : \A p \in Effective[k] :
    \E e \in Listed : e[1] = k /\ Stored(k, e[2]) = p

\* The bot answers and lists by the rules that are in force.
BotSeesRules == PayloadRoundTrip /\ EverythingListed

(***************************************************************************)
(* Only granting rules grant: an edit that opens the door to a user added  *)
(* an allow entry or cleared a block entry.                                *)
(***************************************************************************)
OnlyGrantsOpen ==
  [][\A u \in Names :
       ~Allowed(Effective, u) /\ Allowed(Effective', u) =>
         \/ \E e \in entries' \ entries : e[1] \in {"allowed_user", "allowed_server"}
         \/ \E e \in entries \ entries' : e[1] \in {"blocked_user", "blocked_server"}]_entries

(***************************************************************************)
(* The rule table of the README ("How rules are evaluated"), as what an    *)
(* edit can do: it changes the verdict on a user only if its own pattern   *)
(* matches them and no rule of a kind further up the table does, be it     *)
(* static or from the room.  So nothing at server level overturns a rule   *)
(* at user level, and no allow entry a block at its own level.             *)
(***************************************************************************)
FurtherUp(kind) ==
  CASE kind = "blocked_user" -> {}
    [] kind = "allowed_user" -> {"blocked_user"}
    [] kind = "blocked_server" -> {"blocked_user", "allowed_user"}
    [] OTHER -> RuleKinds \ {"allowed_server"}

Concerns(rs, kind, u) ==
  Hit(rs, kind, IF kind \in {"blocked_user", "allowed_user"} THEN u ELSE ServerOf[u])

HigherRuleDecides ==
  [][\A u \in WellFormed : \A e \in (entries \ entries') \cup (entries' \ entries) :
       \/ Allowed(Effective, u) <=> Allowed(Effective', u)
       \/ /\ e[1] \in RuleKinds
          /\ Concerns(Build({e}), e[1], u)
          /\ \A kind \in FurtherUp(e[1]) : ~Concerns(Effective, kind, u)]_entries
=============================================================================
