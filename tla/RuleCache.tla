------------------------------ MODULE RuleCache ------------------------------
(***************************************************************************)
(* What PolicyStore promises the callbacks, without saying how: the rules  *)
(* in force are the static rules merged with one whole set of room rules   *)
(* that somebody entitled to had put in force, or the static rules alone   *)
(* as long as nothing could be read; an error never takes rules away; and  *)
(* a callback is answered with the rules in force at one moment, which it  *)
(* keeps until it is done.                                                 *)
(***************************************************************************)
EXTENDS Policy

CONSTANTS Tasks, Static, NoRules

VARIABLES
  offered,  \* the room rule sets in force in the room, now or earlier
  cached,   \* the rules in force here
  answer    \* the rules each callback works with

cacheVars == <<offered, cached, answer>>

CacheInit ==
  /\ offered \in SUBSET RuleSet
  /\ cached = NoRules
  /\ answer = [t \in Tasks |-> NoRules]

Offer ==
  /\ UNCHANGED <<cached, answer>>
  /\ offered \subseteq offered'
  /\ offered' \in SUBSET RuleSet

Load ==
  /\ UNCHANGED <<offered, answer>>
  /\ \E r \in offered : cached' = Merge(Static, r)

RunOnStatic ==
  /\ cached = NoRules
  /\ cached' = Static
  /\ UNCHANGED <<offered, answer>>

Answer(t) ==
  /\ cached # NoRules
  /\ answer' = [answer EXCEPT ![t] = cached]
  /\ UNCHANGED <<offered, cached>>

Release(t) ==
  /\ answer' = [answer EXCEPT ![t] = NoRules]
  /\ UNCHANGED <<offered, cached>>

Forget ==
  /\ cached' = NoRules
  /\ answer' = [t \in Tasks |-> NoRules]
  /\ UNCHANGED offered

CacheNext == Offer \/ Load \/ RunOnStatic \/ Forget \/ \E t \in Tasks : Answer(t) \/ Release(t)

CacheSpec == CacheInit /\ [][CacheNext]_cacheVars
=============================================================================
