-------------------------------- MODULE MCBot --------------------------------
(***************************************************************************)
(* Instances of Bot: two parents, each of whom may lose the power to       *)
(* manage protected users, a room from before version 12 and a later one,  *)
(* and one account written in two spellings.                               *)
(***************************************************************************)
EXTENDS Bot, TLC

CONSTANTS
  mum, dad, guard,
  kid, KID, junk,        \* one account in two spellings; not a user ID
  plainKey, shoutKey, handKey,
  t1, t2

MCNames == {kid, KID, junk, mum}
MCServerOf == [u \in {} |-> junk]
MCLower == [n \in MCNames |-> IF n = KID THEN kid ELSE n]
MCValid == [k \in Kinds |-> {kid, KID, mum}]
MCKeyOf == [n \in MCNames |-> IF n = KID THEN shoutKey ELSE IF n = kid THEN plainKey ELSE handKey]
OneKind == "protected_user"
MCCommands == {[verb |-> v, kind |-> OneKind, entity |-> e] : v \in {"add", "remove"}, e \in {kid, KID}}
              \cup {[verb |-> "add", kind |-> OneKind, entity |-> e] : e \in {junk, mum}}

\* The power level event gives these levels to mum, dad and the bot.
Listing(m, d, g) == (mum :> m) @@ (dad :> d) @@ (guard :> g)
Content(users, default, needed, state) ==
  [users |-> users, users_default |-> default,
   events |-> [k \in Kinds |-> IF k = OneKind THEN needed ELSE Absent],
   state_default |-> state]
Old(content) == [content |-> content, creator |-> dad, extra |-> {}, version |-> "11"]
New(content) == [content |-> content, creator |-> mum, extra |-> {guard}, version |-> "12"]
MCLevels ==
  {Old(Content(Listing(50, 100, 50), Absent, Absent, Absent)),
   Old(Content(Listing(Absent, Absent, 50), 0, Absent, 50)),
   Old(Content(Listing(60, 0, Absent), 50, 60, 100)),
   Old(Absent),
   New(Content(Listing(Absent, Absent, Absent), Absent, Absent, Absent)),
   New(Content(Listing(Absent, 50, Absent), -1, Absent, 50))}
TaskSymmetry == Permutations(Tasks)
=============================================================================
