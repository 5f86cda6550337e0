------------------------------ MODULE MCNotices ------------------------------
(***************************************************************************)
(* Instances of NoticePath: more blocked actions than two windows let      *)
(* through, configurations with every combination of what can be right or  *)
(* wrong with a key, a bot whose secret and room may be missing.           *)
(***************************************************************************)
EXTENDS NoticePath, TLC

CONSTANTS
  a, b, c, d, e,
  value,                    \* a room ID, a user ID or a URL where one belongs
  s1, s2,                   \* secrets
  first, second, blank, gone

KeySymmetry == Permutations(Keys)

MCFileText == first :> s1 @@ second :> s2 @@ blank :> Blank @@ gone :> Unreadable

MCConfigs ==
  [others : {value, Ill}, control_room : {Unset, value, Ill},
   notify_room : {Unset, TRUE, FALSE, Ill}, notify_user : {Unset, value, Ill},
   notify_via : {Unset, "room", "bot", Ill}, notify_url : {Unset, Blank, value, Ill},
   notify_secret : {Unset, Blank, s1, Ill},
   notify_secret_path : {Unset, Blank, Ill, first, second, blank, gone}]

MCBotConfigs ==
  {[notify_secret |-> s1, control_room |-> TRUE], [notify_secret |-> Blank, control_room |-> TRUE],
   [notify_secret |-> s1, control_room |-> FALSE]}
=============================================================================
