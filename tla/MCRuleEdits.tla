----------------------------- MODULE MCRuleEdits -----------------------------
(***************************************************************************)
(* A small universe of names for GlobRules: the family's own server, a     *)
(* school with a glob over its subdomains and one bad subdomain, a name    *)
(* that is not a user ID, and patterns the code refuses or has to compile  *)
(* with care.                                                              *)
(***************************************************************************)
EXTENDS GlobRules

\* A string as a word, and back: TLC takes a string for a sequence of characters.
W(string) == SubSeq([i \in 1..Len(string) |-> SubSeq(string, i, i)], 1, Len(string))
Text(word) ==
  LET upTo[i \in 0..Len(word)] == IF i = 0 THEN "" ELSE upTo[i - 1] \o word[i]
  IN upTo[Len(word)]

Written ==
  {"@kid:h.no", "@Kid:H.no", "@mum:h.no", "@pia:b.sk.no", "@tor:evil.sk.no",
   "@late:evil.sk.no:84", "junk", "@a b:h.no", "h.no", "b.sk.no", "evil.sk.no",
   "*.SK.no", "evil.*?*", "@???:*.sk.no", "@*:evil.sk.no", "@???:*.sk.no*?",
   "@*:*", "*.*", "*?*.??*", "*a*b*c*d*e", "@x:muchtoolongname"}
Named == Written \cup {Text(ServerPart(W(n))) : n \in {m \in Written : LooksLikeUser(W(m))}}
MCNames == Named \cup {Text(LowerWord(W(n))) : n \in Named}

MCCapitals == ("K" :> "k") @@ ("H" :> "h") @@ ("S" :> "s")
MCChars == UNION {Range(W(n)) : n \in MCNames} \cup {"x", "y", "z"}
MCHostChars ==
  {"a", "b", "c", "d", "e", "g", "h", "i", "j", "k", "l", "m", "n", "o", "s", "t", "u", "v",
   "H", "K", "S", "8", "4", ".", "-", "_", "*", "?", ":", "[", "]"}

\* What Glob computes for these names, in one record that TLC evaluates once.
Computed ==
  [spelling |-> [n \in MCNames |-> W(n)],
   lower |-> [n \in MCNames |-> Text(LowerWord(W(n)))],
   valid |-> [k \in Kinds |-> {n \in MCNames : Accepts(k, W(n))}],
   userIds |-> {n \in MCNames : LooksLikeUser(W(n)) /\ Len(n) <= MAX_SUBJECT_LEN},
   matches |-> {<<p, s>> \in MCNames \X MCNames : GlobMatches(W(p), W(s))}]
MCSpelling == Computed.spelling
MCLower == Computed.lower
MCValid == Computed.valid
MCWellFormed == Computed.userIds
MCMatches == Computed.matches
MCServerOf == [u \in MCWellFormed |-> Text(ServerPart(W(u)))]

MCShortPatterns == UNION {[1..n -> {"a", "*", "?"}] : n \in 0..5}
MCShortWords == UNION {[1..n -> {"a", "b"}] : n \in 0..5}

MCStaticEntries ==
  {<<"protected_user", "@Kid:H.no">>, <<"allowed_server", "h.no">>,
   <<"blocked_user", "@tor:evil.sk.no">>}
MCRoomEntries ==
  {<<"protected_user", "@pia:b.sk.no">>, <<"protected_user", "@a b:h.no">>,
   <<"allowed_user", "@tor:evil.sk.no">>, <<"allowed_user", "@???:*.sk.no">>,
   <<"allowed_user", "@*:*">>, <<"blocked_user", "@mum:h.no">>,
   <<"blocked_user", "@???:*.sk.no*?">>, <<"blocked_user", "@*:evil.sk.no">>,
   <<"blocked_user", "@x:muchtoolongname">>,
   <<"allowed_server", "*.SK.no">>, <<"allowed_server", "*.*">>,
   <<"allowed_server", "*?*.??*">>, <<"allowed_server", "junk">>,
   <<"blocked_server", "evil.*?*">>, <<"blocked_server", "*a*b*c*d*e">>,
   <<"blocked_server", "b.sk.no">>}
=============================================================================
