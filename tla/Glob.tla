-------------------------------- MODULE Glob --------------------------------
(***************************************************************************)
(* The character level of policy.py: what a Matrix glob matches, which     *)
(* patterns validate_pattern accepts, what a user ID looks like. A word is *)
(* a sequence of one-character strings. Newlines and the few letters whose *)
(* lower case is longer than themselves are not among the characters.      *)
(***************************************************************************)
EXTENDS Naturals, SequencesExt

CONSTANTS
  Chars,              \* the characters: strings of length one
  Capitals,           \* [capital letter -> its lower case]
  HostChars,          \* the characters of server names, wildcards included
  MAX_PATTERN_LEN,
  MAX_WILDCARD_RUNS

\* Lower case makes a character of a character.
ASSUME CharsAssumption == "" \notin Chars /\ \A c \in DOMAIN Capitals : Capitals[c] \in Chars

Wildcards == {"*", "?"}
LowerChar(c) == IF c \in DOMAIN Capitals THEN Capitals[c] ELSE c
LowerWord(w) == [i \in DOMAIN w |-> LowerChar(w[i])]

Has(w, c) == \E i \in DOMAIN w : w[i] = c
IsGlob(w) == \E c \in Wildcards : Has(w, c)
-----------------------------------------------------------------------------
(***************************************************************************)
(* glob_to_regex: a literal stays a literal, and every run of wildcards is *)
(* one counted repetition, ".{n,}" if it holds a star and ".{n}" if not.   *)
(***************************************************************************)
NoRun == [lit |-> "", least |-> 0, open |-> FALSE]
Literal(c) == [NoRun EXCEPT !.lit = LowerChar(c)]
IsRun(token) == token.lit = ""
Wider(run, c) ==
  [run EXCEPT !.least = IF c = "?" THEN @ + 1 ELSE @, !.open = @ \/ c = "*"]

ForgetfulTokenise(ts, c) ==
  IF c \notin Wildcards THEN Append(ts, Literal(c))
  ELSE IF ts # <<>> /\ IsRun(Last(ts)) THEN Front(ts) \o <<Wider(NoRun, c)>>
  ELSE Append(ts, Wider(NoRun, c))
Tokenise(ts, c) ==
  IF c \notin Wildcards THEN Append(ts, Literal(c))
  ELSE IF ts # <<>> /\ IsRun(Last(ts)) THEN Front(ts) \o <<Wider(Last(ts), c)>>
  ELSE Append(ts, Wider(NoRun, c))

Compiled(p) ==
  LET upTo[i \in 0..Len(p)] ==
        IF i = 0 THEN <<>> ELSE Tokenise(upTo[i - 1], p[i])
  IN upTo[Len(p)]

(***************************************************************************)
(* A word is read piece by piece: piece i, begun at position from, may end *)
(* at any position of spans[i][from].  Ends: where the last piece may end. *)
(***************************************************************************)
Ends(spans) ==
  LET upTo[i \in 0..Len(spans)] ==
        IF i = 0 THEN {0}
        ELSE LET begins == upTo[i - 1] IN UNION {spans[i][from] : from \in begins}
  IN upTo[Len(spans)]

\* The anchored, case-insensitive match of a compiled pattern.
Spans(token, w) ==
  [from \in 0..Len(w) |->
     IF IsRun(token)
     THEN {to \in from + token.least .. Len(w) : token.open \/ to = from + token.least}
     ELSE {to \in {from + 1} \cap 1..Len(w) : LowerChar(w[to]) = token.lit}]
RegexMatches(ts, w) == Len(w) \in Ends([i \in DOMAIN ts |-> Spans(ts[i], w)])

GlobMatches(p, w) == RegexMatches(Compiled(p), w)

(***************************************************************************)
(* What Matrix says of a glob: * stands for any characters and ? for one.  *)
(***************************************************************************)
Stretches(c, w) ==
  [from \in 0..Len(w) |->
     CASE c = "*" -> from .. Len(w)
       [] c = "?" -> {from + 1} \cap 1..Len(w)
       [] OTHER -> {to \in {from + 1} \cap 1..Len(w) : LowerChar(w[to]) = LowerChar(c)}]
Means(p, w) == Len(w) \in Ends([i \in DOMAIN p |-> Stretches(p[i], w)])
-----------------------------------------------------------------------------
UserProbes == {<<"@", "q", ":", "q", ".", "q">>, <<"@", "z", ":", "z", ".", "z">>}
ServerProbes == {<<"q", ".", "q">>, <<"z", ".", "z">>}

(***************************************************************************)
(* is_catch_all: nothing but wildcards, or matching two unrelated subjects *)
(* of the kind.                                                            *)
(***************************************************************************)
IsCatchAll(p, probes) ==
  \/ \A i \in DOMAIN p : p[i] \in Wildcards
  \/ \A probe \in probes : GlobMatches(p, probe)

WildcardRuns(p) ==
  LET ts == Compiled(p) IN Cardinality({i \in DOMAIN ts : IsRun(ts[i])})

\* What every pattern has to be, whatever its kind; " " is any whitespace.
Usable(p) ==
  /\ p # <<>> /\ Len(p) <= MAX_PATTERN_LEN
  /\ ~Has(p, " ")
  /\ WildcardRuns(p) <= MAX_WILDCARD_RUNS

LooksLikeUser(p) == p # <<>> /\ p[1] = "@" /\ Has(p, ":")
IsUserId(p) == LooksLikeUser(p) /\ Usable(p) /\ ~IsGlob(p)
LooksLikeServer(p) == p # <<>> /\ p[1] # "@" /\ \A i \in DOMAIN p : p[i] \in HostChars

\* validate_pattern accepts p for kind.
Accepts(kind, p) ==
  /\ Usable(p)
  /\ CASE kind = "protected_user" -> IsUserId(p)
       [] kind = "blocked_user" -> LooksLikeUser(p)
       [] kind = "allowed_user" -> LooksLikeUser(p) /\ ~IsCatchAll(p, UserProbes)
       [] kind = "blocked_server" -> LooksLikeServer(p)
       [] kind = "allowed_server" -> LooksLikeServer(p) /\ ~IsCatchAll(p, ServerProbes)

\* server_of, for the words it takes: what comes after the first colon.
ServerPart(w) ==
  LET colon == CHOOSE i \in DOMAIN w : w[i] = ":" /\ \A j \in 1..i - 1 : w[j] # ":"
  IN SubSeq(w, colon + 1, Len(w))
=============================================================================
