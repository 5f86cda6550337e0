SPECIFICATION Spec
CONSTANTS
  Names <- MCNames
  Spelling <- MCSpelling
  WellFormed <- MCWellFormed
  ServerOf <- MCServerOf
  Lower <- MCLower
  Valid <- MCValid
  Matches <- MCMatches
  Chars <- MCChars
  Capitals <- MCCapitals
  HostChars <- MCHostChars
  MAX_PATTERN_LEN = 17
  MAX_SUBJECT_LEN = 17
  MAX_WILDCARD_RUNS = 4
  ShortPatterns <- MCShortPatterns
  ShortWords <- MCShortWords
  StaticEntries <- MCStaticEntries
  RoomEntries <- MCRoomEntries
  MaxEntries = 4
INVARIANT TypeOK
INVARIANT StaticBaselineHolds
INVARIANT BotSeesRules
INVARIANT CompiledAsMeant
PROPERTY OnlyGrantsOpen
PROPERTY HigherRuleDecides
