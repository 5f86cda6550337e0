SPECIFICATION Spec
CONSTANTS
  kid = kid
  pal = pal
  mum = mum
  bot = bot
  out = out
  troll = troll
  school = school
  key = key
  NoEntity = NoEntity
  NotAString = NotAString
  t1 = t1
  t2 = t2
  NoRules <- MCNoRules
  Removed <- MCRemoved
  Names <- MCNames
  WellFormed <- MCUsers
  ServerOf <- MCServerOf
  Lower <- MCLower
  Valid <- MCValid
  Matches <- MCMatches
  Static <- MCStatic
  Mine <- MCMine
  Senders <- OneSender
  Slots <- OneSlot
  Entities <- OneEntity
  LevelChoices <- BotLevels
  Operators = {}
  StartRoom <- ProtectedStart
  Tasks = {t1, t2}
  HasRoom = TRUE
  Watch = TRUE
  RefreshInterval = 2
  Latency = 1
  MaxVersions = 2
SYMMETRY TaskSymmetry
INVARIANT InvalidationHonoured
PROPERTY ProtectionLostOnlyByReading
PROPERTY FreshEnough
PROPERTY ImplementsRuleCache
