SPECIFICATION Spec
CONSTANTS
  kid = kid
  pal = pal
  mum = mum
  bot = bot
  out = out
  troll = troll
  school = school
  key = key
  NoEntity = NoEntity
  NotAString = NotAString
  t1 = t1
  t2 = t2
  NoRules <- MCNoRules
  Removed <- MCRemoved
  Names <- MCNames
  WellFormed <- MCUsers
  ServerOf <- MCServerOf
  Lower <- MCLower
  Valid <- MCValid
  Matches <- MCMatches
  Static <- MCStatic
  Mine <- MCMine
  Senders <- AuthoritySenders
  Slots <- AuthoritySlots
  Entities <- AuthorityEntities
  LevelChoices <- AuthorityLevels
  StartRoom <- AuthorityStart
  Operators = {mum}
  Tasks = {t1}
  HasRoom = TRUE
  Watch = FALSE
  RefreshInterval = 1
  Latency = 0
  MaxVersions = 3
INVARIANT TypeOK
INVARIANT BaselineServed
INVARIANT OnlyAuthorisedRules
INVARIANT NothingDropped
