SPECIFICATION Spec
CONSTANTS
  mum = mum
  dad = dad
  guard = guard
  kid = kid
  KID = KID
  junk = junk
  plainKey = plainKey
  shoutKey = shoutKey
  handKey = handKey
  t1 = t1
  t2 = t2
  Names <- MCNames
  WellFormed = {}
  ServerOf <- MCServerOf
  Lower <- MCLower
  Valid <- MCValid
  Matches = {}
  People = {mum, dad}
  Guard = guard
  Local = {kid, KID, mum}
  Keys = {plainKey, shoutKey, handKey}
  KeyOf <- MCKeyOf
  Commands <- MCCommands
  LevelChoices <- MCLevels
  Removed = Removed
  Absent = Absent
  MAX_LEVEL = 100
  POWER_INFINITE = 101
  Versions = {"11", "12"}
  NO_CREATOR_POWER_VERSIONS = {"11"}
  CREATOR_POWER_VERSIONS = {"12"}
  NoCommand = NoCommand
  NoOne = NoOne
  Tasks = {t1, t2}
  Admins = {mum}
  HandKinds = {"protected_user"}
  MaxChanges = 2
SYMMETRY TaskSymmetry
INVARIANT TypeOK
INVARIANT RemovalComplete
INVARIANT AuthorityAgrees
PROPERTY ChangesWithRight
