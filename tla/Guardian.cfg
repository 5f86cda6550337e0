SPECIFICATION Spec
CONSTANTS
  kid = kid
  pal = pal
  aunt = aunt
  troll = troll
  home = home
  away = away
  lobby = lobby
  t1 = t1
  t2 = t2
  NoOne = NoOne
  Names <- MCNames
  WellFormed <- MCUsers
  ServerOf <- MCServerOf
  Lower <- MCLower
  Valid <- MCValid
  Matches <- MCMatches
  Static <- MCStatic
  NoRules <- MCNoRules
  NoRequest <- MCNoRequest
  Users <- MCUsers
  Local <- MCLocal
  ChatRooms = {lobby}
  Offers <- MCOffers
  Tasks = {t1, t2}
  Requests <- MCRequests
  EarlyMembers <- EarlyRooms
  DryRuns = {TRUE, FALSE}
  UninvitedJoins = "known_rooms"
  MaxMoves = 1
SYMMETRY TaskSymmetry
INVARIANT TypeOK
INVARIANT OnlyProtectedRefused
INVARIANT PassedOnGoodGrounds
INVARIANT ConfigAlwaysRefused
PROPERTY DryRunOnlyWatches
