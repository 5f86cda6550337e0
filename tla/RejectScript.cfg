SPECIFICATION Spec
CONSTANTS
  kid = kid
  pal = pal
  lobby = lobby
  den = den
  Users = {kid, pal}
  Rooms = {lobby, den}
  UserLists <- MCUserLists
  NoRoom = NoRoom
INVARIANT TypeOK
INVARIANT CleanExit
INVARIANT TokensRevoked
PROPERTY Terminates
