CONSTANTS
  Txid = {7, 8}
  RestOf <- Rests
  MaxTries = 4
  MaxTears = 2
SPECIFICATION LogSpec
INVARIANTS
  RecentFound
  ExactlyLogged
  NothingForged
