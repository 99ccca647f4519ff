CONSTANTS
  a1 = a1
  a2 = a2
  g1 = g1
  g2 = g2
  prod = prod
  staging = staging
  Alias = {a1, a2}
  Env = {prod, staging}
  Served <- TwoServers
  Group = {g1}
  GroupOf <- OneGroup
  Chart = {a1}
  MaxRefresh = 1
  MaxTaps = 2
  MaxRestarts = 2
SPECIFICATION FairSpec
INVARIANT TypeOK
INVARIANT StoredCatalogueWhole
INVARIANT NoDuplicateFavourite
INVARIANT FavouritesOnDisk
PROPERTY LoadingEnds
PROPERTY ImplementsFavouriteSet
CHECK_DEADLOCK FALSE
