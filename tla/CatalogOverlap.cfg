CONSTANTS
  a1 = a1
  a2 = a2
  g1 = g1
  g2 = g2
  prod = prod
  staging = staging
  Alias = {a1, a2}
  Env = {prod}
  Served <- OneServer
  Group = {g1, g2}
  GroupOf <- OwnGroup
  Chart = {}
  MaxRefresh = 2
  MaxTaps = 2
  MaxRestarts = 0
SPECIFICATION Spec
INVARIANT StoredCatalogueWhole
INVARIANT NoDuplicateFavourite
INVARIANT FavouriteShowsHeart
INVARIANT FavouritesOnDisk
INVARIANT ShownIsStored
PROPERTY CatalogueStays
PROPERTY ImplementsFavouriteSet
CHECK_DEADLOCK FALSE
