CONSTANTS
  a1 = a1
  a2 = a2
  g1 = g1
  g2 = g2
  prod = prod
  staging = staging
  Alias = {a1, a2}
  Env = {prod, staging}
  Served <- TwoServers
  Group = {g1}
  GroupOf <- OneGroup
  Chart = {}
  MaxRefresh = 2
  MaxTaps = 0
  MaxRestarts = 0
SPECIFICATION Spec
INVARIANT NewEnvironmentShown
CHECK_DEADLOCK FALSE
