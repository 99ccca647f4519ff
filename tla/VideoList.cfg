CONSTANTS
  a = a
  b = b
  a1 = a1
  a2 = a2
  b1 = b1
  None = None
  Alias = {a, b}
  Widget = {a1, a2, b1}
  AliasOf <- MCAliasOf
  MaxControllers = 3
  MaxOps = 4
SYMMETRY Cards
SPECIFICATION Spec
INVARIANT TypeOK
INVARIANT RegisteredIsLive
INVARIANT PlaysOnScreen
INVARIANT PlayingIsCurrent
INVARIANT OneInitialization
INVARIANT NoPlayerLost
PROPERTY StartsInSilence
CHECK_DEADLOCK FALSE
