CONSTANTS
  a = a
  b = b
  a1 = a1
  a2 = a2
  b1 = b1
  None = None
  Alias = {a, b}
  Widget = {a1, a2, b1}
  AliasOf <- MCAliasOf
  MaxControllers = 2
  MaxOps = 2
SPECIFICATION Spec
INVARIANT OthersArePaused
CHECK_DEADLOCK FALSE
