CONSTANTS
  m1 = m1
  m2 = m2
  m3 = m3
  d1 = d1
  p1 = p1
  Msg = {m1, m2, m3}
  Key = {d1}
  Page = {p1}
  Txn = {1, 2}
  Load = {1, 2}
  MaxAttempts = 2
  NoData <- Empty
  Before <- Stores
SPECIFICATION Spec
INVARIANT RemovesSpecificMessage
CHECK_DEADLOCK FALSE
