CONSTANTS
  boss = boss
  guest = guest
  Nobody = Nobody
  Account = {boss, guest}
  Admins = {boss}
  Developer = boss
  MaxChanges = 2
  MaxHandlers = 3
  MaxRestarts = 0
SPECIFICATION Spec
INVARIANT SignedOutIsCleared
CHECK_DEADLOCK FALSE
