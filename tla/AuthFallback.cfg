CONSTANTS
  boss = boss
  guest = guest
  Nobody = Nobody
  Account = {boss, guest}
  Admins = {boss}
  Developer = boss
  MaxChanges = 1
  MaxHandlers = 2
  MaxRestarts = 0
SPECIFICATION Spec
INVARIANT DeveloperStaysAdmin
CHECK_DEADLOCK FALSE
