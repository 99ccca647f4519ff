CONSTANTS
  boss = boss
  guest = guest
  Nobody = Nobody
  Account = {boss, guest}
  Admins = {boss}
  Developer = boss
  MaxChanges = 2
  MaxHandlers = 3
  MaxRestarts = 1
SPECIFICATION FairSpec
INVARIANT TypeOK
INVARIANT SessionFollowsFirebase
INVARIANT RegistersOwnAccount
PROPERTY SignInShows
PROPERTY SessionWrittenWhole
CHECK_DEADLOCK FALSE
