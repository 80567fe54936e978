SPECIFICATION FairSpec
CONSTANTS
  Users = {"u1", "u2"}
  Admins = {"x"}
  NoKey = NoKey
  NoTicket = NoTicket
  VaultAuthority = VaultAuthority
  StakeAccounts = {"p1", "p2"}
  WyldsAccounts = {"w1", "w2", "v"}
  OwnerOf <- MCOwnerOf
  PdaFreezable = {"p1"}
  Issued = {"v"}
  Funding <- OneWyldsEach
  MaxU64 = 2
  Amounts = {1}
  MIN_UNBONDING_PERIOD = 1
  MAX_UNBONDING_PERIOD = 2
  MAX_ADMINISTRATORS = 1
  Periods = {0, 1, 2, 3}
  FreezeLists <- UpToTwo
  RewardsLists <- UpToOne
  MaxTime = 3
PROPERTIES PatientUserIsPaid NoWayBack
