SPECIFICATION CSpec
CONSTANTS
  Users = {"u1"}
  Admins = {"x"}
  NoKey = NoKey
  NoTicket = NoTicket
  NoEpoch = NoEpoch
  NoProof = NoProof
  VaultAuthority = VaultAuthority
  StakeAccounts = {"p1"}
  WyldsAccounts = {"w1", "v"}
  OwnerOf <- MCOwnerOf
  PdaFreezable = {}
  Associated = {"p1"}
  Issued = {}
  Funding <- MCFunding
  MaxU64 = 2
  Amounts = {1, 2}
  MIN_UNBONDING_PERIOD = 1
  MAX_UNBONDING_PERIOD = 3
  MAX_ADMINISTRATORS = 0
  Periods = {2, 3}
  FreezeLists <- NoAdministrators
  RewardsLists <- NoAdministrators
  Indexes = {}
  Roots = {}
  Files = {}
  Totals = {}
  Lifetime = 1
  MaxFlight = 2
  MaxTime = 5
PROPERTIES RetriedOnce
