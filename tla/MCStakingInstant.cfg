SPECIFICATION DSpec
CONSTANTS
  Users = {"u1"}
  Admins = {"x"}
  NoKey = NoKey
  NoTicket = NoTicket
  VaultAuthority = VaultAuthority
  StakeAccounts = {"p1"}
  WyldsAccounts = {"w1", "v"}
  OwnerOf <- MCOwnerOf
  PdaFreezable = {}
  Issued = {}
  Funding <- MCFunding
  MaxU64 = 2
  Amounts = {0, 1, 2}
  MIN_UNBONDING_PERIOD = 1
  MAX_UNBONDING_PERIOD = 2
  MAX_ADMINISTRATORS = 1
  Periods = {0, 1, 2, 3}
  FreezeLists <- NoAdministrators
  RewardsLists <- NoAdministrators
  MaxTime = 3
PROPERTIES NoInstantLiquidity
