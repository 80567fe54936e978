SPECIFICATION CSpec
CONSTANTS
  Users = {"u1"}
  Admins = {"x"}
  NoKey = NoKey
  NoTicket = NoTicket
  NoEpoch = NoEpoch
  NoProof = NoProof
  VaultAuthority = VaultAuthority
  StakeAccounts = {"p1"}
  WyldsAccounts = {"w1", "v"}
  OwnerOf <- MCOwnerOf
  PdaFreezable = {}
  Associated = {"p1"}
  Issued = {}
  Funding <- MCFunding
  MaxU64 = 4
  Amounts = {2}
  MIN_UNBONDING_PERIOD = 1
  MAX_UNBONDING_PERIOD = 2
  MAX_ADMINISTRATORS = 1
  Periods = {2}
  FreezeLists <- OneOrTwoAdministrators
  RewardsLists <- OneAdministrator
  Indexes = {0}
  Roots <- MCRoots
  Files <- MCFiles
  Totals = {1, 2, 4}
  Lifetime = 1
  MaxFlight = 2
  MaxTime = 3
INVARIANTS CTypeOK TotalsCoverIssuance
