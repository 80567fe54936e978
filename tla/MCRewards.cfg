SPECIFICATION RSpec
CONSTANTS
  Users = {"u1", "u2"}
  Admins = {"x"}
  NoKey = NoKey
  NoTicket = NoTicket
  NoEpoch = NoEpoch
  VaultAuthority = VaultAuthority
  StakeAccounts = {"p1", "p2"}
  WyldsAccounts = {"w1", "v"}
  OwnerOf <- MCOwnerOf
  PdaFreezable = {}
  Issued = {}
  Funding <- MCFunding
  MaxU64 = 3
  Amounts = {0, 1, 2}
  MIN_UNBONDING_PERIOD = 1
  MAX_UNBONDING_PERIOD = 1
  MAX_ADMINISTRATORS = 1
  Periods = {1, 2}
  FreezeLists <- NoAdministrators
  RewardsLists <- OneAdministrator
  Indexes = {0, 1}
  Roots <- MCRoots
  Totals = {2}
  MaxTime = 1
INVARIANTS RTypeOK SupplyAccounted
PROPERTIES MintCovered EpochsFinal PauseStopsProgram
