SPECIFICATION MSpec
CONSTANTS
  Programs = {P, Q, R}
  Mints = {m1, m2}
  VaultMints = {"wYLDS", "USD"}
  VaultAccounts = {"ata", "acct", "usd"}
  MintOf <- MCMintOf
  Ata <- MCAta
  Operator = Operator
  None = None
  METAPLEX_NAME = PRIME
  NoName = NoName
INVARIANTS MTypeOK VaultFollowsConfig
PROPERTIES OpenForGood
SYMMETRY Symmetry
