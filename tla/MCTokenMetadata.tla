-------------------------- MODULE MCTokenMetadata --------------------------
(* One vault mint with its associated account "ata", a second one with an   *)
(* account of its own, and program ids for one reset.                       *)
EXTENDS TokenMetadata, TLC

MCMintOf == [a \in VaultAccounts |-> IF a \in {"ata", "acct"} THEN "wYLDS" ELSE "USD"]

Symmetry == Permutations(Programs) \cup Permutations(Mints)

MCAta == [m \in VaultMints |-> IF m = "wYLDS" THEN "ata" ELSE "usd"]
=============================================================================
