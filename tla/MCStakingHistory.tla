-------------------------- MODULE MCStakingHistory --------------------------
(* Small instance of StakingHistory: two users, two vaults.                *)
EXTENDS StakingHistory, TLC

MCOwnerOf == [a \in TokenAccounts |->
  CASE a \in {"p1", "w1"} -> "u1"
    [] a \in {"p2", "w2"} -> "u2"
    [] OTHER -> VaultAuthority]

(* u1 starts with two wYLDS. *)
MCFunding == [a \in WyldsAccounts |-> IF a = "w1" THEN 2 ELSE 0]

(* Vault accounts start empty and are interchangeable. *)
Symmetry == Permutations(Vaults)

NoAdministrators == {<<>>}
=============================================================================
