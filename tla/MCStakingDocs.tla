--------------------------- MODULE MCStakingDocs ---------------------------
(* One user with two wYLDS is enough. *)
EXTENDS StakingDocs

MCOwnerOf == [a \in TokenAccounts |-> IF a = "v" THEN VaultAuthority ELSE "u1"]

MCFunding == [a \in WyldsAccounts |-> IF a = "w1" THEN 2 ELSE 0]

NoAdministrators == {<<>>}
=============================================================================
