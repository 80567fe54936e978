----------------------------- MODULE MCStaking -----------------------------
(* Small instances of Staking.  "u1" owns the PRIME accounts "p1", "q1" and *)
(* the wYLDS account "w1", "u2" owns "p2" and "w2"; every other account is  *)
(* a vault account.  "x" is an administrator.                               *)
EXTENDS Staking, TLC

MCOwnerOf == [a \in TokenAccounts |->
  CASE a \in {"p1", "q1", "w1"} -> "u1"
    [] a \in {"p2", "w2"} -> "u2"
    [] OTHER -> VaultAuthority]

(* u1 starts with two wYLDS, u2 with one. *)
MCFunding == [a \in WyldsAccounts |-> CASE a = "w1" -> 2 [] a = "w2" -> 1 [] OTHER -> 0]

OneWyldsEach == [a \in WyldsAccounts |-> IF a \in {"w1", "w2"} THEN 1 ELSE 0]

(* Vault accounts start empty and are interchangeable. *)
Symmetry == Permutations(Vaults)

NoAdministrators == {<<>>}
UpToOne == {<<>>, <<"x">>}
UpToTwo == {<<>>, <<"x">>, <<"x", "x">>}
=============================================================================
