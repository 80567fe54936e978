----------------------------- MODULE MCRewards -----------------------------
(* Two users, two epochs, and two roots: one in order, built for index 0,   *)
(* and one built for index 1 in which "u1" has two allocations.  Each may   *)
(* be posted under either index.                                            *)
EXTENDS Rewards

MCOwnerOf == [a \in TokenAccounts |->
  CASE a \in {"p1", "w1"} -> "u1"
    [] a \in {"p2", "w2"} -> "u2"
    [] OTHER -> VaultAuthority]

MCFunding == [a \in WyldsAccounts |-> IF a = "w1" THEN 1 ELSE 0]

MCRoots ==
  {[epoch |-> 0, allocations |-> {<<"u1", 1>>, <<"u2", 1>>}],
   [epoch |-> 1, allocations |-> {<<"u1", 1>>, <<"u1", 2>>}]}

NoAdministrators == {<<>>}
OneAdministrator == {<<"x">>}
=============================================================================
