---------------------------- MODULE StakingDocs ----------------------------
(***************************************************************************)
(* What the documents say of staking and the program does not do.  fresh   *)
(* is history: the PRIME that deposits minted into an account since the    *)
(* clock last moved.                                                       *)
(***************************************************************************)
EXTENDS Staking

VARIABLE fresh

dvars == <<vars, fresh>>

(* deposit is the only instruction of Staking that raises the supply. *)
Deposited(a) == IF supply' > supply THEN prime'[a] - prime[a] ELSE 0

DInit == Init /\ fresh = [a \in StakeAccounts |-> 0]

DNext ==
  /\ Next
  /\ fresh' = [a \in StakeAccounts |-> IF now' # now THEN 0 ELSE fresh[a] + Deposited(a)]

DSpec == DInit /\ [][DNext]_dvars

(* README.md:14: the unbonding period "prevents instant liquidity", and     *)
(* lib.rs:23-24 calls it a lock period.  So redeem should burn at most what *)
(* was in the account before the deposits of the same instant.              *)
NoInstantLiquidity ==
  [][\A a \in StakeAccounts :
       VaultBalance' < VaultBalance => prime'[a] >= fresh[a]]_dvars
=============================================================================
