--------------------------- MODULE StakingHistory ---------------------------
(***************************************************************************)
(* Staking with two history variables, and the refinement they allow: the  *)
(* program implements LiquidStaking.  The history never constrains a step. *)
(***************************************************************************)
EXTENDS Staking

VARIABLES
  pool,      \* wYLDS in all vault accounts together, kept as a running total
  redeems    \* how many times each user has been paid

hvars == <<vars, pool, redeems>>

HTypeOK ==
  /\ TypeOK
  /\ pool \in Int
  /\ redeems \in [Users -> Nat]

HInit ==
  /\ Init
  /\ pool = 0
  /\ redeems = [u \in Users |-> 0]

HDeposit ==
  \E u \in Users, from, vault \in WyldsAccounts, to \in StakeAccounts, n \in Amounts :
    /\ Deposit(u, from, vault, to, n)
    /\ pool' = pool + n
    /\ UNCHANGED redeems

HUnbond ==
  /\ \E u \in Users, acct \in StakeAccounts, n \in Amounts : Unbond(u, acct, n)
  /\ UNCHANGED <<pool, redeems>>

HRedeem ==
  \E u \in Users, vault, dest \in WyldsAccounts, acct \in StakeAccounts :
    /\ Redeem(u, vault, dest, acct)
    /\ pool' = pool - RedeemAmount(u, acct)
    /\ redeems' = [redeems EXCEPT ![u] = @ + 1]

HSendWylds ==
  \E from, to \in WyldsAccounts, n \in Amounts :
    /\ SendWylds(from, to, n)
    /\ pool' = IF to \in Vaults THEN pool + n ELSE pool
    /\ UNCHANGED redeems

HOther ==
  /\ \/ \E from, to \in StakeAccounts, n \in Amounts : SendPrime(from, to, n)
     \/ \E from \in StakeAccounts, n \in Amounts : RetirePrime(from, n)
     \/ \E a \in Issued : IssuerFreeze(a)
     \/ FreezeNext
     \/ Administer
     \/ Tick
  /\ UNCHANGED <<pool, redeems>>

HNext == HDeposit \/ HUnbond \/ HRedeem \/ HSendWylds \/ HOther

HSpec == HInit /\ [][HNext]_hvars
-----------------------------------------------------------------------------
Requests == [u \in Users |->
  IF HasTicket(u)
  THEN [amount |-> ticket[u].requested_amount, since |-> ticket[u].start_ts]
  ELSE NoTicket]

ASSUME StakingHistoryAssumption == NoTicket \notin [amount : U64, since : Nat]

LS == INSTANCE LiquidStaking WITH
  Amount <- U64 \ {0}, MinWait <- MIN_UNBONDING_PERIOD, NoRequest <- NoTicket,
  shares <- supply, request <- Requests, clock <- now
-----------------------------------------------------------------------------
(* Properties                                                              *)

(* The running total is what the vault accounts hold: it changes by what    *)
(* deposit, redeem and gifts move and by nothing else.                      *)
PoolIsVaultBalance == pool = VaultBalance

(* No user is paid more often than once per smallest legal period, over the *)
(* whole life of the program and however the period is moved: every payout  *)
(* has its own ticket, and its own wait (processor.rs:179-182, init and     *)
(* close of the ticket).                                                    *)
PayoutRate == \A u \in Users : redeems[u] * MIN_UNBONDING_PERIOD <= now

(* The strengthening of PayoutRate: when a ticket is opened its owner's     *)
(* past payouts fit into the time before it.                                *)
PayoutRateInv ==
  \A u \in Users :
    redeems[u] * MIN_UNBONDING_PERIOD <= IF HasTicket(u) THEN ticket[u].start_ts ELSE now

(* The program implements the abstract specification of liquid staking.     *)
ImplementsLiquidStaking == LS!Spec
=============================================================================
