------------------------ MODULE StakingHistoryProofs ------------------------
(***************************************************************************)
(* Theorems about Staking with its history: the pool covers what is in     *)
(* circulation, payouts are rationed, and the program implements           *)
(* LiquidStaking.                                                          *)
(***************************************************************************)
EXTENDS StakingHistory, StakingProofs

USE DEF U64, TokenAccounts, Vaults

-----------------------------------------------------------------------------
(* The history only watches: every behaviour with history is a behaviour of *)
(* the program.                                                             *)
LEMMA HistoryStep == [HNext]_hvars => [Next]_vars
  BY DEF HNext, HDeposit, HUnbond, HRedeem, HSendWylds, HOther, hvars, Next, UserNext,
         RedeemStep, TokenNext

THEOREM HistoryImplements == HSpec => Spec
  BY HistoryStep, PTL DEF HSpec, Spec, HInit

(* Backed, said of the running total of the vaults: what the pool of        *)
(* LiquidStaking needs for a payout.                                        *)
PoolCovers == supply <= pool

(* Types with history, and the running total covers all PRIME in           *)
(* circulation.                                                            *)
CoverInv == HTypeOK /\ PoolCovers

LEMMA CoverInit == HInit => CoverInv
  BY InitType DEF HInit, Init, CoverInv, HTypeOK, PoolCovers

LEMMA CoverNext == CoverInv /\ [HNext]_hvars => CoverInv'
  <1> SUFFICES ASSUME CoverInv, [HNext]_hvars PROVE CoverInv'
    OBVIOUS
  <1>a. TypeOK /\ TypeOK'
    BY NextType, HistoryStep DEF CoverInv, HTypeOK
  <1>b. supply \in Nat /\ supply <= pool /\ pool \in Int /\ redeems \in [Users -> Nat]
    BY <1>a, SplTokenAssumption DEF CoverInv, HTypeOK, PoolCovers, TypeOK, TokenTypeOK
  <1>c. Amounts \subseteq U64 /\ U64 \subseteq Nat
    BY StakingAssumption, SplTokenAssumption
  <1> USE <1>a, <1>b DEF CoverInv, HTypeOK, PoolCovers
  <1>1. CASE HDeposit
    BY <1>1, <1>c DEF HDeposit, Deposit, MintPrime
  <1>2. CASE HUnbond
    BY <1>2 DEF HUnbond, Unbond, tokenVars
  <1>3. CASE HRedeem
    <2>1. PICK u \in Users, vault, dest \in WyldsAccounts, acct \in StakeAccounts :
            /\ Redeem(u, vault, dest, acct)
            /\ pool' = pool - RedeemAmount(u, acct)
            /\ redeems' = [redeems EXCEPT ![u] = @ + 1]
      BY <1>3 DEF HRedeem
    <2>2. RedeemAmount(u, acct) \in Nat
      BY <2>1, <1>c, RedeemAmountBound DEF Redeem, RedeemAccounts
    <2>. QED
      BY <2>1, <2>2 DEF Redeem, BurnPrime
  <1>4. CASE HSendWylds
    BY <1>4, <1>c DEF HSendWylds, SendWylds
  <1>5. CASE HOther
    <2>1. CASE \E from \in StakeAccounts, n \in Amounts : RetirePrime(from, n)
      BY <1>5, <2>1, <1>c DEF HOther, RetirePrime, BurnPrime
    <2>2. CASE UNCHANGED supply
      BY <1>5, <2>2 DEF HOther
    <2>3. CASE FreezeNext
      BY <1>5, <2>2, <2>3 DEF FreezeNext, FreezeTokenAccount, ThawTokenAccount
    <2>. QED
      BY <1>5, <2>1, <2>2, <2>3
      DEF HOther, SendPrime, IssuerFreeze, Administer, Tick, tokenVars
  <1>6. CASE UNCHANGED hvars
    BY <1>6 DEF hvars, vars, tokenVars
  <1>. QED
    BY <1>1, <1>2, <1>3, <1>4, <1>5, <1>6 DEF HNext

(* Type correctness with history.                                           *)
THEOREM HTypeCorrect == HSpec => []HTypeOK
  BY CoverInit, CoverNext, PTL DEF HSpec, CoverInv

(* Every PRIME in circulation has wYLDS behind it in some vault.            *)
THEOREM PoolCoversSupply == HSpec => [](HTypeOK /\ PoolCovers)
  BY CoverInit, CoverNext, PTL DEF HSpec, CoverInv
-----------------------------------------------------------------------------
(* The running total is what the vault accounts hold, step by step.         *)
LEMMA PoolInit == HInit => PoolIsVaultBalance
  <1> SUFFICES ASSUME HInit PROVE VaultBalance = 0 /\ pool = 0
    BY DEF PoolIsVaultBalance
  <1>1. /\ VaultBalance = SumOver(wylds, Vaults) /\ IsFiniteSet(Vaults)
        /\ \A v \in Vaults : wylds[v] = 0
    BY InitType, BalanceSums, StakingAssumption DEF HInit, Init
  <1> HIDE DEF Vaults
  <1>. QED
    BY <1>1, SumOverZero DEF HInit

LEMMA PoolNext == HTypeOK /\ PoolIsVaultBalance /\ [HNext]_hvars => PoolIsVaultBalance'
  <1> SUFFICES ASSUME HTypeOK, pool = VaultBalance, [HNext]_hvars PROVE pool' = VaultBalance'
    BY DEF PoolIsVaultBalance
  <1>a. TypeOK /\ pool \in Int
    BY DEF HTypeOK
  <1>1. CASE HDeposit
    BY <1>1, <1>a, DepositFlow DEF HDeposit
  <1>2. CASE HRedeem
    BY <1>2, <1>a, RedeemFlow DEF HRedeem
  <1>3. CASE HSendWylds
    <2>1. PICK from, to \in WyldsAccounts, n \in Amounts :
            SendWylds(from, to, n) /\ pool' = IF to \in Vaults THEN pool + n ELSE pool
      BY <1>3 DEF HSendWylds
    <2>2. n \in Nat /\ VaultBalance' = VaultBalance + (IF to \in Vaults THEN n ELSE 0)
      BY <1>a, <2>1, GiftFlow
    <2> HIDE DEF Vaults
    <2>. QED
      BY <1>a, <2>1, <2>2
  <1>4. CASE HUnbond \/ HOther \/ UNCHANGED hvars
    <2>1. pool' = pool
      BY <1>4 DEF HUnbond, HOther, hvars
    <2>2. VaultBalance' = VaultBalance
      BY <1>4, <1>a, OtherFlow DEF HUnbond, HOther, hvars
    <2>. QED
      BY <2>1, <2>2
  <1>. QED
    BY <1>1, <1>2, <1>3, <1>4 DEF HNext

(* Nothing but deposits, redemptions and gifts moves the vaults' balance,   *)
(* and these by exactly what they say.                                      *)
THEOREM PoolIsBalance == HSpec => []PoolIsVaultBalance
  BY PoolInit, PoolNext, HTypeCorrect, PTL DEF HSpec
-----------------------------------------------------------------------------
(* Payouts are rationed: a payout uses up a ticket, a ticket waits at least *)
(* MIN_UNBONDING_PERIOD, and a user has one ticket at a time.  Inductively, *)
(* the payouts so far fit before the start of the open ticket, if there is  *)
(* one, and before now in any case.                                         *)
RateInv == PayoutRateInv /\ \A u \in Users : HasTicket(u) => ticket[u].start_ts <= now

LEMMA RateInit == HInit => RateInv
  BY StakeConfigAssumption DEF HInit, Init, RateInv, PayoutRateInv, HasTicket

LEMMA OneMore ==
  ASSUME NEW r \in Nat, NEW m \in Nat
  PROVE  (r + 1) * m = r * m + m /\ r * m \in Nat
  OBVIOUS

LEMMA RateNext == HTypeOK /\ RateInv /\ [HNext]_hvars => RateInv'
  <1> SUFFICES ASSUME HTypeOK, RateInv, [HNext]_hvars PROVE RateInv'
    OBVIOUS
  <1> DEFINE m == MIN_UNBONDING_PERIOD
             paid(u) == redeems[u] * m
  <1>a. m \in Nat /\ now \in Nat /\ redeems \in [Users -> Nat]
    BY StakeConfigAssumption DEF HTypeOK, TypeOK
  <1>b. \A u \in Users : paid(u) \in Nat
    BY <1>a, OneMore
  <1>c. \A u \in Users : HasTicket(u) => ticket[u].start_ts \in Nat
    BY DEF HTypeOK, TypeOK, HasTicket, UnbondingTicket
  <1>d. \A u \in Users :
          /\ paid(u) <= IF HasTicket(u) THEN ticket[u].start_ts ELSE now
          /\ HasTicket(u) => ticket[u].start_ts <= now
    BY DEF RateInv, PayoutRateInv
  <1>e. ticket \in [Users -> UnbondingTicket \cup {NoTicket}]
    BY DEF HTypeOK, TypeOK
  <1>1. CASE UNCHANGED <<ticket, redeems>> /\ now' \in Nat /\ now' >= now
    <2> SUFFICES ASSUME NEW u \in Users
                 PROVE  /\ paid(u)' <= IF HasTicket(u)' THEN ticket'[u].start_ts ELSE now'
                        /\ HasTicket(u)' => ticket'[u].start_ts <= now'
      BY DEF RateInv, PayoutRateInv
    <2>1. paid(u)' = paid(u) /\ HasTicket(u)' = HasTicket(u) /\ ticket'[u] = ticket[u]
      BY <1>1 DEF HasTicket
    <2> HIDE DEF paid
    <2>. QED
      BY <1>1, <1>a, <1>b, <1>c, <1>d, <2>1
  <1>2. CASE HUnbond
    <2>1. PICK v \in Users, acct \in StakeAccounts, n \in Amounts : Unbond(v, acct, n)
      BY <1>2 DEF HUnbond
    <2>2. redeems' = redeems /\ now' = now /\ ~HasTicket(v)
      BY <1>2, <2>1 DEF HUnbond, Unbond, UnbondAccounts
    <2> SUFFICES ASSUME NEW u \in Users
                 PROVE  /\ paid(u)' <= IF HasTicket(u)' THEN ticket'[u].start_ts ELSE now'
                        /\ HasTicket(u)' => ticket'[u].start_ts <= now'
      BY DEF RateInv, PayoutRateInv
    <2>3. paid(u)' = paid(u)
      BY <2>2
    <2>4. IF u = v THEN ticket'[u].start_ts = now ELSE ticket'[u] = ticket[u]
      BY <2>1, <1>e DEF Unbond
    <2> HIDE DEF paid
    <2>. QED
      BY <1>a, <1>b, <1>c, <1>d, <2>2, <2>3, <2>4 DEF HasTicket
  <1>3. CASE HRedeem
    <2>1. PICK v \in Users, vault, dest \in WyldsAccounts, acct \in StakeAccounts :
            /\ Redeem(v, vault, dest, acct)
            /\ redeems' = [redeems EXCEPT ![v] = @ + 1]
      BY <1>3 DEF HRedeem
    <2>2. HasTicket(v) /\ now - ticket[v].start_ts >= m /\ now' = now
      <3>1. config.unbonding_period >= m /\ config.unbonding_period \in Int
        BY StakeConfigAssumption DEF HTypeOK, TypeOK, ConfigTypeOK, Config
      <3>. QED
        BY <2>1, <3>1, <1>a, <1>c DEF Redeem, RedeemAccounts, Elapsed
    <2> SUFFICES ASSUME NEW u \in Users
                 PROVE  /\ paid(u)' <= IF HasTicket(u)' THEN ticket'[u].start_ts ELSE now'
                        /\ HasTicket(u)' => ticket'[u].start_ts <= now'
      BY DEF RateInv, PayoutRateInv
    <2>3. IF u = v THEN ticket'[u] = NoTicket ELSE ticket'[u] = ticket[u]
      BY <2>1, <1>e DEF Redeem
    <2>4. paid(u)' = IF u = v THEN paid(u) + m ELSE paid(u)
      BY <2>1, <1>a, OneMore
    <2> HIDE DEF paid, m
    <2>. QED
      BY <1>a, <1>b, <1>c, <1>d, <2>2, <2>3, <2>4 DEF HasTicket
  <1>4. CASE HDeposit
    BY <1>1, <1>4, <1>a DEF HDeposit, Deposit
  <1>5. CASE HSendWylds
    BY <1>1, <1>5, <1>a DEF HSendWylds, SendWylds
  <1>6. CASE HOther
    <2>1. UNCHANGED <<ticket, redeems>>
      BY <1>6
      DEF HOther, SendPrime, RetirePrime, IssuerFreeze, FreezeNext, FreezeTokenAccount,
          ThawTokenAccount, Administer, Tick
    <2>2. now' = now \/ now' = now + 1
      BY <1>6
      DEF HOther, SendPrime, RetirePrime, IssuerFreeze, FreezeNext, FreezeTokenAccount,
          ThawTokenAccount, Administer, Tick
    <2>. QED
      BY <1>1, <1>a, <2>1, <2>2
  <1>7. CASE UNCHANGED hvars
    BY <1>1, <1>7, <1>a DEF hvars, vars
  <1>. QED
    BY <1>2, <1>3, <1>4, <1>5, <1>6, <1>7 DEF HNext

(* The payouts so far fit before the start of the open ticket.              *)
THEOREM PayoutsFitBeforeTicket == HSpec => []PayoutRateInv
  BY RateInit, RateNext, PoolCoversSupply, PTL DEF HSpec, RateInv

(* Over the whole life of the program no user is paid more than once per    *)
(* MIN_UNBONDING_PERIOD.                                                    *)
THEOREM PayoutRateHolds == HSpec => []PayoutRate
  <1>1. HTypeOK /\ RateInv => PayoutRate
    <2> SUFFICES ASSUME HTypeOK, RateInv, NEW u \in Users
                 PROVE  redeems[u] * MIN_UNBONDING_PERIOD <= now
      BY DEF PayoutRate
    <2>1. redeems[u] * MIN_UNBONDING_PERIOD \in Nat /\ now \in Nat
      BY StakeConfigAssumption, OneMore DEF HTypeOK, TypeOK
    <2>2. HasTicket(u) => ticket[u].start_ts \in Nat /\ ticket[u].start_ts <= now
      BY DEF HTypeOK, TypeOK, HasTicket, UnbondingTicket, RateInv
    <2>. QED
      BY <2>1, <2>2 DEF RateInv, PayoutRateInv
  <1>. QED
    BY <1>1, RateInit, RateNext, PoolCoversSupply, PTL DEF HSpec
-----------------------------------------------------------------------------
(* Refinement.  Deposit is Stake, unbond is Request, redeem is Payout, a    *)
(* transfer into a vault is Donate, a burn outside the program is Retire,   *)
(* the clock is Advance, and the rest is invisible.  That the pool covers a *)
(* payout is PoolCovers.                                                    *)
LEMMA RefinementInit == HInit => LS!Init
  BY DEF HInit, Init, LS!Init, Requests, HasTicket

LEMMA RefinementStep == HTypeOK /\ PoolCovers /\ [HNext]_hvars => [LS!Next]_LS!vars
  <1> SUFFICES ASSUME HTypeOK, PoolCovers, [HNext]_hvars PROVE [LS!Next]_LS!vars
    OBVIOUS
  <1>a. Amounts \subseteq U64 /\ U64 \subseteq Nat /\ supply \in U64 /\ pool \in Int
    BY StakingAssumption, SplTokenAssumption DEF HTypeOK, TypeOK, TokenTypeOK
  <1>b. ticket \in [Users -> UnbondingTicket \cup {NoTicket}]
    BY DEF HTypeOK, TypeOK
  <1>1. CASE HDeposit
    <2>1. PICK n \in Amounts : n > 0 /\ supply' = supply + n /\ pool' = pool + n
      BY <1>1 DEF HDeposit, Deposit, MintPrime
    <2>2. UNCHANGED <<Requests, now>>
      BY <1>1 DEF HDeposit, Deposit, Requests, HasTicket
    <2>3. LS!Stake(n)
      BY <2>1, <2>2 DEF LS!Stake
    <2>. QED
      BY <1>a, <2>1, <2>3 DEF LS!Next
  <1>2. CASE HUnbond
    <2>1. PICK u \in Users, acct \in StakeAccounts, n \in Amounts : Unbond(u, acct, n)
      BY <1>2 DEF HUnbond
    <2>2. n \in U64 \ {0} /\ ~HasTicket(u) /\ UNCHANGED <<supply, pool, now>>
      BY <1>a, <1>2, <2>1 DEF Unbond, UnbondAccounts, HUnbond, tokenVars
    <2>3. ticket'[u] # NoTicket
      <3>1. ticket'[u] \in UnbondingTicket
        BY <1>a, <1>b, <2>1, <2>2 DEF Unbond, UnbondingTicket, HTypeOK, TypeOK, TokenTypeOK
      <3>. QED
        BY <3>1, StakingAssumption
    <2>4. Requests' = [Requests EXCEPT ![u] = [amount |-> n, since |-> now]]
      BY <1>b, <2>1, <2>3 DEF Unbond, Requests, HasTicket
    <2>5. LS!Request(u, n)
      BY <2>2, <2>4 DEF LS!Request, Requests
    <2>. QED
      BY <2>2, <2>5 DEF LS!Next
  <1>3. CASE HRedeem
    <2>1. PICK u \in Users, vault, dest \in WyldsAccounts, acct \in StakeAccounts :
            /\ Redeem(u, vault, dest, acct)
            /\ pool' = pool - RedeemAmount(u, acct)
      BY <1>3 DEF HRedeem
    <2> DEFINE n == RedeemAmount(u, acct)
    <2>2. HasTicket(u) /\ supply' = supply - n /\ n <= supply /\ now' = now
      BY <2>1 DEF Redeem, RedeemAccounts, BurnPrime
    <2>3. n \in U64 \ {0} /\ n <= ticket[u].requested_amount
      BY <2>1, <2>2, <1>a, RedeemAmountBound DEF Redeem, HTypeOK
    <2>4. now - ticket[u].start_ts >= MIN_UNBONDING_PERIOD
      <3>1. config.unbonding_period \in MIN_UNBONDING_PERIOD .. MAX_UNBONDING_PERIOD
        BY DEF HTypeOK, TypeOK, ConfigTypeOK, Config
      <3>2. ticket[u] \in UnbondingTicket /\ now \in Nat
        BY <1>b, <2>2 DEF HasTicket, HTypeOK, TypeOK
      <3>. QED
        BY <2>1, <3>1, <3>2, StakeConfigAssumption DEF Redeem, Elapsed, UnbondingTicket
    <2>5. Requests[u] = [amount |-> ticket[u].requested_amount, since |-> ticket[u].start_ts]
      BY <2>2 DEF Requests
    <2>6. Requests[u] # NoTicket
      <3>1. ticket[u] \in UnbondingTicket
        BY <1>b, <2>2 DEF HasTicket
      <3>. QED
        BY <2>5, <3>1, StakingHistoryAssumption DEF UnbondingTicket
    <2>7. Requests' = [Requests EXCEPT ![u] = NoTicket]
      BY <1>b, <2>1 DEF Redeem, Requests, HasTicket
    <2> HIDE DEF n
    <2>8. n <= pool
      BY <1>a, <2>2, <2>3 DEF PoolCovers
    <2>9. LS!Payout(u, n)
      BY <2>1, <2>2, <2>3, <2>4, <2>5, <2>6, <2>7, <2>8 DEF LS!Payout, n
    <2>. QED
      BY <2>3, <2>9 DEF LS!Next
  <1>4. CASE HSendWylds
    <2>1. PICK n \in Amounts : pool' = pool + n \/ pool' = pool
      BY <1>4 DEF HSendWylds
    <2>2. UNCHANGED <<supply, Requests, now>>
      BY <1>4 DEF HSendWylds, SendWylds, Requests, HasTicket
    <2>3. CASE pool' = pool
      BY <2>2, <2>3 DEF LS!vars
    <2>4. CASE pool' = pool + n /\ n # 0
      BY <1>a, <2>2, <2>4 DEF LS!Next, LS!Donate
    <2>. QED
      BY <1>a, <2>1, <2>3, <2>4
  <1>5. CASE HOther
    <2>0. UNCHANGED <<pool, Requests>>
      BY <1>5
      DEF HOther, SendPrime, RetirePrime, IssuerFreeze, FreezeNext, FreezeTokenAccount,
          ThawTokenAccount, Administer, Tick, Requests, HasTicket
    <2>1. CASE \E from \in StakeAccounts, n \in Amounts : RetirePrime(from, n)
      <3>1. PICK n \in Amounts : n <= supply /\ supply' = supply - n /\ now' = now
        BY <2>1 DEF RetirePrime, BurnPrime
      <3>2. CASE n = 0
        BY <1>a, <2>0, <3>1, <3>2 DEF LS!vars
      <3>3. CASE n # 0
        BY <1>a, <2>0, <3>1, <3>3 DEF LS!Next, LS!Retire
      <3>. QED
        BY <3>2, <3>3
    <2>2. CASE Tick
      BY <2>0, <2>2 DEF Tick, tokenVars, LS!Next, LS!Advance
    <2>3. CASE UNCHANGED <<supply, now>>
      BY <2>0, <2>3 DEF LS!vars
    <2>. QED
      BY <1>5, <2>1, <2>2, <2>3
      DEF HOther, SendPrime, IssuerFreeze, FreezeNext, FreezeTokenAccount, ThawTokenAccount,
          Administer, tokenVars
  <1>6. CASE UNCHANGED hvars
    BY <1>6 DEF hvars, vars, tokenVars, LS!vars, Requests, HasTicket
  <1>. QED
    BY <1>1, <1>2, <1>3, <1>4, <1>5, <1>6 DEF HNext

(* The program keeps the promises of LiquidStaking.                         *)
THEOREM Refinement == HSpec => ImplementsLiquidStaking
  BY RefinementInit, RefinementStep, PoolCoversSupply, PTL
  DEF HSpec, LS!Spec, ImplementsLiquidStaking
=============================================================================
