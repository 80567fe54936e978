--------------------------- MODULE RewardsProofs ---------------------------
(***************************************************************************)
(* Theorems about the whole program, rewards included, for every set of    *)
(* users, accounts, epochs and roots.                                      *)
(***************************************************************************)
EXTENDS Rewards, StakingProofs

USE DEF U64, TokenAccounts

(* A claim mints into one account and touches nothing else of Staking.      *)
LEMMA ClaimType ==
  ASSUME RTypeOK, NEW u \in Users, NEW e \in Indexes, NEW acct \in StakeAccounts,
         NEW n \in Amounts, ClaimRewards(u, e, acct, n)
  PROVE  RTypeOK'
  <1>1. prime' \in [StakeAccounts -> U64] /\ supply' \in U64
    BY SplTokenAssumption, StakingAssumption
    DEF RTypeOK, TypeOK, TokenTypeOK, ClaimRewards, MintPrime, Credited
  <1>2. TypeOK'
    BY <1>1 DEF RTypeOK, TypeOK, TokenTypeOK, ConfigTypeOK, ClaimRewards, configVars
  <1>. QED
    BY <1>2 DEF RTypeOK, ClaimRewards

LEMMA CreateType ==
  ASSUME RTypeOK, NEW k \in Admins, NEW e \in Indexes, NEW root \in Roots, NEW total \in Totals,
         CreateRewardsEpoch(k, e, root, total)
  PROVE  RTypeOK'
  <1>1. TypeOK'
    BY DEF RTypeOK, TypeOK, TokenTypeOK, ConfigTypeOK, CreateRewardsEpoch, vars, tokenVars,
           configVars
  <1>2. epoch' \in [Indexes -> RewardsEpoch \cup {NoEpoch}]
    BY RewardsAssumption DEF RTypeOK, TypeOK, CreateRewardsEpoch, RewardsEpoch
  <1>3. \A i \in Indexes : epoch'[i] # NoEpoch => epoch'[i].index = i
    BY DEF RTypeOK, CreateRewardsEpoch
  <1>. QED
    BY <1>1, <1>2, <1>3 DEF RTypeOK, CreateRewardsEpoch

(* Type correctness of the whole program.                                   *)
LEMMA RNextType == RTypeOK /\ [RNext]_rvars => RTypeOK'
  <1> SUFFICES ASSUME RTypeOK, [RNext]_rvars PROVE RTypeOK'
    OBVIOUS
  <1>1. CASE [Next]_vars /\ UNCHANGED <<epoch, claim_record>>
    BY <1>1, NextType DEF RTypeOK
  <1>2. CASE RewardsNext
    BY <1>2, ClaimType, CreateType DEF RewardsNext
  <1>. QED
    BY <1>1, <1>2 DEF RNext, rvars

THEOREM RTypeCorrect == RSpec => []RTypeOK
  <1>1. RInit => RTypeOK
    BY InitType DEF RInit, RTypeOK
  <1>. QED
    BY <1>1, RNextType, PTL DEF RSpec
-----------------------------------------------------------------------------
(* Every posted epoch and every claim record is there for good.             *)
THEOREM EpochsAreFinal == RSpec => EpochsFinal
  <1>1. [RNext]_rvars => [KeepsEpochs]_rvars
    <2> SUFFICES ASSUME RNext PROVE KeepsEpochs
      OBVIOUS
    <2>1. CASE UNCHANGED <<epoch, claim_record>>
      BY <2>1 DEF KeepsEpochs
    <2>2. CASE RewardsNext
      <3>1. CASE \E k \in Admins, e \in Indexes, root \in Roots, total \in Totals :
                   CreateRewardsEpoch(k, e, root, total)
        BY <3>1 DEF CreateRewardsEpoch, MayCreateEpoch, KeepsEpochs, HasEpoch
      <3>2. CASE \E u \in Users, e \in Indexes, acct \in StakeAccounts, n \in Amounts :
                   ClaimRewards(u, e, acct, n)
        BY <3>2 DEF ClaimRewards, KeepsEpochs
      <3>. QED
        BY <2>2, <3>1, <3>2 DEF RewardsNext
    <2>. QED
      BY <2>1, <2>2 DEF RNext
  <1>. QED
    BY <1>1, PTL DEF RSpec, EpochsFinal

(* Pausing stops the whole program: deposits, unbonding, redemptions and    *)
(* claims.                                                                  *)
THEOREM PauseHoldsWithRewards == RSpec => PauseStopsProgram
  <1>1. RTypeOK /\ [RNext]_rvars => [StopsWhilePaused]_vars
    <2> SUFFICES ASSUME RTypeOK, [RNext]_rvars PROVE [StopsWhilePaused]_vars
      OBVIOUS
    <2>1. CASE [Next]_vars
      BY <2>1, PausedStep DEF RTypeOK
    <2>2. CASE RewardsNext
      BY <2>2 DEF RewardsNext, CreateRewardsEpoch, ClaimRewards, StopsWhilePaused
    <2>. QED
      BY <2>1, <2>2 DEF RNext, rvars
  <1>. QED
    BY <1>1, RTypeCorrect, PTL DEF RSpec, PauseStopsProgram

(* Claims and epochs pay nothing out of a vault, so payouts stay covered    *)
(* when rewards are claimed between an unbond and its redeem.               *)
THEOREM PayoutsCoveredWithRewards == RSpec => PayoutCovered
  <1>1. RTypeOK /\ [RNext]_rvars => [PaysOnlyCovered]_vars
    <2> SUFFICES ASSUME RTypeOK, [RNext]_rvars PROVE [PaysOnlyCovered]_vars
      OBVIOUS
    <2>1. CASE [Next]_vars
      BY <2>1, PayoutStep DEF RTypeOK
    <2>2. CASE wylds' = wylds
      <3>1. \A v \in Vaults : wylds[v] \in Nat
        BY SplTokenAssumption DEF RTypeOK, TypeOK, TokenTypeOK, Vaults
      <3>. QED
        BY <2>2, <3>1 DEF PaysOnlyCovered
    <2>3. CASE RewardsNext
      BY <2>2, <2>3 DEF RewardsNext, CreateRewardsEpoch, ClaimRewards, vars, tokenVars
    <2>. QED
      BY <2>1, <2>3 DEF RNext, rvars
  <1>. QED
    BY <1>1, RTypeCorrect, PTL DEF RSpec, PayoutCovered

(* Nor does a claim touch a ticket.                                         *)
THEOREM TicketsStableWithRewards == RSpec => TicketStable
  <1>1. RTypeOK /\ [RNext]_rvars => [EndsInPayout]_vars
    <2> SUFFICES ASSUME RTypeOK, [RNext]_rvars PROVE [EndsInPayout]_vars
      OBVIOUS
    <2>1. CASE [Next]_vars
      BY <2>1, TicketStep DEF RTypeOK
    <2>2. CASE RewardsNext
      BY <2>2 DEF RewardsNext, CreateRewardsEpoch, ClaimRewards, vars, EndsInPayout
    <2>. QED
      BY <2>1, <2>2 DEF RNext, rvars
  <1>. QED
    BY <1>1, RTypeCorrect, PTL DEF RSpec, TicketStable

(* A claim leaves a frozen account alone, and neither claims nor epochs     *)
(* need or change the config of a program without an upgrade authority.     *)
THEOREM NoWayBackWithRewards == RSpec => NoWayBack
  <1>1. RTypeOK /\ [RNext]_rvars => [FixedForGood]_vars
    <2> SUFFICES ASSUME RTypeOK, [RNext]_rvars PROVE [FixedForGood]_vars
      OBVIOUS
    <2>1. CASE [Next]_vars
      BY <2>1, FixedStep DEF RTypeOK
    <2>2. CASE \E k \in Admins, e \in Indexes, root \in Roots, total \in Totals :
                 CreateRewardsEpoch(k, e, root, total)
      BY <2>2 DEF CreateRewardsEpoch
    <2>3. CASE \E u \in Users, e \in Indexes, acct \in StakeAccounts, n \in Amounts :
                 ClaimRewards(u, e, acct, n)
      BY <2>3 DEF ClaimRewards, MintPrime, Credited, FixedForGood, configVars, RTypeOK, TypeOK,
                  TokenTypeOK
    <2>. QED
      BY <2>1, <2>2, <2>3 DEF RNext, RewardsNext, rvars
  <1>. QED
    BY <1>1, RTypeCorrect, PTL DEF RSpec, NoWayBack

(* Outside deposit and claim_rewards the supply of PRIME never grows.       *)
LEMMA OnlyDepositMints ==
  ASSUME TypeOK, [Next]_vars,
         ~ \E u \in Users, from, vault \in WyldsAccounts, to \in StakeAccounts, n \in Amounts :
             Deposit(u, from, vault, to, n)
  PROVE  supply' <= supply
  <1>a. supply \in Nat /\ Amounts \subseteq Nat
    BY SplTokenAssumption, StakingAssumption DEF TypeOK, TokenTypeOK
  <1>1. CASE \E from \in StakeAccounts, n \in Amounts : RetirePrime(from, n)
    BY <1>1, <1>a DEF RetirePrime, BurnPrime
  <1>2. ASSUME NEW u \in Users, NEW vault \in WyldsAccounts, NEW dest \in WyldsAccounts,
               NEW acct \in StakeAccounts, Redeem(u, vault, dest, acct)
        PROVE  supply' <= supply
    <2>1. RedeemAmount(u, acct) \in Nat
      BY <1>2, RedeemAmountBound, SplTokenAssumption DEF Redeem, RedeemAccounts
    <2>. QED
      BY <1>a, <1>2, <2>1 DEF Redeem, BurnPrime
  <1>3. CASE supply' = supply
    BY <1>a, <1>3
  <1>4. CASE \E u \in Users, acct \in StakeAccounts, n \in Amounts : Unbond(u, acct, n)
    BY <1>3, <1>4 DEF Unbond, tokenVars
  <1>5. CASE FreezeNext \/ Administer \/ Tick \/ UNCHANGED vars
    BY <1>3, <1>5
    DEF FreezeNext, FreezeTokenAccount, ThawTokenAccount, Administer, Tick, tokenVars, vars
  <1>6. CASE \/ \E from, to \in StakeAccounts, n \in Amounts : SendPrime(from, to, n)
             \/ \E from, to \in WyldsAccounts, n \in Amounts : SendWylds(from, to, n)
             \/ \E a \in Issued : IssuerFreeze(a)
    BY <1>3, <1>6 DEF SendPrime, SendWylds, IssuerFreeze
  <1>. QED
    BY <1>1, <1>2, <1>4, <1>5, <1>6 DEF Next, UserNext, RedeemStep, TokenNext

(* Every PRIME ever minted was minted against as much wYLDS or against a    *)
(* fresh claim record and one allocation of its owner in that epoch.        *)
THEOREM MintsAreCovered == RSpec => MintCovered
  <1>1. RTypeOK /\ [RNext]_rvars => [MintIsCovered]_rvars
    <2> SUFFICES ASSUME RTypeOK, RNext PROVE MintIsCovered
      OBVIOUS
    <2>a. /\ wylds \in [WyldsAccounts -> U64] /\ U64 \subseteq Nat /\ Amounts \subseteq U64
          /\ supply \in Nat /\ supply' \in Nat
      BY RNextType, StakingAssumption, SplTokenAssumption DEF RTypeOK, TypeOK, TokenTypeOK
    <2>1. ASSUME NEW u \in Users, NEW from \in WyldsAccounts, NEW vault \in WyldsAccounts,
                 NEW to \in StakeAccounts, NEW n \in Amounts, Deposit(u, from, vault, to, n)
          PROVE  MintIsCovered
      <3>1. supply' - supply = n /\ n \in Nat
        BY <2>a, <2>1 DEF Deposit, MintPrime
      <3>2. vault \in Vaults /\ from # vault
        BY <2>1, VaultNotSender DEF Deposit, DepositAccounts
      <3>3. wylds'[vault] = wylds[vault] + n
        BY <2>a, <2>1, <3>1, <3>2 DEF Deposit, TransferWylds, Moved, Credited, Debited
      <3>. QED
        BY <3>1, <3>2, <3>3 DEF MintIsCovered, Vaults
    <2>2. CASE /\ Next
               /\ ~ \E u \in Users, from, vault \in WyldsAccounts, to \in StakeAccounts,
                       n \in Amounts : Deposit(u, from, vault, to, n)
      <3>1. supply' <= supply
        BY <2>2, OnlyDepositMints DEF RTypeOK
      <3>. QED
        BY <2>a, <3>1 DEF MintIsCovered
    <2>3. CASE \E k \in Admins, e \in Indexes, root \in Roots, total \in Totals :
                 CreateRewardsEpoch(k, e, root, total)
      BY <2>a, <2>3 DEF CreateRewardsEpoch, vars, tokenVars, MintIsCovered
    <2>4. ASSUME NEW u \in Users, NEW e \in Indexes, NEW acct \in StakeAccounts,
                 NEW n \in Amounts, ClaimRewards(u, e, acct, n)
          PROVE  MintIsCovered
      <3>1. supply' - supply = n
        BY <2>a, <2>4 DEF ClaimRewards, MintPrime
      <3>2. epoch[e].index = e
        BY <2>4 DEF RTypeOK, ClaimRewards, ClaimAccounts, HasEpoch
      <3>. QED
        BY <2>4, <3>1, <3>2 DEF MintIsCovered, ClaimRewards, ClaimAccounts, Proven
    <2>. QED
      BY <2>1, <2>2, <2>3, <2>4 DEF RNext, RewardsNext
  <1>. QED
    BY <1>1, RTypeCorrect, PTL DEF RSpec, MintCovered
-----------------------------------------------------------------------------
(* What the claims account for.  The bound on the supply is kept step by    *)
(* step because a claim is only made against an epoch that exists, and an   *)
(* epoch that exists keeps its root: no claim already made ever comes to    *)
(* account for less.                                                        *)
Entitled == [c \in Indexes \X Users |-> Entitlement(c[1], c[2])]

AccountedInv ==
  /\ SupplyAccounted
  /\ IsFiniteSet(claim_record)
  /\ \A c \in claim_record : HasEpoch(c[1])

LEMMA GreatestAmount ==
  ASSUME NEW S, S \subseteq U64
  PROVE  /\ Max({0} \cup S) \in {0} \cup S /\ Max({0} \cup S) \in U64
         /\ \A a \in S : a <= Max({0} \cup S)
  <1> DEFINE T == {0} \cup S
  <1>1. T \subseteq 0 .. MaxU64 /\ T # {} /\ MaxU64 \in Nat /\ S \subseteq T
    BY SplTokenAssumption
  <1> HIDE DEF T
  <1>2. Max(T) \in T /\ \A y \in T : y <= Max(T)
    BY <1>1, MaxIsGreatest
  <1>. QED
    BY <1>1, <1>2 DEF T

(* An entitlement is one of the user's allocations in that epoch, the       *)
(* greatest, or nothing.                                                    *)
LEMMA EntitlementBound ==
  ASSUME NEW e, NEW u
  PROVE  /\ Entitlement(e, u) \in Nat /\ Entitlement(e, u)' \in Nat
         /\ \/ Entitlement(e, u) = 0
            \/ Entitlement(e, u) \in U64
               /\ <<u, Entitlement(e, u)>> \in epoch[e].merkle_root.allocations
         /\ \A a \in U64 :
              HasEpoch(e) /\ epoch[e].merkle_root.epoch = e
                /\ <<u, a>> \in epoch[e].merkle_root.allocations => a <= Entitlement(e, u)
  <1> DEFINE S == {a \in U64 : HasEpoch(e) /\ epoch[e].merkle_root.epoch = e
                                  /\ <<u, a>> \in epoch[e].merkle_root.allocations}
  <1>1. S \subseteq U64 /\ S' \subseteq U64 /\ U64 \subseteq Nat
    BY SplTokenAssumption
  <1>2. Entitlement(e, u) = Max({0} \cup S) /\ Entitlement(e, u)' = Max({0} \cup S')
    BY DEF Entitlement
  <1> HIDE DEF U64
  <1>3. /\ Max({0} \cup S) \in {0} \cup S /\ Max({0} \cup S) \in U64
        /\ \A a \in S : a <= Max({0} \cup S)
    <2> HIDE DEF S
    <2>. QED
      BY <1>1, GreatestAmount
  <1>4. Max({0} \cup S') \in U64
    <2> DEFINE R == S'
    <2>1. R \subseteq U64
      BY <1>1
    <2> HIDE DEF R
    <2>2. Max({0} \cup R) \in U64
      BY <2>1, GreatestAmount
    <2>. QED
      BY <2>2 DEF R
  <1>. QED
    BY <1>1, <1>2, <1>3, <1>4

LEMMA EntitledType ==
  ASSUME NEW c \in Indexes \X Users
  PROVE  Entitled[c] \in Nat /\ Entitled'[c] \in Nat
  <1>1. Entitled[c] = Entitlement(c[1], c[2]) /\ Entitled'[c] = Entitlement(c[1], c[2])'
    BY DEF Entitled
  <1>. QED
    BY <1>1, EntitlementBound

(* SupplyAccounted by means of the sum over a function, before and after a  *)
(* step.                                                                    *)
LEMMA AccountedAs ==
  /\ claim_record \subseteq Indexes \X Users =>
       (SupplyAccounted <=> supply <= VaultBalance + SumOver(Entitled, claim_record))
  /\ claim_record' \subseteq Indexes \X Users =>
       (SupplyAccounted' <=> supply' <= VaultBalance' + SumOver(Entitled', claim_record'))
  <1>1. claim_record \subseteq Indexes \X Users =>
          MapThenSumSet(LAMBDA c : Entitlement(c[1], c[2]), claim_record)
            = SumOver(Entitled, claim_record)
    BY DEF SumOver, MapThenSumSet, MapThenFoldSet, Entitled
  <1>2. claim_record' \subseteq Indexes \X Users =>
          MapThenSumSet(LAMBDA c : Entitlement(c[1], c[2])', claim_record')
            = SumOver(Entitled', claim_record')
    BY DEF SumOver, MapThenSumSet, MapThenFoldSet, Entitled
  <1>. QED
    BY <1>1, <1>2 DEF SupplyAccounted

(* The sum before and after a step that keeps the entitlements of all       *)
(* claims made before it.                                                   *)
LEMMA ClaimsSum ==
  ASSUME RTypeOK, IsFiniteSet(claim_record),
         \A c \in claim_record : Entitlement(c[1], c[2])' = Entitlement(c[1], c[2])
  PROVE  /\ SumOver(Entitled', claim_record) = SumOver(Entitled, claim_record)
         /\ SumOver(Entitled, claim_record) \in Nat
  <1> DEFINE v == Entitled
             w == Entitled'
  <1>1. claim_record \subseteq Indexes \X Users
    BY DEF RTypeOK
  <1>2. \A c \in claim_record : w[c] = v[c] /\ v[c] \in Nat
    BY <1>1, EntitledType DEF Entitled
  <1> HIDE DEF v, w
  <1>3. SumOver(w, claim_record) = SumOver(v, claim_record)
    BY <1>2, SumOverAgree
  <1>4. SumOver(v, claim_record) \in Nat
    BY <1>2, SumOverCovers
  <1>. QED
    BY <1>3, <1>4 DEF v, w

LEMMA SameMargin ==
  ASSUME NEW s \in Int, NEW t \in Int, NEW v \in Int, NEW w \in Int, NEW d \in Int,
         s <= v + d, t - s <= w - v
  PROVE  t <= w + d
  OBVIOUS

LEMMA AccountedNext == RTypeOK /\ AccountedInv /\ [RNext]_rvars => AccountedInv'
  <1> SUFFICES ASSUME RTypeOK, AccountedInv, [RNext]_rvars PROVE AccountedInv'
    OBVIOUS
  <1> DEFINE due == SumOver(Entitled, claim_record)
  <1>a. TypeOK /\ RTypeOK' /\ claim_record \subseteq Indexes \X Users
        /\ claim_record' \subseteq Indexes \X Users
    BY RNextType DEF RTypeOK
  <1>b. supply \in Nat /\ VaultBalance \in Nat /\ Amounts \subseteq Nat
    BY <1>a, BalanceSums
  <1>c. supply <= VaultBalance + due /\ IsFiniteSet(claim_record)
    BY <1>a, AccountedAs DEF AccountedInv
  <1>1. CASE [Next]_vars /\ UNCHANGED <<epoch, claim_record>>
    <2>1. \A e, u : Entitlement(e, u)' = Entitlement(e, u)
      BY <1>1 DEF Entitlement, HasEpoch
    <2>2. SumOver(Entitled', claim_record) = due /\ due \in Nat
      BY <1>c, <2>1, ClaimsSum
    <2>3. /\ supply' \in Int /\ VaultBalance' \in Int
          /\ supply' - supply <= VaultBalance' - VaultBalance
      BY <1>1, <1>a, BackedStep
    <2>4. supply' <= VaultBalance' + due
      <3>1. supply \in Int /\ VaultBalance \in Int /\ due \in Int
            /\ supply <= VaultBalance + due
        BY <1>b, <1>c, <2>2
      <3> HIDE DEF due
      <3>. QED
        BY <2>3, <3>1, SameMargin
    <2>5. SupplyAccounted'
      BY <1>1, <1>a, <2>2, <2>4, AccountedAs
    <2>. QED
      BY <1>1, <2>5 DEF AccountedInv, HasEpoch
  <1>2. ASSUME NEW k \in Admins, NEW e \in Indexes, NEW root \in Roots, NEW total \in Totals,
               CreateRewardsEpoch(k, e, root, total)
        PROVE  AccountedInv'
    <2>1. \A i \in Indexes \ {e} : epoch'[i] = epoch[i]
      BY <1>2 DEF CreateRewardsEpoch, RTypeOK
    <2>2. \A c \in claim_record : c[1] \in Indexes \ {e}
      BY <1>2, <1>a DEF AccountedInv, CreateRewardsEpoch, MayCreateEpoch
    <2>3. \A c \in claim_record : Entitlement(c[1], c[2])' = Entitlement(c[1], c[2])
      BY <2>1, <2>2 DEF Entitlement, HasEpoch
    <2>4. SumOver(Entitled', claim_record) = due
      BY <1>c, <2>3, ClaimsSum
    <2>5. UNCHANGED <<supply, VaultBalance, claim_record>>
      BY <1>2 DEF CreateRewardsEpoch, vars, tokenVars, VaultBalance, MapThenSumSet, MapThenFoldSet
    <2>6. SupplyAccounted'
      BY <1>a, <1>c, <2>4, <2>5, AccountedAs
    <2>. QED
      BY <1>c, <2>1, <2>2, <2>5, <2>6 DEF AccountedInv, HasEpoch
  <1>3. ASSUME NEW u \in Users, NEW e \in Indexes, NEW acct \in StakeAccounts, NEW n \in Amounts,
               ClaimRewards(u, e, acct, n)
        PROVE  AccountedInv'
    <2> DEFINE c == <<e, u>>
               w == Entitled'
    <2>1. /\ c \notin claim_record /\ claim_record' = claim_record \cup {c}
          /\ supply' = supply + n /\ wylds' = wylds /\ epoch' = epoch /\ HasEpoch(e)
      BY <1>3 DEF ClaimRewards, ClaimAccounts, MintPrime
    <2>2. \A i, v : Entitlement(i, v)' = Entitlement(i, v)
      BY <2>1 DEF Entitlement, HasEpoch
    <2>3. SumOver(Entitled', claim_record) = due /\ due \in Nat
      BY <1>c, <2>2, ClaimsSum
    <2>4. n <= Entitlement(e, u)
      <3>1. n \in U64 /\ epoch[e].merkle_root.epoch = e
            /\ <<u, n>> \in epoch[e].merkle_root.allocations
        BY <1>3, <2>1, StakingAssumption DEF ClaimRewards, Proven, RTypeOK, HasEpoch
      <3>. QED
        BY <2>1, <3>1, EntitlementBound
    <2>5. w[c] = Entitlement(e, u) /\ w[c] \in Nat
      BY <2>2, EntitlementBound DEF Entitled
    <2>6. \A d \in claim_record \cup {c} : w[d] \in Int
      BY <1>a, EntitledType
    <2>7. SumOver(w, claim_record') = due + w[c]
      <3> HIDE DEF w, c
      <3>1. SumOver(w, claim_record \cup {c}) = SumOver(w, claim_record) + w[c]
        BY <1>c, <2>1, <2>6, SumOverAdd
      <3>. QED
        BY <2>1, <2>3, <3>1 DEF w
    <2>8. VaultBalance' = VaultBalance
      BY <2>1 DEF VaultBalance, MapThenSumSet, MapThenFoldSet
    <2>9. supply' <= VaultBalance' + SumOver(w, claim_record')
      <3> HIDE DEF w, c, due
      <3>. QED
        BY <1>b, <1>c, <2>1, <2>3, <2>4, <2>5, <2>7, <2>8
    <2>10. SupplyAccounted'
      BY <1>a, <2>9, AccountedAs
    <2>11. IsFiniteSet(claim_record')
      BY <1>c, <2>1, FS_AddElement
    <2>. QED
      BY <2>1, <2>10, <2>11 DEF AccountedInv, HasEpoch
  <1>. QED
    BY <1>1, <1>2, <1>3 DEF RNext, RewardsNext, rvars

(* The claims are finite, of posted epochs, and account for the supply.     *)
THEOREM AccountedHolds == RSpec => []AccountedInv
  <1>1. RInit => AccountedInv
    <2> SUFFICES ASSUME RInit PROVE AccountedInv
      OBVIOUS
    <2>1. VaultBalance \in Nat /\ supply = 0 /\ claim_record = {} /\ IsFiniteSet(claim_record)
      BY InitType, BalanceSums, FS_EmptySet DEF RInit, Init
    <2>2. SumOver(Entitled, claim_record) = 0
      BY <2>1, SumOverEmpty
    <2>3. SupplyAccounted
      BY <2>1, <2>2, AccountedAs
    <2>. QED
      BY <2>1, <2>3 DEF AccountedInv
  <1>. QED
    BY <1>1, AccountedNext, RTypeCorrect, PTL DEF RSpec

(* The supply never exceeds the wYLDS in the vaults and one entitlement for *)
(* every claim ever made, for any number of epochs, users and accounts.     *)
THEOREM SupplyIsAccounted == RSpec => []SupplyAccounted
  <1>1. AccountedInv => SupplyAccounted
    BY DEF AccountedInv
  <1>. QED
    BY <1>1, AccountedHolds, PTL
=============================================================================
