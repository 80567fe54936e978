--------------------------- MODULE StakingProofs ---------------------------
(***************************************************************************)
(* Theorems about Staking, for every set of users, accounts,               *)
(* administrators and amounts, every bound on the clock and every legal    *)
(* range of periods.                                                       *)
(***************************************************************************)
EXTENDS Staking, SumTheorems

USE DEF U64, TokenAccounts, Vaults

(* A transfer keeps every balance of the mint a balance. *)
LEMMA MovedType ==
  ASSUME NEW S, NEW b \in [S -> U64], NEW from \in S, NEW to \in S, NEW n \in U64,
         CanMove(b, from, to, n)
  PROVE  Moved(b, from, to, n) \in [S -> U64]
  BY SplTokenAssumption DEF CanMove, Moved, Credited, Debited

(* What a redemption moves is an amount, within the request and the balance. *)
LEMMA RedeemAmountBound ==
  ASSUME TypeOK, NEW u \in Users, HasTicket(u), NEW acct \in StakeAccounts
  PROVE  /\ RedeemAmount(u, acct) \in U64
         /\ RedeemAmount(u, acct) <= ticket[u].requested_amount
         /\ RedeemAmount(u, acct) <= prime[acct]
  <1>1. ticket[u] \in UnbondingTicket
    BY DEF TypeOK, HasTicket
  <1>2. ticket[u].requested_amount \in U64 /\ prime[acct] \in U64
    BY <1>1 DEF TypeOK, TokenTypeOK, UnbondingTicket
  <1>. QED
    BY <1>2, SplTokenAssumption DEF RedeemAmount

(* initialize and the first state of the token accounts are well typed. *)
LEMMA InitType == Init => TypeOK
  <1> SUFFICES ASSUME Init PROVE TypeOK
    OBVIOUS
  <1>1. TokenTypeOK
    BY SplTokenAssumption, StakingAssumption DEF Init, TokenTypeOK
  <1>2. ConfigTypeOK
    <2>1. PICK k \in Admins, p \in Periods, f \in FreezeLists, r \in RewardsLists :
            Initialize(k, p, f, r)
      BY DEF Init, ConfigInit
    <2>2. p \in MIN_UNBONDING_PERIOD .. MAX_UNBONDING_PERIOD
      BY <2>1, StakeConfigAssumption DEF Initialize, ValidPeriod
    <2>3. f \in Seq(Admins) /\ r \in Seq(Admins)
      BY StakeConfigAssumption
    <2>. QED
      BY <2>1, <2>2, <2>3 DEF Init, ConfigInit, Initialize, ValidAdministrators, ConfigTypeOK, Config
  <1>. QED
    BY <1>1, <1>2 DEF Init, TypeOK

(* An administrative instruction, or the loader, leaves a well-typed config. *)
LEMMA ConfigType == ConfigTypeOK /\ ConfigNext => ConfigTypeOK'
  <1> SUFFICES ASSUME ConfigTypeOK, ConfigNext PROVE ConfigTypeOK'
    OBVIOUS
  <1> USE DEF ConfigTypeOK, Config, ValidAdministrators
  <1>1. CASE \E k \in Admins, b \in BOOLEAN : Pause(k, b)
    BY <1>1 DEF Pause
  <1>2. CASE \E k \in Admins, p \in Periods : UpdateConfig(k, p)
    BY <1>2, StakeConfigAssumption DEF UpdateConfig, ValidPeriod
  <1>3. CASE \E k \in Admins, s \in FreezeLists : UpdateFreezeAdministrators(k, s)
    BY <1>3, StakeConfigAssumption DEF UpdateFreezeAdministrators
  <1>4. CASE \E k \in Admins, s \in RewardsLists : UpdateRewardsAdministrators(k, s)
    BY <1>4, StakeConfigAssumption DEF UpdateRewardsAdministrators
  <1>5. CASE \E k \in Admins \cup {NoKey} : SetUpgradeAuthority(k)
    BY <1>5 DEF SetUpgradeAuthority
  <1>. QED
    BY <1>1, <1>2, <1>3, <1>4, <1>5 DEF ConfigNext

(* Every instruction and every step of the environment keeps the types. *)
LEMMA NextType == TypeOK /\ [Next]_vars => TypeOK'
  <1> SUFFICES ASSUME TypeOK, [Next]_vars PROVE TypeOK'
    OBVIOUS
  <1> USE DEF TypeOK
  <1>a. \A n \in Amounts : n \in U64
    BY StakingAssumption
  <1>1. ASSUME NEW u \in Users, NEW from \in WyldsAccounts, NEW vault \in WyldsAccounts,
               NEW to \in StakeAccounts, NEW n \in Amounts, Deposit(u, from, vault, to, n)
        PROVE  TypeOK'
    <2>1. wylds' \in [WyldsAccounts -> U64]
      BY <1>1, <1>a, MovedType DEF Deposit, TransferWylds, TokenTypeOK
    <2>2. prime' \in [StakeAccounts -> U64] /\ supply' \in U64
      BY <1>1, <1>a, SplTokenAssumption DEF Deposit, MintPrime, Credited, TokenTypeOK
    <2>. QED
      BY <1>1, <2>1, <2>2 DEF Deposit, TokenTypeOK, ConfigTypeOK, configVars
  <1>2. ASSUME NEW u \in Users, NEW acct \in StakeAccounts, NEW n \in Amounts, Unbond(u, acct, n)
        PROVE  TypeOK'
    <2>1. ticket' \in [Users -> UnbondingTicket \cup {NoTicket}]
      BY <1>2, <1>a DEF Unbond, UnbondingTicket, TokenTypeOK
    <2>. QED
      BY <1>2, <2>1 DEF Unbond, TokenTypeOK, ConfigTypeOK, configVars, tokenVars
  <1>3. ASSUME NEW u \in Users, NEW vault \in WyldsAccounts, NEW dest \in WyldsAccounts,
               NEW acct \in StakeAccounts, Redeem(u, vault, dest, acct)
        PROVE  TypeOK'
    <2>1. RedeemAmount(u, acct) \in U64
      BY <1>3, RedeemAmountBound DEF Redeem, RedeemAccounts
    <2>2. wylds' \in [WyldsAccounts -> U64]
      BY <1>3, <2>1, MovedType DEF Redeem, TransferWylds, TokenTypeOK
    <2>3. prime' \in [StakeAccounts -> U64] /\ supply' \in U64
      BY <1>3, <2>1, SplTokenAssumption DEF Redeem, BurnPrime, Debited, TokenTypeOK
    <2>4. ticket' \in [Users -> UnbondingTicket \cup {NoTicket}]
      BY <1>3 DEF Redeem
    <2>. QED
      BY <1>3, <2>2, <2>3, <2>4 DEF Redeem, TokenTypeOK, ConfigTypeOK, configVars
  <1>4. CASE FreezeNext
    BY <1>4, SplTokenAssumption
    DEF FreezeNext, FreezeTokenAccount, ThawTokenAccount, FreezeAccount, ThawAccount,
        TokenTypeOK, ConfigTypeOK, configVars
  <1>5. ASSUME NEW from \in StakeAccounts, NEW to \in StakeAccounts, NEW n \in Amounts,
               SendPrime(from, to, n)
        PROVE  TypeOK'
    <2>1. prime' \in [StakeAccounts -> U64]
      BY <1>5, <1>a, MovedType DEF SendPrime, TransferPrime, TokenTypeOK
    <2>. QED
      BY <1>5, <2>1 DEF SendPrime, TokenTypeOK, ConfigTypeOK, configVars
  <1>6. ASSUME NEW from \in StakeAccounts, NEW n \in Amounts, RetirePrime(from, n)
        PROVE  TypeOK'
    <2>1. prime' \in [StakeAccounts -> U64] /\ supply' \in U64
      BY <1>6, <1>a, SplTokenAssumption DEF RetirePrime, BurnPrime, Debited, TokenTypeOK
    <2>. QED
      BY <1>6, <2>1 DEF RetirePrime, TokenTypeOK, ConfigTypeOK, configVars
  <1>7. ASSUME NEW from \in WyldsAccounts, NEW to \in WyldsAccounts, NEW n \in Amounts,
               SendWylds(from, to, n)
        PROVE  TypeOK'
    <2>1. wylds' \in [WyldsAccounts -> U64]
      BY <1>7, <1>a, MovedType DEF SendWylds, TransferWylds, TokenTypeOK
    <2>. QED
      BY <1>7, <2>1 DEF SendWylds, TokenTypeOK, ConfigTypeOK, configVars
  <1>8. CASE \E a \in Issued : IssuerFreeze(a)
    BY <1>8, StakingAssumption
    DEF IssuerFreeze, FreezeAccount, ThawAccount, TokenTypeOK, ConfigTypeOK, configVars
  <1>9. CASE Administer
    BY <1>9, ConfigType DEF Administer, TokenTypeOK, tokenVars
  <1>10. CASE Tick
    BY <1>10 DEF Tick, TokenTypeOK, ConfigTypeOK, tokenVars, configVars
  <1>11. CASE UNCHANGED vars
    BY <1>11 DEF vars, TokenTypeOK, ConfigTypeOK, tokenVars, configVars
  <1>. QED
    BY <1>1, <1>2, <1>3, <1>4, <1>5, <1>6, <1>7, <1>8, <1>9, <1>10, <1>11
    DEF Next, UserNext, RedeemStep, TokenNext

(* Type correctness of the staking program: balances and the supply stay    *)
(* within u64, the period within its limits and the lists within theirs,    *)
(* whatever is called.                                                      *)
THEOREM TypeCorrect == Spec => []TypeOK
  BY InitType, NextType, PTL DEF Spec
-----------------------------------------------------------------------------
(* Only redeem takes wYLDS out of a vault: a vault account is owned by the  *)
(* PDA, so no user can send from it.                                        *)
LEMMA VaultNotSender ==
  ASSUME NEW a \in Vaults
  PROVE  OwnerOf[a] \notin Users
  BY SplTokenAssumption

(* Apart from unbond, which opens a ticket where there is none, and redeem, *)
(* no step touches a ticket, and apart from redeem none draws on a vault.   *)
LEMMA OnlyRedeemPays ==
  ASSUME TypeOK, Next, ~ \E u \in Users : RedeemStep(u)
  PROVE  /\ \A u \in Users : HasTicket(u) => ticket'[u] = ticket[u]
         /\ \A v \in Vaults : wylds'[v] >= wylds[v]
  <1>a. /\ wylds \in [WyldsAccounts -> U64] /\ U64 \subseteq Nat /\ Amounts \subseteq U64
        /\ ticket \in [Users -> UnbondingTicket \cup {NoTicket}]
    BY StakingAssumption, SplTokenAssumption DEF TypeOK, TokenTypeOK
  <1>b. \A a \in WyldsAccounts, v \in Vaults : OwnerOf[a] \in Users => a # v
    BY VaultNotSender
  <1>1. ASSUME NEW u \in Users, NEW from \in WyldsAccounts, NEW vault \in WyldsAccounts,
               NEW to \in StakeAccounts, NEW n \in Amounts, Deposit(u, from, vault, to, n)
        PROVE  ticket' = ticket /\ \A v \in Vaults : wylds'[v] >= wylds[v]
    <2>1. n \in Nat /\ \A v \in Vaults : from # v
      BY <1>a, <1>b, <1>1 DEF Deposit, DepositAccounts
    <2>. QED
      BY <1>a, <1>1, <2>1 DEF Deposit, TransferWylds, Moved, Credited, Debited
  <1>2. ASSUME NEW u \in Users, NEW acct \in StakeAccounts, NEW n \in Amounts, Unbond(u, acct, n)
        PROVE  /\ \A w \in Users : HasTicket(w) => ticket'[w] = ticket[w]
               /\ wylds' = wylds
    BY <1>a, <1>2 DEF Unbond, UnbondAccounts, HasTicket, tokenVars
  <1>3. ASSUME NEW from \in WyldsAccounts, NEW to \in WyldsAccounts, NEW n \in Amounts,
               SendWylds(from, to, n)
        PROVE  ticket' = ticket /\ \A v \in Vaults : wylds'[v] >= wylds[v]
    <2>1. n \in Nat /\ \A v \in Vaults : from # v
      BY <1>a, <1>b, <1>3 DEF SendWylds
    <2>. QED
      BY <1>a, <1>3, <2>1 DEF SendWylds, TransferWylds, Moved, Credited, Debited
  <1>4. CASE UNCHANGED <<ticket, wylds>>
    BY <1>a, <1>4
  <1>5. CASE FreezeNext \/ Administer \/ Tick
    BY <1>4, <1>5
    DEF FreezeNext, FreezeTokenAccount, ThawTokenAccount, Administer, Tick, tokenVars
  <1>6. CASE \/ \E from, to \in StakeAccounts, n \in Amounts : SendPrime(from, to, n)
             \/ \E from \in StakeAccounts, n \in Amounts : RetirePrime(from, n)
             \/ \E a \in Issued : IssuerFreeze(a)
    BY <1>4, <1>6 DEF SendPrime, RetirePrime, IssuerFreeze
  <1>. QED
    BY <1>a, <1>1, <1>2, <1>3, <1>5, <1>6 DEF Next, UserNext, TokenNext

(* What redeem does to the vault, the ticket and the user, in one place.    *)
LEMMA RedeemEffect ==
  ASSUME TypeOK, NEW u \in Users, NEW vault \in WyldsAccounts, NEW dest \in WyldsAccounts,
         NEW acct \in StakeAccounts, Redeem(u, vault, dest, acct)
  PROVE  LET n == RedeemAmount(u, acct) IN
         /\ n \in Nat \ {0} /\ n <= ticket[u].requested_amount
         /\ HasTicket(u) /\ ticket' = [ticket EXCEPT ![u] = NoTicket]
         /\ now - ticket[u].start_ts >= MIN_UNBONDING_PERIOD
         /\ supply - supply' = n
         /\ dest # vault /\ OwnerOf[dest] = u /\ wylds' = Moved(wylds, vault, dest, n)
         /\ wylds'[vault] = wylds[vault] - n
         /\ wylds'[dest] = wylds[dest] + n
         /\ \A a \in WyldsAccounts \ {vault, dest} : wylds'[a] = wylds[a]
  <1> DEFINE n == RedeemAmount(u, acct)
  <1>a. /\ wylds \in [WyldsAccounts -> U64] /\ U64 \subseteq Nat /\ supply \in Nat
        /\ ticket[u] \in UnbondingTicket /\ now \in Nat
        /\ config.unbonding_period \in MIN_UNBONDING_PERIOD .. MAX_UNBONDING_PERIOD
    BY SplTokenAssumption
    DEF TypeOK, TokenTypeOK, ConfigTypeOK, Config, Redeem, RedeemAccounts, HasTicket
  <1>1. n \in Nat \ {0} /\ n <= ticket[u].requested_amount
    BY <1>a, RedeemAmountBound DEF Redeem, RedeemAccounts
  <1>2. dest # vault /\ OwnerOf[dest] = u
    BY VaultNotSender DEF Redeem, RedeemAccounts
  <1>3. now - ticket[u].start_ts >= MIN_UNBONDING_PERIOD
    BY <1>a, StakeConfigAssumption DEF Redeem, Elapsed, UnbondingTicket
  <1>4. supply - supply' = n /\ wylds' = Moved(wylds, vault, dest, n)
    BY <1>a, <1>1 DEF Redeem, BurnPrime, TransferWylds
  <1>5. /\ wylds'[vault] = wylds[vault] - n
        /\ wylds'[dest] = wylds[dest] + n
        /\ \A a \in WyldsAccounts \ {vault, dest} : wylds'[a] = wylds[a]
    BY <1>a, <1>1, <1>2, <1>4 DEF Moved, Credited, Debited
  <1>. QED
    BY <1>1, <1>2, <1>3, <1>4, <1>5 DEF Redeem, RedeemAccounts

(* No step takes wYLDS out of a vault but a covered payout.                 *)
LEMMA PayoutStep == TypeOK /\ [Next]_vars => [PaysOnlyCovered]_vars
  <1> SUFFICES ASSUME TypeOK, Next, NEW v \in Vaults, wylds'[v] < wylds[v]
               PROVE  CoveredPayout(v)
    BY DEF PaysOnlyCovered
  <1>a. wylds[v] \in Nat /\ \A a \in WyldsAccounts : wylds[a] \in Nat
    BY SplTokenAssumption DEF TypeOK, TokenTypeOK
  <1>1. CASE \E u \in Users : RedeemStep(u)
    <2>1. PICK u \in Users, vault, dest \in WyldsAccounts, acct \in StakeAccounts :
            Redeem(u, vault, dest, acct)
      BY <1>1 DEF RedeemStep
    <2> DEFINE n == RedeemAmount(u, acct)
    <2>2. n \in Nat /\ wylds'[vault] = wylds[vault] - n /\ wylds'[dest] = wylds[dest] + n
          /\ \A a \in WyldsAccounts \ {vault, dest} : wylds'[a] = wylds[a]
      BY <2>1, RedeemEffect
    <2> HIDE DEF n
    <2>3. v = vault /\ wylds[v] - wylds'[v] = n
      BY <1>a, <2>2
    <2>. QED
      BY <2>1, <2>3, RedeemEffect DEF CoveredPayout, n
  <1>2. CASE ~ \E u \in Users : RedeemStep(u)
    <2>1. wylds'[v] >= wylds[v]
      BY <1>2, OnlyRedeemPays
    <2>2. wylds'[v] \in Nat
      BY NextType, SplTokenAssumption DEF TypeOK, TokenTypeOK
    <2>. QED
      BY <1>a, <2>1, <2>2
  <1>. QED
    BY <1>1, <1>2

(* Every wYLDS that leaves a vault is covered by a waited-for ticket and an *)
(* equal burn, and goes to the owner of the ticket.                         *)
THEOREM PayoutsCovered == Spec => PayoutCovered
  BY PayoutStep, TypeCorrect, PTL DEF Spec, PayoutCovered

(* No step ends or changes a ticket but the payout to its owner.            *)
LEMMA TicketStep == TypeOK /\ [Next]_vars => [EndsInPayout]_vars
  <1> SUFFICES ASSUME TypeOK, Next, NEW w \in Users, HasTicket(w), ticket'[w] # ticket[w]
               PROVE  /\ ticket'[w] = NoTicket
                      /\ \E dest \in WyldsAccounts :
                            OwnerOf[dest] = w /\ wylds'[dest] > wylds[dest]
    BY DEF EndsInPayout
  <1>1. PICK u \in Users, vault, dest \in WyldsAccounts, acct \in StakeAccounts :
          Redeem(u, vault, dest, acct)
    BY OnlyRedeemPays DEF RedeemStep
  <1> DEFINE n == RedeemAmount(u, acct)
  <1>2. /\ n \in Nat \ {0} /\ ticket' = [ticket EXCEPT ![u] = NoTicket]
        /\ OwnerOf[dest] = u /\ wylds'[dest] = wylds[dest] + n
    BY <1>1, RedeemEffect
  <1> HIDE DEF n
  <1>3. u = w /\ ticket'[w] = NoTicket
    BY <1>2 DEF TypeOK
  <1>4. wylds[dest] \in Nat
    BY SplTokenAssumption DEF TypeOK, TokenTypeOK
  <1>. QED
    BY <1>2, <1>3, <1>4

(* A ticket lives until its owner is paid, unchanged.                       *)
THEOREM TicketsStable == Spec => TicketStable
  BY TicketStep, TypeCorrect, PTL DEF Spec, TicketStable

(* Crediting an account adds to a sum over a set of accounts exactly if the *)
(* account is in it; a transfer is a debit and a credit.                    *)
LEMMA CreditedSum ==
  ASSUME NEW A, NEW S \in SUBSET A, IsFiniteSet(S), NEW b \in [A -> Int], NEW a \in A, NEW n \in Int
  PROVE  SumOver(Credited(b, a, n), S) = SumOver(b, S) + (IF a \in S THEN n ELSE 0)
  <1> DEFINE c == Credited(b, a, n)
  <1>1. c \in [A -> Int] /\ c[a] = b[a] + n /\ \A x \in A \ {a} : c[x] = b[x]
    BY DEF Credited
  <1> HIDE DEF c
  <1>2. SumOver(c, S) = SumOver(b, S) + (IF a \in S THEN n ELSE 0)
    BY <1>1, SumOverCredit
  <1>. QED
    BY <1>2 DEF c

LEMMA DebitedSum ==
  ASSUME NEW A, NEW S \in SUBSET A, IsFiniteSet(S), NEW b \in [A -> Int], NEW a \in A, NEW n \in Int
  PROVE  SumOver(Debited(b, a, n), S) = SumOver(b, S) - (IF a \in S THEN n ELSE 0)
  <1> DEFINE c == Debited(b, a, n)
             m == -n
  <1>1. /\ c \in [A -> Int] /\ m \in Int
        /\ c[a] = b[a] + m /\ \A x \in A \ {a} : c[x] = b[x]
    BY DEF Debited
  <1>2. SumOver(b, S) \in Int
    BY SumOverTakeOut
  <1> HIDE DEF c, m
  <1>3. SumOver(c, S) = SumOver(b, S) + (IF a \in S THEN m ELSE 0)
    BY <1>1, SumOverCredit
  <1>. QED
    BY <1>2, <1>3 DEF c, m

LEMMA MovedSum ==
  ASSUME NEW A, NEW S \in SUBSET A, IsFiniteSet(S), NEW b \in [A -> Int],
         NEW from \in A, NEW to \in A, NEW n \in Int
  PROVE  SumOver(Moved(b, from, to, n), S)
           = SumOver(b, S) - (IF from \in S THEN n ELSE 0) + (IF to \in S THEN n ELSE 0)
  <1>1. Debited(b, from, n) \in [A -> Int]
    BY DEF Debited
  <1>2. SumOver(Debited(b, from, n), S) = SumOver(b, S) - (IF from \in S THEN n ELSE 0)
    BY DebitedSum
  <1>3. SumOver(Moved(b, from, to, n), S)
          = SumOver(Debited(b, from, n), S) + (IF to \in S THEN n ELSE 0)
    BY <1>1, CreditedSum DEF Moved
  <1>. QED
    BY <1>2, <1>3

(* The sums the properties speak of.                                        *)
LEMMA BalanceSums ==
  ASSUME TypeOK
  PROVE  /\ VaultBalance = SumOver(wylds, Vaults)
         /\ wylds \in [WyldsAccounts -> Int] /\ prime \in [StakeAccounts -> Int]
         /\ VaultBalance \in Nat /\ supply \in Nat /\ Amounts \subseteq Nat
         /\ Vaults \in SUBSET WyldsAccounts /\ IsFiniteSet(Vaults) /\ IsFiniteSet(StakeAccounts)
  <1>1. VaultBalance = SumOver(wylds, Vaults)
    BY DEF VaultBalance, SumOver, MapThenSumSet, MapThenFoldSet
  <1>2. Vaults \in SUBSET TokenAccounts /\ StakeAccounts \in SUBSET TokenAccounts
    OBVIOUS
  <1>3. IsFiniteSet(Vaults) /\ IsFiniteSet(StakeAccounts)
    <2> HIDE DEF TokenAccounts, Vaults
    <2>. QED
      BY <1>2, SplTokenAssumption, FS_Subset
  <1>4. \A a \in WyldsAccounts : wylds[a] \in Nat
    BY SplTokenAssumption DEF TypeOK, TokenTypeOK
  <1>5. SumOver(wylds, Vaults) \in Nat
    BY <1>3, <1>4, SumOverCovers
  <1>. QED
    BY <1>1, <1>3, <1>5, SplTokenAssumption, StakingAssumption DEF TypeOK, TokenTypeOK

(* What a transfer of wYLDS does to the vaults together.                    *)
LEMMA VaultsAfterMove ==
  ASSUME TypeOK, NEW from \in WyldsAccounts, NEW to \in WyldsAccounts, NEW n \in Nat,
         wylds' = Moved(wylds, from, to, n)
  PROVE  VaultBalance' = VaultBalance - (IF from \in Vaults THEN n ELSE 0)
                                      + (IF to \in Vaults THEN n ELSE 0)
  <1>1. VaultBalance' = SumOver(wylds', Vaults)
    BY DEF VaultBalance, SumOver, MapThenSumSet, MapThenFoldSet
  <1>2. /\ Vaults \in SUBSET WyldsAccounts /\ IsFiniteSet(Vaults) /\ wylds \in [WyldsAccounts -> Int]
        /\ VaultBalance = SumOver(wylds, Vaults) /\ n \in Int
    BY BalanceSums
  <1> HIDE DEF Vaults
  <1>3. SumOver(Moved(wylds, from, to, n), Vaults)
          = SumOver(wylds, Vaults) - (IF from \in Vaults THEN n ELSE 0)
                                   + (IF to \in Vaults THEN n ELSE 0)
    BY <1>2, MovedSum
  <1>. QED
    BY <1>1, <1>2, <1>3

(* What every step does to the supply and to the vaults together: deposit   *)
(* adds the same to both, redeem takes the same from both, gifts add to the *)
(* vaults, burns take from the supply.                                      *)
LEMMA DepositFlow ==
  ASSUME TypeOK, NEW u \in Users, NEW from \in WyldsAccounts, NEW vault \in WyldsAccounts,
         NEW to \in StakeAccounts, NEW n \in Amounts, Deposit(u, from, vault, to, n)
  PROVE  n \in Nat /\ supply' = supply + n /\ VaultBalance' = VaultBalance + n
  <1>1. n \in Nat /\ vault \in Vaults /\ from \notin Vaults
    BY BalanceSums, VaultNotSender DEF Deposit, DepositAccounts
  <1>2. supply' = supply + n /\ wylds' = Moved(wylds, from, vault, n)
    BY DEF Deposit, MintPrime, TransferWylds
  <1> HIDE DEF Vaults
  <1>. QED
    BY <1>1, <1>2, BalanceSums, VaultsAfterMove

LEMMA RedeemFlow ==
  ASSUME TypeOK, NEW u \in Users, NEW vault \in WyldsAccounts, NEW dest \in WyldsAccounts,
         NEW acct \in StakeAccounts, Redeem(u, vault, dest, acct)
  PROVE  LET n == RedeemAmount(u, acct)
         IN  n \in Nat /\ supply' = supply - n /\ VaultBalance' = VaultBalance - n
  <1> DEFINE n == RedeemAmount(u, acct)
  <1>1. n \in Nat /\ wylds' = Moved(wylds, vault, dest, n) /\ OwnerOf[dest] = u
    BY RedeemEffect
  <1>2. vault \in Vaults /\ dest \notin Vaults
    BY <1>1, VaultNotSender DEF Redeem, RedeemAccounts
  <1>3. supply' = supply - n
    BY DEF Redeem, BurnPrime
  <1> HIDE DEF n, Vaults
  <1>4. VaultBalance' = VaultBalance - n
    BY <1>1, <1>2, BalanceSums, VaultsAfterMove
  <1>. QED
    BY <1>1, <1>3, <1>4 DEF n

LEMMA GiftFlow ==
  ASSUME TypeOK, NEW from \in WyldsAccounts, NEW to \in WyldsAccounts, NEW n \in Amounts,
         SendWylds(from, to, n)
  PROVE  /\ n \in Nat /\ supply' = supply
         /\ VaultBalance' = VaultBalance + (IF to \in Vaults THEN n ELSE 0)
  <1>1. n \in Nat /\ from \notin Vaults
    BY BalanceSums, VaultNotSender DEF SendWylds
  <1>2. supply' = supply /\ wylds' = Moved(wylds, from, to, n)
    BY DEF SendWylds, TransferWylds
  <1> HIDE DEF Vaults
  <1>. QED
    BY <1>1, <1>2, BalanceSums, VaultsAfterMove

LEMMA OtherFlow ==
  ASSUME TypeOK,
         \/ \E u \in Users, acct \in StakeAccounts, n \in Amounts : Unbond(u, acct, n)
         \/ \E from, to \in StakeAccounts, n \in Amounts : SendPrime(from, to, n)
         \/ \E from \in StakeAccounts, n \in Amounts : RetirePrime(from, n)
         \/ \E a \in Issued : IssuerFreeze(a)
         \/ FreezeNext \/ Administer \/ Tick \/ UNCHANGED vars
  PROVE  wylds' = wylds /\ VaultBalance' = VaultBalance /\ supply' \in Int /\ supply' <= supply
  <1>a. supply \in Nat /\ Amounts \subseteq Nat
    BY BalanceSums
  <1>1. wylds' = wylds
    BY DEF Unbond, SendPrime, RetirePrime, IssuerFreeze, FreezeNext, FreezeTokenAccount,
           ThawTokenAccount, Administer, Tick, tokenVars, vars
  <1>2. supply' = supply \/ \E n \in Amounts : supply' = supply - n
    BY DEF Unbond, SendPrime, RetirePrime, BurnPrime, IssuerFreeze, FreezeNext,
           FreezeTokenAccount, ThawTokenAccount, Administer, Tick, tokenVars, vars
  <1>3. VaultBalance' = VaultBalance
    BY <1>1 DEF VaultBalance, MapThenSumSet, MapThenFoldSet
  <1>. QED
    BY <1>a, <1>1, <1>2, <1>3

LEMMA BackedStep ==
  ASSUME TypeOK, [Next]_vars
  PROVE  /\ supply' \in Int /\ VaultBalance' \in Int
         /\ supply' - supply <= VaultBalance' - VaultBalance
  <1>a. supply \in Nat /\ VaultBalance \in Nat
    BY BalanceSums
  <1>1. CASE \E u \in Users, from, vault \in WyldsAccounts, to \in StakeAccounts, n \in Amounts :
               Deposit(u, from, vault, to, n)
    BY <1>a, <1>1, DepositFlow
  <1>2. CASE \E u \in Users : RedeemStep(u)
    BY <1>a, <1>2, RedeemFlow DEF RedeemStep
  <1>3. CASE \E from, to \in WyldsAccounts, n \in Amounts : SendWylds(from, to, n)
    BY <1>a, <1>3, GiftFlow
  <1>. QED
    BY <1>a, <1>1, <1>2, <1>3, OtherFlow DEF Next, UserNext, TokenNext

(* In every reachable state of the program without rewards the wYLDS in the *)
(* vault accounts together covers all PRIME in circulation, whatever vault  *)
(* account each deposit and each redemption was given.                      *)
THEOREM BackedHolds == Spec => []Backed
  <1>1. Init => Backed
    <2> SUFFICES ASSUME Init PROVE Backed
      OBVIOUS
    <2>1. VaultBalance \in Nat
      BY InitType, BalanceSums
    <2>. QED
      BY <2>1 DEF Init, Backed
  <1>2. TypeOK /\ Backed /\ [Next]_vars => Backed'
    <2> SUFFICES ASSUME TypeOK, Backed, [Next]_vars PROVE Backed'
      OBVIOUS
    <2>. QED
      BY BalanceSums, BackedStep DEF Backed
  <1>. QED
    BY <1>1, <1>2, TypeCorrect, PTL DEF Spec

(* Every PRIME in circulation is in some account: minting and burning       *)
(* change an account and the supply alike, transfers change neither in sum. *)
SupplyHeld == supply = SumOver(prime, StakeAccounts)

LEMMA HeldStep ==
  ASSUME TypeOK, SupplyHeld, [Next]_vars
  PROVE  SupplyHeld'
  <1> DEFINE held == SumOver(prime, StakeAccounts)
  <1>a. /\ prime \in [StakeAccounts -> Int] /\ IsFiniteSet(StakeAccounts)
        /\ StakeAccounts \in SUBSET StakeAccounts /\ Amounts \subseteq Int
    BY BalanceSums
  <1>b. held = supply /\ (SupplyHeld' <=> supply' = SumOver(prime', StakeAccounts))
    BY DEF SupplyHeld
  <1>1. ASSUME NEW to \in StakeAccounts, NEW n \in Amounts, MintPrime(to, n)
        PROVE  SupplyHeld'
    <2>1. SumOver(Credited(prime, to, n), StakeAccounts) = held + n
      BY <1>a, CreditedSum
    <2> HIDE DEF held
    <2>. QED
      BY <1>1, <1>b, <2>1 DEF MintPrime, held
  <1>2. ASSUME NEW from \in StakeAccounts, NEW n \in Int, BurnPrime(from, n)
        PROVE  SupplyHeld'
    <2>1. SumOver(Debited(prime, from, n), StakeAccounts) = held - n
      BY <1>a, DebitedSum
    <2> HIDE DEF held
    <2>. QED
      BY <1>2, <1>b, <2>1 DEF BurnPrime, held
  <1>3. ASSUME NEW from \in StakeAccounts, NEW to \in StakeAccounts, NEW n \in Amounts,
               SendPrime(from, to, n)
        PROVE  SupplyHeld'
    <2>1. SumOver(Moved(prime, from, to, n), StakeAccounts) = held - n + n
      BY <1>a, MovedSum
    <2>2. supply \in Int /\ n \in Int
      BY BalanceSums
    <2> HIDE DEF held
    <2>. QED
      BY <1>3, <1>b, <2>1, <2>2 DEF SendPrime, TransferPrime
  <1>4. CASE UNCHANGED <<prime, supply>>
    BY <1>4, <1>b
  <1>5. CASE \E u \in Users : UserNext(u)
    <2>1. ASSUME NEW u \in Users, NEW vault \in WyldsAccounts, NEW dest \in WyldsAccounts,
                 NEW acct \in StakeAccounts, Redeem(u, vault, dest, acct)
          PROVE  SupplyHeld'
      <3>1. RedeemAmount(u, acct) \in Int
        BY <2>1, RedeemEffect
      <3>. QED
        BY <1>2, <2>1, <3>1 DEF Redeem
    <2>. QED
      BY <1>1, <1>4, <1>5, <2>1 DEF UserNext, RedeemStep, Deposit, Unbond, tokenVars
  <1>6. CASE TokenNext
    BY <1>2, <1>3, <1>4, <1>6, <1>a DEF TokenNext, RetirePrime, SendWylds, IssuerFreeze
  <1>7. CASE FreezeNext \/ Administer \/ Tick \/ UNCHANGED vars
    BY <1>4, <1>7
    DEF FreezeNext, FreezeTokenAccount, ThawTokenAccount, Administer, Tick, tokenVars, vars
  <1>. QED
    BY <1>5, <1>6, <1>7 DEF Next

LEMMA HeldInit == Init => SupplyHeld
  <1> SUFFICES ASSUME Init PROVE SupplyHeld
    OBVIOUS
  <1>1. /\ IsFiniteSet(StakeAccounts) /\ \A a \in StakeAccounts : prime[a] = 0
        /\ supply = 0
    BY InitType, BalanceSums DEF Init
  <1>2. SumOver(prime, StakeAccounts) = 0
    BY <1>1, SumOverZero
  <1>. QED
    BY <1>1, <1>2 DEF SupplyHeld

(* No PRIME is created or lost between the mint and the accounts.           *)
THEOREM SupplyIsHeld == Spec => []SupplyHeld
  <1>1. TypeOK /\ SupplyHeld /\ [Next]_vars => SupplyHeld'
    BY HeldStep
  <1>. QED
    BY <1>1, HeldInit, TypeCorrect, PTL DEF Spec

(* What is due on a ticket is an amount, and some account of its owner      *)
(* holds as much, unless nothing is due.                                    *)
LEMMA DueHeld ==
  ASSUME TypeOK, NEW u \in Users
  PROVE  /\ Due(u) \in Nat
         /\ Due(u) = 0 \/ \E a \in StakeAccounts : OwnerOf[a] = u /\ Due(u) <= prime[a]
  <1> DEFINE S == {0} \cup {RedeemAmount(u, a) :
                              a \in {b \in StakeAccounts : HasTicket(u) /\ OwnerOf[b] = u}}
  <1>1. S \subseteq 0 .. MaxU64 /\ S # {} /\ MaxU64 \in Nat
    BY RedeemAmountBound, SplTokenAssumption
  <1>2. Due(u) = Max(S)
    BY DEF Due
  <1>3. Due(u) \in S
    <2> HIDE DEF S
    <2>. QED
      BY <1>1, <1>2, MaxIsGreatest
  <1>4. \A a \in StakeAccounts : HasTicket(u) => RedeemAmount(u, a) <= prime[a]
    BY RedeemAmountBound
  <1>. QED
    BY <1>1, <1>3, <1>4

(* What is due together is held together, because no account has two        *)
(* owners, and what is held is in circulation.                              *)
LEMMA DueWithinSupply ==
  ASSUME TypeOK, SupplyHeld
  PROVE  MapThenSumSet(Due, Users) <= supply /\ MapThenSumSet(Due, Users) \in Nat
  <1> DEFINE J == Users \cup {VaultAuthority}
             F(u) == Fibre(OwnerOf, StakeAccounts, u)
             d == [u \in Users |-> Due(u)]
             h == FibreSums(prime, OwnerOf, StakeAccounts, J)
  <1>1. MapThenSumSet(Due, Users) = SumOver(d, Users)
    <2>1. MapThenSumSet(Due, Users) = SumOver([u \in Users |-> Due(u)], Users)
      BY DEF SumOver, MapThenSumSet, MapThenFoldSet
    <2>. QED
      BY <2>1
  <1>2. /\ IsFiniteSet(Users) /\ IsFiniteSet(J) /\ Users \in SUBSET J
        /\ IsFiniteSet(StakeAccounts) /\ \A a \in StakeAccounts : OwnerOf[a] \in J
        /\ \A a \in StakeAccounts : prime[a] \in Nat
    BY BalanceSums, SplTokenAssumption, FS_AddElement DEF TypeOK, TokenTypeOK
  <1>3. \A u \in J : IsFiniteSet(F(u)) /\ F(u) \in SUBSET StakeAccounts
    <2>1. \A u : F(u) \in SUBSET StakeAccounts
      BY DEF Fibre
    <2>. QED
      BY <1>2, <2>1, FS_Subset
  <1>4. \A u \in J : h[u] \in Nat /\ \A a \in F(u) : prime[a] <= h[u]
    <2> SUFFICES ASSUME NEW u \in J
                 PROVE  h[u] \in Nat /\ \A a \in F(u) : prime[a] <= h[u]
      OBVIOUS
    <2>1. h[u] = SumOver(prime, F(u))
      BY DEF FibreSums
    <2> HIDE DEF F, J, h
    <2>2. IsFiniteSet(F(u)) /\ \A a \in F(u) : prime[a] \in Nat
      BY <1>2, <1>3
    <2>. QED
      BY <2>1, <2>2, SumOverCovers
  <1>5. SumOver(prime, StakeAccounts) = SumOver(h, J)
    <2> HIDE DEF J
    <2>. QED
      BY <1>2, SumOverFibres
  <1>6. \A u \in Users : d[u] \in Nat /\ d[u] <= h[u] /\ h[u] \in Nat
    <2> SUFFICES ASSUME NEW u \in Users
                 PROVE  Due(u) \in Nat /\ Due(u) <= h[u] /\ h[u] \in Nat
      OBVIOUS
    <2>1. Due(u) \in Nat /\ h[u] \in Nat
      BY <1>4, DueHeld
    <2>2. CASE Due(u) = 0
      BY <2>1, <2>2
    <2>3. ASSUME NEW a \in StakeAccounts, OwnerOf[a] = u, Due(u) <= prime[a]
          PROVE  Due(u) <= h[u]
      <3>1. a \in F(u)
        BY <2>3 DEF Fibre
      <3>2. prime[a] <= h[u] /\ prime[a] \in Nat
        BY <1>2, <1>4, <3>1
      <3> HIDE DEF h
      <3>. QED
        BY <2>1, <2>3, <3>2
    <2>. QED
      BY <2>1, <2>2, <2>3, DueHeld
  <1> HIDE DEF d, h, J
  <1>7. SumOver(d, Users) <= SumOver(h, Users)
    BY <1>2, <1>6, SumOverBound
  <1>8. SumOver(h, Users) <= SumOver(h, J)
    BY <1>2, <1>4, SumOverMore
  <1>9. SumOver(d, Users) \in Nat /\ SumOver(h, Users) \in Nat /\ SumOver(h, J) \in Nat
    BY <1>2, <1>4, <1>6, SumOverCovers
  <1>. QED
    BY <1>1, <1>5, <1>7, <1>8, <1>9 DEF SupplyHeld

(* All holders of tickets can be paid at once, for any number of users,     *)
(* accounts and vaults.                                                     *)
THEOREM AllTicketsAreCovered == Spec => []AllTicketsCovered
  <1>1. TypeOK /\ Backed /\ SupplyHeld => AllTicketsCovered
    <2> SUFFICES ASSUME TypeOK, Backed, SupplyHeld
                 PROVE  MapThenSumSet(Due, Users) <= VaultBalance
      BY DEF AllTicketsCovered
    <2>1. supply <= VaultBalance /\ supply \in Nat /\ VaultBalance \in Nat
      BY BalanceSums DEF Backed
    <2>. QED
      BY <2>1, DueWithinSupply
  <1>. QED
    BY <1>1, TypeCorrect, BackedHolds, SupplyIsHeld, PTL

(* While the program is paused no step opens or closes a ticket, mints or   *)
(* draws on a vault.                                                        *)
LEMMA PausedStep == TypeOK /\ [Next]_vars => [StopsWhilePaused]_vars
  <1> SUFFICES ASSUME TypeOK, Next, config.paused
               PROVE  /\ ticket' = ticket
                      /\ supply' <= supply
                      /\ \A v \in Vaults : wylds'[v] >= wylds[v]
    BY DEF StopsWhilePaused
  <1> USE DEF TypeOK, TokenTypeOK
  <1>1. ~ \E u \in Users : UserNext(u)
    BY DEF UserNext, RedeemStep, Deposit, Unbond, Redeem
  <1>2. CASE \E from, to \in StakeAccounts, n \in Amounts : SendPrime(from, to, n)
    BY <1>2, SplTokenAssumption DEF SendPrime
  <1>3. CASE \E from \in StakeAccounts, n \in Amounts : RetirePrime(from, n)
    BY <1>3, SplTokenAssumption, StakingAssumption DEF RetirePrime, BurnPrime
  <1>4. ASSUME NEW from \in WyldsAccounts, NEW to \in WyldsAccounts, NEW n \in Amounts,
               SendWylds(from, to, n)
        PROVE  \A v \in Vaults : wylds'[v] >= wylds[v]
    BY <1>4, VaultNotSender, SplTokenAssumption, StakingAssumption
    DEF SendWylds, TransferWylds, Moved, Credited, Debited
  <1>5. CASE \E from, to \in WyldsAccounts, n \in Amounts : SendWylds(from, to, n)
    BY <1>4, <1>5, SplTokenAssumption DEF SendWylds
  <1>6. CASE (\E a \in Issued : IssuerFreeze(a)) \/ FreezeNext
    BY <1>6, SplTokenAssumption
    DEF IssuerFreeze, FreezeNext, FreezeTokenAccount, ThawTokenAccount
  <1>7. CASE Administer \/ Tick
    BY <1>7, SplTokenAssumption DEF Administer, Tick, tokenVars
  <1>. QED
    BY <1>1, <1>2, <1>3, <1>5, <1>6, <1>7 DEF Next, TokenNext

(* A paused program opens and closes no ticket, mints nothing and pays      *)
(* nothing: the pause check stands in all three staking instructions.       *)
THEOREM PauseHolds == Spec => PauseStopsProgram
  BY PausedStep, TypeCorrect, PTL DEF Spec, PauseStopsProgram

(* No step of a program without an upgrade authority changes what is fixed. *)
LEMMA FixedStep == TypeOK /\ [Next]_vars => [FixedForGood]_vars
  <1> SUFFICES ASSUME TypeOK, Next, upgradeAuthority = NoKey
               PROVE  FixedForGood
    BY DEF FixedForGood
  <1> USE DEF TypeOK, TokenTypeOK, FixedForGood
  <1>1. ~ Administer
    BY DEF Administer, ConfigNext, Pause, UpdateConfig, UpdateFreezeAdministrators,
           UpdateRewardsAdministrators, SetUpgradeAuthority, ValidUpdateAuthority
  <1>2. ASSUME FreezeNext, config.freeze_administrators = <<>>
        PROVE  FALSE
    BY <1>2 DEF FreezeNext, FreezeTokenAccount, ThawTokenAccount, IsFreezeAdministrator
  <1>3. CASE FreezeNext
    BY <1>2, <1>3 DEF FreezeNext, FreezeTokenAccount, ThawTokenAccount, configVars
  <1>4. CASE \E a \in Issued : IssuerFreeze(a)
    BY <1>4, StakingAssumption
    DEF IssuerFreeze, FreezeAccount, ThawAccount, configVars
  <1>5. CASE \E from, to \in StakeAccounts, n \in Amounts : SendPrime(from, to, n)
    BY <1>5
    DEF SendPrime, TransferPrime, CanMove, Moved, Credited, Debited, configVars
  <1>6. CASE \E from \in StakeAccounts, n \in Amounts : RetirePrime(from, n)
    BY <1>6 DEF RetirePrime, BurnPrime, Debited, configVars
  <1>7. CASE \E from, to \in WyldsAccounts, n \in Amounts : SendWylds(from, to, n)
    BY <1>7 DEF SendWylds, configVars
  <1>8. CASE Tick
    BY <1>8 DEF Tick, tokenVars, configVars
  <1>9. ASSUME NEW u \in Users, UserNext(u)
        PROVE  FixedForGood
    <2>1. CASE \E from, vault \in WyldsAccounts, to \in StakeAccounts,
                  n \in Amounts : Deposit(u, from, vault, to, n)
      BY <2>1 DEF Deposit, MintPrime, Credited, configVars
    <2>2. CASE \E acct \in StakeAccounts, n \in Amounts : Unbond(u, acct, n)
      BY <2>2 DEF Unbond, tokenVars, configVars
    <2>3. CASE RedeemStep(u)
      BY <2>3 DEF RedeemStep, Redeem, BurnPrime, Debited, configVars
    <2>. QED
      BY <1>9, <2>1, <2>2, <2>3 DEF UserNext
  <1>. QED
    BY <1>1, <1>3, <1>4, <1>5, <1>6, <1>7, <1>8, <1>9 DEF Next, TokenNext

(* Without an upgrade authority the config is final, and without freeze     *)
(* administrators the frozen accounts are: nobody can thaw them and nothing *)
(* moves them.                                                              *)
THEOREM NoWayBackHolds == Spec => NoWayBack
  BY FixedStep, TypeCorrect, PTL DEF Spec, NoWayBack
=============================================================================
