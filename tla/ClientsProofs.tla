--------------------------- MODULE ClientsProofs ---------------------------
(***************************************************************************)
(* Theorems about the program behind its client scripts: transactions that *)
(* are delayed, dropped and repeated make nothing possible that the        *)
(* program alone does not, and a repeated run has its effect once.         *)
(***************************************************************************)
EXTENDS Clients, RewardsProofs

(* What a transaction passes is what the instruction expects.               *)
LEMMA StakingFields ==
  ASSUME NEW t \in Transaction
  PROVE  /\ t.at \in Nat
         /\ t.ix = "deposit" =>
              t.signer \in Users /\ {t.from, t.vault} \subseteq WyldsAccounts
                /\ t.to \in StakeAccounts /\ t.amount \in Amounts
         /\ t.ix = "unbond" =>
              t.signer \in Users /\ t.acct \in StakeAccounts /\ t.amount \in Amounts
         /\ t.ix = "redeem" =>
              t.signer \in Users /\ {t.vault, t.dest} \subseteq WyldsAccounts
                /\ t.acct \in StakeAccounts
         /\ t.ix \in {"freeze_token_account", "thaw_token_account"} =>
              t.signer \in Admins /\ t.acct \in PdaFreezable
  BY DEF Transaction

LEMMA AdminFields ==
  ASSUME NEW t \in Transaction
  PROVE  /\ t.ix = "claim_rewards" =>
              t.signer \in Users /\ t.epoch \in Indexes /\ t.acct \in StakeAccounts
                /\ t.amount \in Amounts
         /\ t.ix = "create_rewards_epoch" =>
              t.signer \in Admins /\ t.epoch \in Indexes /\ t.root \in Roots /\ t.total \in Totals
         /\ t.ix = "pause" => t.signer \in Admins /\ t.pause \in BOOLEAN
         /\ t.ix = "update_config" => t.signer \in Admins /\ t.period \in Periods
         /\ t.ix = "update_freeze_administrators" => t.signer \in Admins /\ t.list \in FreezeLists
         /\ t.ix = "update_rewards_administrators" => t.signer \in Admins /\ t.list \in RewardsLists
  BY DEF Transaction

(* What lands is an instruction of the program.                             *)
LEMMA ExecuteStep ==
  ASSUME NEW t \in Transaction, Execute(t)
  PROVE  RNext
  <1>1. CASE ExecuteStaking(t) /\ UNCHANGED <<epoch, claim_record>>
    <2>1. Next
      BY <1>1, StakingFields DEF ExecuteStaking, Next, UserNext, RedeemStep, FreezeNext
    <2>. QED
      BY <1>1, <2>1 DEF RNext
  <1>2. CASE ExecuteConfig(t) /\ UNCHANGED <<epoch, claim_record>>
    <2>1. ConfigNext /\ UNCHANGED <<tokenVars, ticket, now>>
      BY <1>2, AdminFields DEF ExecuteConfig, ConfigNext
    <2>. QED
      BY <1>2, <2>1 DEF RNext, Next, Administer
  <1>3. CASE ExecuteRewards(t)
    <2>1. RewardsNext
      BY <1>3, AdminFields DEF ExecuteRewards, RewardsNext
    <2>. QED
      BY <2>1 DEF RNext
  <1>. QED
    BY <1>1, <1>2, <1>3 DEF Execute

(* A run of a script changes nothing of the program.                        *)
LEMMA RunStep ==
  ASSUME (\E u \in Users : RunByUser(u)) \/ (\E k \in Admins : RunByAdmin(k))
  PROVE  UNCHANGED <<rvars, opened>>
  BY DEF RunByUser, RunByAdmin, RunClaim, RunFreezeList, RunRewardsList, Run

LEMMA ClientStep == CTypeOK /\ [CNext]_cvars => [RNext]_rvars
  <1> SUFFICES ASSUME CTypeOK, [CNext]_cvars PROVE [RNext]_rvars
    OBVIOUS
  <1>1. CASE (\E u \in Users : RunByUser(u)) \/ (\E k \in Admins : RunByAdmin(k))
    BY <1>1, RunStep
  <1>2. CASE \E t \in flight : Land(t)
    BY <1>2, ExecuteStep DEF CTypeOK, Land
  <1>3. CASE \E t \in flight : Drop(t)
    BY <1>3 DEF Drop
  <1>4. CASE Pass
    BY <1>4 DEF Pass, RNext, Next
  <1>5. CASE Outside
    BY <1>5 DEF Outside, RNext, Next, Administer, ConfigNext
  <1>6. CASE UNCHANGED cvars
    BY <1>6 DEF cvars
  <1>. QED
    BY <1>1, <1>2, <1>3, <1>4, <1>5, <1>6 DEF CNext
-----------------------------------------------------------------------------
(* Every script sends what the program's arguments range over.              *)
LEMMA RunSends ==
  ASSUME CTypeOK, NEW t, Run(t),
         t \in Transaction, t.at = now
  PROVE  CTypeOK'
  BY DEF Run, CTypeOK, RTypeOK, TypeOK, TokenTypeOK, ConfigTypeOK, rvars, vars, tokenVars,
         configVars

LEMMA ProofType ==
  ASSUME NEW u, NEW n, NEW e \in Indexes, NEW file \in Files
  PROVE  ClaimProof(u, e, file, n) \in Roots \cup {NoProof}
  BY ClientsAssumption DEF ClaimProof, ProofOf

LEMMA UserRunType ==
  ASSUME CTypeOK, NEW u \in Users, RunByUser(u)
  PROVE  CTypeOK'
  <1>a. now \in Nat
    BY DEF CTypeOK, RTypeOK, TypeOK
  <1>1. ASSUME NEW vault \in Vaults, NEW from \in WyldsAccounts, NEW to \in StakeAccounts,
               NEW n \in Amounts, Run(DepositScript(u, vault, from, to, n))
        PROVE  CTypeOK'
    <2>1. DepositScript(u, vault, from, to, n) \in Transaction
      BY <1>a DEF DepositScript, Transaction, Vaults
    <2>. QED
      BY <1>1, <2>1, RunSends DEF DepositScript
  <1>2. ASSUME NEW acct \in StakeAccounts, NEW n \in Amounts, Run(UnbondScript(u, acct, n))
        PROVE  CTypeOK'
    <2>1. UnbondScript(u, acct, n) \in Transaction
      BY <1>a DEF UnbondScript, Transaction
    <2>. QED
      BY <1>2, <2>1, RunSends DEF UnbondScript
  <1>3. ASSUME NEW vault \in Vaults, NEW dest \in WyldsAccounts, NEW acct \in StakeAccounts,
               Run(RedeemScript(u, vault, dest, acct))
        PROVE  CTypeOK'
    <2>1. RedeemScript(u, vault, dest, acct) \in Transaction
      BY <1>a DEF RedeemScript, Transaction, Vaults
    <2>. QED
      BY <1>3, <2>1, RunSends DEF RedeemScript
  <1>4. ASSUME NEW e \in Indexes, NEW file \in Files, NEW n \in Amounts, RunClaim(u, e, file, n)
        PROVE  CTypeOK'
    <2>1. PICK acct \in Associated \cap StakeAccounts :
            Run(ClaimRewardsScript(u, e, file, acct, n))
      BY <1>4 DEF RunClaim
    <2>2. ClaimRewardsScript(u, e, file, acct, n) \in Transaction
      BY <1>a, ProofType DEF ClaimRewardsScript, Transaction
    <2>. QED
      BY <2>1, <2>2, RunSends DEF ClaimRewardsScript
  <1>. QED
    BY <1>1, <1>2, <1>3, <1>4 DEF RunByUser

LEMMA AdminRunType ==
  ASSUME CTypeOK, NEW k \in Admins, RunByAdmin(k)
  PROVE  CTypeOK'
  <1>a. now \in Nat
    BY DEF CTypeOK, RTypeOK, TypeOK
  <1>1. ASSUME NEW e \in Indexes, NEW file \in Files, Run(CreateRewardsEpochScript(k, e, file))
        PROVE  CTypeOK'
    <2>1. CreateRewardsEpochScript(k, e, file) \in Transaction
      BY <1>a, ClientsAssumption DEF CreateRewardsEpochScript, Transaction
    <2>. QED
      BY <1>1, <2>1, RunSends DEF CreateRewardsEpochScript
  <1>2. ASSUME NEW a \in PdaFreezable,
               Run(FreezeAccountScript(k, a)) \/ Run(ThawAccountScript(k, a))
        PROVE  CTypeOK'
    <2>1. {FreezeAccountScript(k, a), ThawAccountScript(k, a)} \subseteq Transaction
      BY <1>a DEF FreezeAccountScript, ThawAccountScript, Transaction
    <2>. QED
      BY <1>2, <2>1, RunSends DEF FreezeAccountScript, ThawAccountScript
  <1>3. ASSUME NEW pause \in BOOLEAN, Run(PauseScript(k, pause))
        PROVE  CTypeOK'
    <2>1. PauseScript(k, pause) \in Transaction
      BY <1>a DEF PauseScript, Transaction
    <2>. QED
      BY <1>3, <2>1, RunSends DEF PauseScript
  <1>4. ASSUME NEW period \in Periods, Run(UpdateConfigScript(k, period))
        PROVE  CTypeOK'
    <2>1. UpdateConfigScript(k, period) \in Transaction
      BY <1>a DEF UpdateConfigScript, Transaction
    <2>. QED
      BY <1>4, <2>1, RunSends DEF UpdateConfigScript
  <1>5. ASSUME NEW list \in FreezeLists, RunFreezeList(k, list)
        PROVE  CTypeOK'
    <2>1. UpdateFreezeAdministratorsScript(k, list) \in Transaction
      BY <1>a DEF UpdateFreezeAdministratorsScript, Transaction
    <2>. QED
      BY <1>5, <2>1, RunSends DEF UpdateFreezeAdministratorsScript, RunFreezeList
  <1>6. ASSUME NEW list \in RewardsLists, RunRewardsList(k, list)
        PROVE  CTypeOK'
    <2>1. UpdateRewardsAdministratorsScript(k, list) \in Transaction
      BY <1>a DEF UpdateRewardsAdministratorsScript, Transaction
    <2>. QED
      BY <1>6, <2>1, RunSends DEF UpdateRewardsAdministratorsScript, RunRewardsList
  <1>. QED
    BY <1>1, <1>2, <1>3, <1>4, <1>5, <1>6 DEF RunByAdmin

LEMMA CNextType == CTypeOK /\ [CNext]_cvars => CTypeOK'
  <1> SUFFICES ASSUME CTypeOK, [CNext]_cvars PROVE CTypeOK'
    OBVIOUS
  <1>a. RTypeOK'
    BY ClientStep, RNextType DEF CTypeOK
  <1>b. now \in Nat /\ flight \subseteq Transaction /\ \A t \in flight : t.at \in Nat /\ t.at <= now
    BY StakingFields DEF CTypeOK, RTypeOK, TypeOK
  <1>1. CASE (\E u \in Users : RunByUser(u)) \/ (\E k \in Admins : RunByAdmin(k))
    BY <1>1, UserRunType, AdminRunType
  <1>2. ASSUME NEW t \in flight, Land(t)
        PROVE  CTypeOK'
    <2>1. now' = now
      BY <1>2 DEF Land, Execute, ExecuteStaking, ExecuteConfig, ExecuteRewards, Deposit, Unbond,
                  Redeem, FreezeTokenAccount, ThawTokenAccount, CreateRewardsEpoch, ClaimRewards,
                  vars
    <2>2. opened' \in [Users -> {-1} \cup Nat]
      BY <1>2, <1>b DEF Land, CTypeOK
    <2>. QED
      BY <1>2, <1>a, <2>1, <2>2 DEF Land, CTypeOK
  <1>3. ASSUME NEW t \in flight, Drop(t)
        PROVE  CTypeOK'
    BY <1>3, <1>a DEF Drop, CTypeOK, rvars, vars
  <1>4. CASE Pass
    BY <1>4, <1>a, <1>b DEF Pass, Tick, CTypeOK
  <1>5. CASE Outside
    <2>1. now' = now
      BY <1>5 DEF Outside, TokenNext, SendPrime, RetirePrime, SendWylds, IssuerFreeze
    <2>. QED
      BY <1>5, <1>a, <2>1 DEF Outside, CTypeOK
  <1>6. CASE UNCHANGED cvars
    BY <1>6, <1>a DEF cvars, rvars, vars, CTypeOK
  <1>. QED
    BY <1>1, <1>2, <1>3, <1>4, <1>5, <1>6 DEF CNext

(* Type correctness with the scripts: every transaction under way passes    *)
(* what its instruction expects, and none is from the future.               *)
THEOREM CTypeCorrect == CSpec => []CTypeOK
  <1>1. CInit => CTypeOK
    BY InitType DEF CInit, CTypeOK, RInit, RTypeOK
  <1>. QED
    BY <1>1, CNextType, PTL DEF CSpec

(* However transactions are delayed, dropped and repeated, what the program *)
(* does is a behaviour of the program: what is proved of Rewards holds      *)
(* behind the scripts.                                                      *)
THEOREM ClientsImplement == CSpec => RSpec
  <1>1. CInit => RInit
    BY DEF CInit
  <1>. QED
    BY <1>1, ClientStep, CTypeCorrect, PTL DEF CSpec, RSpec

(* So claims sent again mint once, epochs stay as posted, and no vault pays *)
(* but for a ticket that waited.                                            *)
THEOREM ProgramHoldsBehindScripts ==
  CSpec => MintCovered /\ EpochsFinal /\ PayoutCovered /\ TicketStable /\ PauseStopsProgram
             /\ NoWayBack /\ []SupplyAccounted
  BY ClientsImplement, MintsAreCovered, SupplyIsAccounted, EpochsAreFinal,
     PayoutsCoveredWithRewards, TicketsStableWithRewards, PauseHoldsWithRewards,
     NoWayBackWithRewards, PTL
-----------------------------------------------------------------------------
(* A repeated run has its effect once.  A ticket remembers when it was      *)
(* opened; once it is closed, its period and so the Lifetime of everything  *)
(* sent before it was opened have passed.                                   *)
TicketsOpened ==
  \A u \in Users :
    /\ opened[u] <= now
    /\ HasTicket(u) => ticket[u].start_ts = opened[u]
    /\ ~HasTicket(u) => opened[u] = -1 \/ now > opened[u] + Lifetime

RetryInv == config.unbonding_period \in Periods /\ (LongPeriods => TicketsOpened)

LEMMA RetryInit == CInit => RetryInv
  BY DEF CInit, RInit, Init, ConfigInit, Initialize, RetryInv, TicketsOpened, HasTicket

LEMMA PeriodStep ==
  ASSUME CTypeOK, [CNext]_cvars, config.unbonding_period \in Periods
  PROVE  config'.unbonding_period \in Periods
  <1>a. [RNext]_rvars /\ ConfigTypeOK
    BY ClientStep DEF CTypeOK, RTypeOK, TypeOK
  <1>1. CASE UNCHANGED config
    BY <1>1
  <1>2. CASE ConfigNext
    BY <1>2, <1>a DEF ConfigNext, Pause, UpdateConfig, UpdateFreezeAdministrators,
                      UpdateRewardsAdministrators, SetUpgradeAuthority, ConfigTypeOK, Config
  <1>3. CASE RewardsNext \/ UNCHANGED vars
    BY <1>1, <1>3 DEF RewardsNext, CreateRewardsEpoch, ClaimRewards, vars, configVars
  <1>4. CASE Next
    BY <1>1, <1>2, <1>4
    DEF Next, UserNext, RedeemStep, Deposit, Unbond, Redeem, TokenNext, SendPrime, RetirePrime,
        SendWylds, IssuerFreeze, FreezeNext, FreezeTokenAccount, ThawTokenAccount, Administer,
        Tick, configVars
  <1>. QED
    BY <1>a, <1>3, <1>4 DEF RNext, rvars

(* Of all that lands, unbond and redeem alone change a ticket.              *)
LEMMA LandsOnTicket ==
  ASSUME CTypeOK, NEW t \in flight, Land(t)
  PROVE  /\ now' = now
         /\ \/ t.ix = "unbond" /\ Unbond(t.signer, t.acct, t.amount)
               /\ opened' = [opened EXCEPT ![t.signer] = now]
            \/ t.ix = "redeem" /\ Redeem(t.signer, t.vault, t.dest, t.acct) /\ opened' = opened
            \/ ticket' = ticket /\ opened' = opened /\ t.ix # "unbond"
  BY DEF Land, Execute, ExecuteStaking, ExecuteConfig, ExecuteRewards, Deposit, Unbond,
         Redeem, FreezeTokenAccount, ThawTokenAccount, CreateRewardsEpoch, ClaimRewards, vars

(* Unbond leaves a ticket.                                                  *)
LEMMA TicketMade ==
  ASSUME CTypeOK, NEW u \in Users, NEW acct \in StakeAccounts, NEW n \in Amounts,
         Unbond(u, acct, n)
  PROVE  ticket'[u] \in UnbondingTicket
  BY StakingAssumption, SplTokenAssumption
  DEF Unbond, UnbondAccounts, UnbondingTicket, CTypeOK, RTypeOK, TypeOK, TokenTypeOK

LEMMA OtherStep ==
  ASSUME CTypeOK, [CNext]_cvars, ~ \E t \in flight : Land(t)
  PROVE  /\ ticket' = ticket /\ opened' = opened
         /\ now' \in Nat /\ now' >= now
  <1>a. now \in Nat
    BY DEF CTypeOK, RTypeOK, TypeOK
  <1>1. CASE (\E u \in Users : RunByUser(u)) \/ (\E k \in Admins : RunByAdmin(k))
    BY <1>a, <1>1, RunStep DEF rvars, vars
  <1>2. CASE \E t \in flight : Drop(t)
    BY <1>a, <1>2 DEF Drop, rvars, vars
  <1>3. CASE Pass
    BY <1>a, <1>3 DEF Pass, Tick
  <1>4. CASE Outside
    BY <1>a, <1>4 DEF Outside, TokenNext, SendPrime, RetirePrime, SendWylds, IssuerFreeze
  <1>5. CASE UNCHANGED cvars
    BY <1>a, <1>5 DEF cvars, rvars, vars
  <1>. QED
    BY <1>1, <1>2, <1>3, <1>4, <1>5 DEF CNext

(* The period in force, and so the wait of every redemption, is longer than *)
(* a transaction lives.                                                     *)
LEMMA LongWait ==
  ASSUME CTypeOK, RetryInv, LongPeriods, NEW u \in Users, Elapsed(u), HasTicket(u)
  PROVE  now > opened[u] + Lifetime /\ ticket[u].start_ts = opened[u]
  <1>1. config.unbonding_period \in Periods /\ ValidPeriod(config.unbonding_period)
    BY StakeConfigAssumption
    DEF CTypeOK, RTypeOK, TypeOK, ConfigTypeOK, Config, RetryInv, ValidPeriod
  <1>2. config.unbonding_period > Lifetime /\ config.unbonding_period \in Int
    BY <1>1, StakeConfigAssumption DEF LongPeriods
  <1>3. now \in Nat /\ opened[u] \in Int /\ Lifetime \in Nat
    BY ClientsAssumption DEF CTypeOK, RTypeOK, TypeOK
  <1>4. ticket[u].start_ts = opened[u]
    BY DEF RetryInv, TicketsOpened
  <1>. QED
    BY <1>2, <1>3, <1>4 DEF Elapsed

LEMMA RetryNext == CTypeOK /\ RetryInv /\ [CNext]_cvars => RetryInv'
  <1> SUFFICES ASSUME CTypeOK, RetryInv, [CNext]_cvars, LongPeriods PROVE TicketsOpened'
    BY PeriodStep DEF RetryInv, LongPeriods, ValidPeriod
  <1>a. /\ now \in Nat /\ Lifetime \in Nat /\ opened \in [Users -> {-1} \cup Nat]
        /\ ticket \in [Users -> UnbondingTicket \cup {NoTicket}] /\ TicketsOpened
    BY ClientsAssumption DEF CTypeOK, RTypeOK, TypeOK, RetryInv
  <1>1. ASSUME NEW t \in flight, Land(t)
        PROVE  TicketsOpened'
    <2>1. t \in Transaction /\ now' = now
      BY <1>1, LandsOnTicket DEF CTypeOK
    <2>2. CASE t.ix = "unbond" /\ Unbond(t.signer, t.acct, t.amount)
                 /\ opened' = [opened EXCEPT ![t.signer] = now]
      <3>1. t.signer \in Users
        BY <2>1, <2>2, StakingFields
      <3>2. ticket'[t.signer].start_ts = now /\ ticket' \in [Users -> UnbondingTicket \cup {NoTicket}]
        BY <1>a, <2>2, <3>1, ClientStep, RNextType
        DEF Unbond, CTypeOK, RTypeOK, TypeOK
      <3>3. HasTicket(t.signer)'
        BY <1>a, <2>1, <2>2, <3>1, TicketMade, StakingFields, StakingAssumption DEF HasTicket
      <3>4. \A u \in Users \ {t.signer} : ticket'[u] = ticket[u] /\ opened'[u] = opened[u]
        BY <1>a, <2>2, <3>1 DEF Unbond
      <3>5. opened'[t.signer] = now
        BY <1>a, <2>2, <3>1
      <3>. QED
        BY <1>a, <2>1, <3>2, <3>3, <3>4, <3>5 DEF TicketsOpened, HasTicket
    <2>3. CASE t.ix = "redeem" /\ Redeem(t.signer, t.vault, t.dest, t.acct) /\ opened' = opened
      <3>1. t.signer \in Users
        BY <2>1, <2>3, StakingFields
      <3>2. now > opened[t.signer] + Lifetime
        BY <2>3, <3>1, LongWait DEF Redeem, RedeemAccounts
      <3>3. ticket' = [ticket EXCEPT ![t.signer] = NoTicket]
        BY <2>3 DEF Redeem
      <3>4. ticket'[t.signer] = NoTicket /\ \A u \in Users \ {t.signer} : ticket'[u] = ticket[u]
        BY <1>a, <3>1, <3>3
      <3>. QED
        BY <1>a, <2>1, <2>3, <3>2, <3>4 DEF TicketsOpened, HasTicket
    <2>4. CASE ticket' = ticket /\ opened' = opened
      BY <1>a, <2>1, <2>4 DEF TicketsOpened, HasTicket
    <2>. QED
      BY <1>1, <2>2, <2>3, <2>4, LandsOnTicket
  <1>2. CASE ~ \E t \in flight : Land(t)
    <2>1. ticket' = ticket /\ opened' = opened /\ now' \in Nat /\ now' >= now
      BY <1>2, OtherStep
    <2>. QED
      BY <1>a, <2>1 DEF TicketsOpened, HasTicket
  <1>. QED
    BY <1>1, <1>2

(* A repeated run has its effect once, for any scripts under way, if every  *)
(* legal period is longer than a transaction lives.                         *)
THEOREM RetriesActOnce == CSpec => RetriedOnce
  <1>1. CTypeOK /\ RetryInv /\ [CNext]_cvars => [LongPeriods => ActsOnTicketAtHand]_cvars
    <2> SUFFICES ASSUME CTypeOK, RetryInv, CNext, LongPeriods,
                        NEW t \in flight \ flight', ticket' # ticket
                 PROVE  /\ t.ix = "unbond" => opened[t.signer] < t.at
                        /\ t.ix = "redeem" => ticket[t.signer].start_ts < t.at
      BY DEF ActsOnTicketAtHand
    <2>1. PICK s \in flight : Land(s)
      BY OtherStep
    <2>2. t = s /\ now <= t.at + Lifetime
      BY <2>1 DEF Land
    <2>a. /\ t \in Transaction /\ now \in Nat /\ Lifetime \in Nat
          /\ opened \in [Users -> {-1} \cup Nat]
      BY ClientsAssumption DEF CTypeOK, RTypeOK, TypeOK
    <2>3. CASE t.ix = "unbond" /\ Unbond(t.signer, t.acct, t.amount)
      <3>1. t.signer \in Users /\ ~HasTicket(t.signer) /\ t.at \in Nat
        BY <2>3, <2>a, StakingFields DEF Unbond, UnbondAccounts
      <3>2. opened[t.signer] = -1 \/ now > opened[t.signer] + Lifetime
        BY <3>1 DEF RetryInv, TicketsOpened
      <3>. QED
        BY <2>3, <2>2, <2>a, <3>1, <3>2
    <2>4. CASE t.ix = "redeem" /\ Redeem(t.signer, t.vault, t.dest, t.acct)
      <3>1. t.signer \in Users /\ HasTicket(t.signer) /\ Elapsed(t.signer) /\ t.at \in Nat
        BY <2>4, <2>a, StakingFields DEF Redeem, RedeemAccounts
      <3>2. now > opened[t.signer] + Lifetime /\ ticket[t.signer].start_ts = opened[t.signer]
        BY <3>1, LongWait
      <3>. QED
        BY <2>4, <2>2, <2>a, <3>1, <3>2
    <2>. QED
      BY <2>1, <2>2, <2>3, <2>4, LandsOnTicket
  <1>. QED
    BY <1>1, RetryInit, RetryNext, CTypeCorrect, PTL DEF CSpec, RetriedOnce
-----------------------------------------------------------------------------
(* The totals posted cover what is issued.  Every posted epoch carries the  *)
(* root and the total the script computed from one file, since every        *)
(* create_rewards_epoch under way does.                                     *)
Posted == {e \in Indexes : HasEpoch(e)}

FromFile(e, root, total) == \E file \in Files : root = Root(file, e) /\ total = Total(file)

PostedByScript ==
  /\ IsFiniteSet(Posted)
  /\ \A e \in Posted : FromFile(e, epoch[e].merkle_root, epoch[e].total)
  /\ \A t \in flight : t.ix = "create_rewards_epoch" => FromFile(t.epoch, t.root, t.total)

LEMMA ScriptsThatPostNothing ==
  /\ \A u, v, f, d, n : DepositScript(u, v, f, d, n).ix # "create_rewards_epoch"
  /\ \A u, a, n : UnbondScript(u, a, n).ix # "create_rewards_epoch"
  /\ \A u, v, d, a : RedeemScript(u, v, d, a).ix # "create_rewards_epoch"
  /\ \A u, e, f, a, n : ClaimRewardsScript(u, e, f, a, n).ix # "create_rewards_epoch"
  /\ \A k, a : FreezeAccountScript(k, a).ix # "create_rewards_epoch"
  /\ \A k, a : ThawAccountScript(k, a).ix # "create_rewards_epoch"
  /\ \A k, p : PauseScript(k, p).ix # "create_rewards_epoch"
  /\ \A k, p : UpdateConfigScript(k, p).ix # "create_rewards_epoch"
  /\ \A k, l : UpdateFreezeAdministratorsScript(k, l).ix # "create_rewards_epoch"
  /\ \A k, l : UpdateRewardsAdministratorsScript(k, l).ix # "create_rewards_epoch"
  BY DEF DepositScript, UnbondScript, RedeemScript, ClaimRewardsScript, FreezeAccountScript,
         ThawAccountScript, PauseScript, UpdateConfigScript, UpdateFreezeAdministratorsScript,
         UpdateRewardsAdministratorsScript

LEMMA RunPosts ==
  ASSUME (\E u \in Users : RunByUser(u)) \/ (\E k \in Admins : RunByAdmin(k))
  PROVE  \A t \in flight' : t \in flight \/ t.ix # "create_rewards_epoch"
                              \/ FromFile(t.epoch, t.root, t.total)
  <1> DEFINE Fits(t) == t.ix # "create_rewards_epoch" \/ FromFile(t.epoch, t.root, t.total)
  <1>1. ASSUME NEW u \in Users, RunByUser(u)
        PROVE  \E t : Run(t) /\ Fits(t)
    BY <1>1, ScriptsThatPostNothing, Zenon DEF RunByUser, RunClaim
  <1>2. ASSUME NEW e \in Indexes, NEW file \in Files, NEW k \in Admins,
               Run(CreateRewardsEpochScript(k, e, file))
        PROVE  \E t : Run(t) /\ Fits(t)
    <2> DEFINE t == CreateRewardsEpochScript(k, e, file)
    <2>1. Fits(t)
      BY DEF CreateRewardsEpochScript, FromFile
    <2> HIDE DEF t
    <2>. QED
      BY <1>2, <2>1 DEF t
  <1>3. ASSUME NEW k \in Admins, RunByAdmin(k)
        PROVE  \E t : Run(t) /\ Fits(t)
    <2> HIDE DEF Fits
    <2>1. \A t : t.ix # "create_rewards_epoch" => Fits(t)
      BY DEF Fits
    <2>. QED
      BY <1>2, <1>3, <2>1, ScriptsThatPostNothing, ZenonT(60)
      DEF RunByAdmin, RunFreezeList, RunRewardsList
  <1>4. PICK t : Run(t) /\ Fits(t)
    BY <1>1, <1>3
  <1>. QED
    BY <1>4 DEF Run

(* Only a landing create_rewards_epoch posts an epoch.                      *)
LEMMA PostedStep ==
  ASSUME CTypeOK, [CNext]_cvars
  PROVE  \/ epoch' = epoch
         \/ \E t \in flight : t.ix = "create_rewards_epoch"
                                /\ CreateRewardsEpoch(t.signer, t.epoch, t.root, t.total)
  <1>1. CASE (\E u \in Users : RunByUser(u)) \/ (\E k \in Admins : RunByAdmin(k))
    BY <1>1, RunStep DEF rvars
  <1>2. CASE \E t \in flight : Land(t)
    BY <1>2 DEF Land, Execute, ExecuteRewards, ClaimRewards
  <1>3. CASE (\E t \in flight : Drop(t)) \/ Pass \/ Outside \/ UNCHANGED cvars
    BY <1>3 DEF Drop, Pass, Outside, cvars, rvars
  <1>. QED
    BY <1>1, <1>2, <1>3 DEF CNext

LEMMA FlightStep ==
  ASSUME CTypeOK, [CNext]_cvars
  PROVE  \A t \in flight' : t \in flight \/ t.ix # "create_rewards_epoch"
                              \/ FromFile(t.epoch, t.root, t.total)
  BY RunPosts DEF CNext, Land, Drop, Pass, Outside, cvars

LEMMA PostedNext == CTypeOK /\ PostedByScript /\ [CNext]_cvars => PostedByScript'
  <1> SUFFICES ASSUME CTypeOK, PostedByScript, [CNext]_cvars PROVE PostedByScript'
    OBVIOUS
  <1>1. \A t \in flight' : t.ix = "create_rewards_epoch" => FromFile(t.epoch, t.root, t.total)
    BY FlightStep DEF PostedByScript
  <1>2. CASE epoch' = epoch
    BY <1>1, <1>2 DEF PostedByScript, Posted, HasEpoch, FromFile
  <1>3. ASSUME NEW t \in flight, t.ix = "create_rewards_epoch",
               CreateRewardsEpoch(t.signer, t.epoch, t.root, t.total)
        PROVE  PostedByScript'
    <2>1. t.epoch \in Indexes /\ FromFile(t.epoch, t.root, t.total)
      BY <1>3, AdminFields DEF CTypeOK, PostedByScript
    <2>2. /\ epoch'[t.epoch].merkle_root = t.root /\ epoch'[t.epoch].total = t.total
          /\ \A e \in Indexes \ {t.epoch} : epoch'[e] = epoch[e]
      BY <1>3, <2>1 DEF CreateRewardsEpoch, CTypeOK, RTypeOK
    <2>3. Posted' \in SUBSET (Posted \cup {t.epoch})
      BY <2>2 DEF Posted, HasEpoch
    <2>4. IsFiniteSet(Posted')
      <3>1. IsFiniteSet(Posted \cup {t.epoch})
        BY FS_AddElement DEF PostedByScript
      <3> HIDE DEF Posted
      <3>. QED
        BY <2>3, <3>1, FS_Subset
    <2>5. \A e \in Posted' : FromFile(e, epoch'[e].merkle_root, epoch'[e].total)
      BY <2>1, <2>2, <2>3 DEF PostedByScript, Posted
    <2>. QED
      BY <1>1, <2>4, <2>5 DEF PostedByScript, FromFile
  <1>. QED
    BY <1>2, <1>3, PostedStep
(* The total of a file as a sum over its lines.                             *)
LineTotal(file) == [a \in DOMAIN file |-> file[a] * a[2]]

LEMMA TotalAs ==
  ASSUME NEW file \in Files
  PROVE  Total(file) = SumOver(LineTotal(file), DOMAIN file)
  BY DEF Total, SumOver, MapThenSumSet, MapThenFoldSet, LineTotal

LEMMA AtLeastOnce ==
  ASSUME NEW k \in Nat \ {0}, NEW n \in Nat
  PROVE  k * n \in Nat /\ n <= k * n
  <1>1. k - 1 \in Nat /\ k * n = (k - 1) * n + n
    OBVIOUS
  <1>2. (k - 1) * n \in Nat
    BY <1>1
  <1>. QED
    BY <1>1, <1>2

LEMMA LinesOfFile ==
  ASSUME NEW e \in Indexes, NEW file \in Files, NEW a \in DOMAIN file
  PROVE  /\ a[1] \in Users /\ a[2] \in Nat
         /\ LineTotal(file)[a] \in Nat /\ a[2] <= LineTotal(file)[a]
  <1>1. Root(file, e) \in Roots /\ a \in Root(file, e).allocations
    BY ClientsAssumption DEF Root
  <1>2. a \in Users \X U64 /\ U64 \subseteq Nat
    BY <1>1, RewardsAssumption, SplTokenAssumption DEF U64
  <1>3. a[1] \in Users /\ a[2] \in Nat
    BY <1>2
  <1>4. file[a] \in Nat \ {0}
    BY ClientsAssumption
  <1>5. LineTotal(file)[a] = file[a] * a[2]
    BY DEF LineTotal
  <1>6. file[a] * a[2] \in Nat /\ a[2] <= file[a] * a[2]
    BY <1>3, <1>4, AtLeastOnce
  <1>. QED
    BY <1>3, <1>5, <1>6

(* In an epoch posted from a file, the entitlements of any users together   *)
(* stay within the total: each user's is one of the user's lines.           *)
LEMMA EpochWithinTotal ==
  ASSUME NEW e \in Indexes, NEW file \in Files, epoch[e].merkle_root = Root(file, e),
         NEW C, C \subseteq {e} \X Users
  PROVE  SumOver(Entitled, C) <= Total(file) /\ Total(file) \in Nat
  <1> DEFINE D == DOMAIN file
             J == {e} \X Users
             w == LineTotal(file)
             label == [a \in D |-> <<e, a[1]>>]
             v == FibreSums(w, label, D, J)
  <1>1. IsFiniteSet(D) /\ IsFiniteSet(J) /\ C \in SUBSET J /\ IsFiniteSet(C)
    <2>1. IsFiniteSet(D) /\ IsFiniteSet(Users) /\ IsFiniteSet({e})
      BY ClientsAssumption, SplTokenAssumption, FS_Singleton
    <2>2. IsFiniteSet(J)
      BY <2>1, FS_Product
    <2> HIDE DEF J
    <2>. QED
      BY <2>1, <2>2, FS_Subset DEF J
  <1>2. \A a \in D : w[a] \in Nat /\ a[2] <= w[a] /\ label[a] \in J
    BY LinesOfFile
  <1>3. \A j \in J : v[j] \in Nat /\ \A a \in Fibre(label, D, j) : w[a] <= v[j]
    <2> SUFFICES ASSUME NEW j \in J
                 PROVE  /\ SumOver(w, Fibre(label, D, j)) \in Nat
                        /\ \A a \in Fibre(label, D, j) : w[a] <= SumOver(w, Fibre(label, D, j))
      BY DEF FibreSums
    <2> DEFINE F == Fibre(label, D, j)
    <2>1. F \in SUBSET D
      BY DEF Fibre
    <2> HIDE DEF F, w, D
    <2>2. IsFiniteSet(F) /\ \A a \in F : w[a] \in Nat
      BY <1>1, <1>2, <2>1, FS_Subset
    <2>3. SumOver(w, F) \in Nat /\ \A a \in F : w[a] <= SumOver(w, F)
      BY <2>2, SumOverCovers
    <2>. QED
      BY <2>3 DEF F
  <1>4. \A c \in J : Entitled[c] \in Nat /\ Entitled[c] <= v[c]
    <2> SUFFICES ASSUME NEW c \in J PROVE Entitled[c] \in Nat /\ Entitled[c] <= v[c]
      OBVIOUS
    <2>1. c = <<e, c[2]>> /\ c \in Indexes \X Users /\ Entitled[c] = Entitlement(e, c[2])
      BY DEF Entitled
    <2> DEFINE n == Entitled[c]
               a == <<c[2], n>>
    <2>2. n \in Nat /\ v[c] \in Nat
      BY <1>3, <2>1, EntitledType
    <2>3. CASE n = 0
      BY <2>2, <2>3
    <2>4. CASE a \in D
      <3>1. label[a] = c /\ a \in Fibre(label, D, c)
        BY <2>1, <2>4 DEF Fibre
      <3>2. n <= w[a] /\ w[a] <= v[c] /\ w[a] \in Nat
        BY <1>2, <1>3, <2>4, <3>1
      <3> HIDE DEF v, w, n, a
      <3>. QED
        BY <2>2, <3>2 DEF n
    <2>5. n = 0 \/ a \in D
      BY <2>1, EntitlementBound DEF Root
    <2>. QED
      BY <2>3, <2>4, <2>5
  <1>5. SumOver(w, D) = SumOver(v, J)
    <2>1. \A a \in D : w[a] \in Int /\ label[a] \in J
      BY <1>2
    <2> HIDE DEF D, w, J, label
    <2>. QED
      BY <1>1, <2>1, SumOverFibres
  <1> HIDE DEF v, w, J, D, label
  <1>6. SumOver(Entitled, C) <= SumOver(v, C)
    BY <1>1, <1>3, <1>4, SumOverBound
  <1>7. SumOver(v, C) <= SumOver(v, J)
    BY <1>1, <1>3, SumOverMore
  <1>8. SumOver(Entitled, C) \in Nat /\ SumOver(v, C) \in Nat /\ SumOver(v, J) \in Nat
    BY <1>1, <1>3, <1>4, SumOverCovers
  <1>9. Total(file) = SumOver(w, D)
    BY TotalAs DEF w, D
  <1>. QED
    BY <1>5, <1>6, <1>7, <1>8, <1>9
(* All claims together: epoch by epoch.                                     *)
LEMMA ClaimsWithinTotals ==
  ASSUME CTypeOK, AccountedInv, PostedByScript
  PROVE  LET totals == MapThenSumSet(LAMBDA e : epoch[e].total, Posted)
         IN  SumOver(Entitled, claim_record) <= totals /\ totals \in Nat
  <1> DEFINE C == claim_record
             first == [c \in C |-> c[1]]
             v == FibreSums(Entitled, first, C, Posted)
             w == [e \in Posted |-> epoch[e].total]
  <1>1. MapThenSumSet(LAMBDA e : epoch[e].total, Posted) = SumOver(w, Posted)
    <2> HIDE DEF Posted
    <2>1. MapThenSumSet(LAMBDA e : epoch[e].total, Posted)
            = SumOver([e \in Posted |-> epoch[e].total], Posted)
      BY DEF SumOver, MapThenSumSet, MapThenFoldSet
    <2>. QED
      BY <2>1
  <1>2. IsFiniteSet(C) /\ IsFiniteSet(Posted) /\ C \subseteq Indexes \X Users
    BY DEF AccountedInv, PostedByScript, CTypeOK, RTypeOK
  <1>3. \A c \in C : Entitled[c] \in Int /\ first[c] \in Posted
    BY <1>2, EntitledType DEF AccountedInv, Posted
  <1>4. SumOver(Entitled, C) = SumOver(v, Posted)
    <2> HIDE DEF C, first, Posted
    <2>. QED
      BY <1>2, <1>3, SumOverFibres
  <1>5. \A e \in Posted : v[e] \in Int /\ w[e] \in Nat /\ v[e] <= w[e]
    <2> SUFFICES ASSUME NEW e \in Posted
                 PROVE  v[e] \in Int /\ w[e] \in Nat /\ v[e] <= w[e]
      OBVIOUS
    <2> DEFINE F == Fibre(first, C, e)
    <2>1. PICK file \in Files : epoch[e].merkle_root = Root(file, e) /\ epoch[e].total = Total(file)
      BY DEF PostedByScript, FromFile
    <2>2. F \subseteq {e} \X Users /\ F \in SUBSET C /\ e \in Indexes
      BY <1>2 DEF Fibre, Posted
    <2>3. IsFiniteSet(F) /\ \A c \in F : Entitled[c] \in Int
      <3> HIDE DEF F, C
      <3>. QED
        BY <1>2, <1>3, <2>2, FS_Subset
    <2> HIDE DEF F
    <2>4. SumOver(Entitled, F) <= Total(file) /\ Total(file) \in Nat
      BY <2>1, <2>2, EpochWithinTotal
    <2>5. SumOver(Entitled, F) \in Int
      BY <2>3, SumOverTakeOut
    <2>. QED
      BY <2>1, <2>4, <2>5 DEF F, FibreSums
  <1> HIDE DEF v, w, C, Posted
  <1>6. SumOver(v, Posted) <= SumOver(w, Posted)
    BY <1>2, <1>5, SumOverBound
  <1>7. SumOver(w, Posted) \in Nat
    BY <1>2, <1>5, SumOverCovers
  <1>. QED
    BY <1>1, <1>4, <1>6, <1>7 DEF C

(* PRIME without wYLDS behind it never exceeds the totals the script        *)
(* posted, for any files, users and number of epochs, although the program  *)
(* never reads a total.                                                     *)
THEOREM TotalsCover == CSpec => []TotalsCoverIssuance
  <1>1. CTypeOK /\ AccountedInv /\ PostedByScript => TotalsCoverIssuance
    <2> SUFFICES ASSUME CTypeOK, AccountedInv, PostedByScript
                 PROVE  supply <= VaultBalance
                                    + MapThenSumSet(LAMBDA e : epoch[e].total, Posted)
      BY DEF TotalsCoverIssuance, Posted
    <2>1. supply \in Nat /\ VaultBalance \in Nat /\ claim_record \subseteq Indexes \X Users
      BY BalanceSums DEF CTypeOK, RTypeOK
    <2>2. supply <= VaultBalance + SumOver(Entitled, claim_record)
      BY <2>1, AccountedAs DEF AccountedInv
    <2>3. SumOver(Entitled, claim_record) \in Int
      BY <2>1, EntitledType, SumOverTakeOut DEF AccountedInv
    <2>. QED
      BY <2>1, <2>2, <2>3, ClaimsWithinTotals
  <1>2. CInit => PostedByScript
    <2> SUFFICES ASSUME CInit PROVE PostedByScript
      OBVIOUS
    <2>1. Posted = {} /\ flight = {}
      BY DEF CInit, RInit, Posted, HasEpoch
    <2>. QED
      BY <2>1, FS_EmptySet DEF PostedByScript
  <1>3. CSpec => []AccountedInv
    BY ClientsImplement, AccountedHolds, PTL
  <1>. QED
    BY <1>1, <1>2, <1>3, PostedNext, CTypeCorrect, PTL DEF CSpec
=============================================================================
