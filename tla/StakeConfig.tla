---------------------------- MODULE StakeConfig ----------------------------
(***************************************************************************)
(* The config account of the staking program and the instructions that     *)
(* write it.  Each of them is signed by the upgrade authority of the      *)
(* program itself, read from the loader's ProgramData account by           *)
(* validate_program_update_authority (guard.rs).  The loader is external:  *)
(* it may hand the authority on, or drop it for good.                      *)
(*                                                                         *)
(* config.vault, config.mint and config.bump never change after            *)
(* initialize and are the constants of the token model.                    *)
(***************************************************************************)
EXTENDS Integers, Sequences

CONSTANTS
  Admins,                \* public keys that sign administrative instructions
  NoKey,                 \* upgrade_authority_address = None
  MIN_UNBONDING_PERIOD, MAX_UNBONDING_PERIOD, MAX_ADMINISTRATORS,
  Periods,               \* the periods passed as arguments
  FreezeLists,           \* the freeze administrator lists passed as arguments
  RewardsLists           \* the rewards administrator lists passed as arguments

ASSUME StakeConfigAssumption ==
  /\ NoKey \notin Admins
  /\ MIN_UNBONDING_PERIOD \in Nat \ {0}
  /\ MAX_UNBONDING_PERIOD \in Nat
  /\ MIN_UNBONDING_PERIOD <= MAX_UNBONDING_PERIOD
  /\ MAX_ADMINISTRATORS \in Nat
  /\ Periods \subseteq Int
  /\ FreezeLists \subseteq Seq(Admins)
  /\ RewardsLists \subseteq Seq(Admins)

VARIABLES
  config,            \* the Config account
  upgradeAuthority   \* upgrade_authority_address of the ProgramData account

configVars == <<config, upgradeAuthority>>

(* Defective forms, which a run must reject; no specification uses them.   *)
PeriodNoMax(p) == p >= MIN_UNBONDING_PERIOD
AdministratorsOneMore(list) == Len(list) <= MAX_ADMINISTRATORS + 1

ValidPeriod(p) == p >= MIN_UNBONDING_PERIOD /\ p <= MAX_UNBONDING_PERIOD

ValidAdministrators(list) == Len(list) <= MAX_ADMINISTRATORS

Config ==
  [unbonding_period       : MIN_UNBONDING_PERIOD .. MAX_UNBONDING_PERIOD,
   freeze_administrators  : Seq(Admins),
   rewards_administrators : Seq(Admins),
   paused                 : BOOLEAN]

ConfigTypeOK ==
  /\ upgradeAuthority \in Admins \cup {NoKey}
  /\ config \in Config
  /\ Len(config.freeze_administrators) <= MAX_ADMINISTRATORS
  /\ Len(config.rewards_administrators) <= MAX_ADMINISTRATORS

ValidUpdateAuthority(signer) ==
  /\ upgradeAuthority # NoKey
  /\ signer = upgradeAuthority

(* initialize, and what it leaves in the account: a new account is zeroed,  *)
(* so paused is FALSE.  That the account is new and that there is a vault   *)
(* account to go with it is InitializeAccounts of Deployment; the two mints *)
(* differ by SplTokenAssumption.                                            *)
Initialize(signer, period, freezers, rewarders) ==
  /\ ValidUpdateAuthority(signer)
  /\ ValidAdministrators(freezers)
  /\ ValidAdministrators(rewarders)
  /\ ValidPeriod(period)
  /\ config = [unbonding_period       |-> period,
               freeze_administrators  |-> freezers,
               rewards_administrators |-> rewarders,
               paused                 |-> FALSE]

ConfigInit ==
  /\ upgradeAuthority \in Admins
  /\ \E k \in Admins, p \in Periods, f \in FreezeLists, r \in RewardsLists :
       Initialize(k, p, f, r)

Pause(signer, pause) ==
  /\ ValidUpdateAuthority(signer)
  /\ config' = [config EXCEPT !.paused = pause]
  /\ UNCHANGED upgradeAuthority

UpdateConfig(signer, period) ==
  /\ ValidUpdateAuthority(signer)
  /\ ValidPeriod(period)
  /\ config' = [config EXCEPT !.unbonding_period = period]
  /\ UNCHANGED upgradeAuthority

UpdateFreezeAdministrators(signer, list) ==
  /\ ValidUpdateAuthority(signer)
  /\ ValidAdministrators(list)
  /\ config' = [config EXCEPT !.freeze_administrators = list]
  /\ UNCHANGED upgradeAuthority

UpdateRewardsAdministrators(signer, list) ==
  /\ ValidUpdateAuthority(signer)
  /\ ValidAdministrators(list)
  /\ config' = [config EXCEPT !.rewards_administrators = list]
  /\ UNCHANGED upgradeAuthority

(* The loader's SetAuthority, signed by the present authority.             *)
SetUpgradeAuthority(to) ==
  /\ upgradeAuthority # NoKey
  /\ to \in Admins \cup {NoKey}
  /\ upgradeAuthority' = to
  /\ UNCHANGED config

ConfigNext ==
  \/ \E k \in Admins :
       \/ \E b \in BOOLEAN : Pause(k, b)
       \/ \E p \in Periods : UpdateConfig(k, p)
       \/ \E s \in FreezeLists : UpdateFreezeAdministrators(k, s)
       \/ \E s \in RewardsLists : UpdateRewardsAdministrators(k, s)
  \/ \E k \in Admins \cup {NoKey} : SetUpgradeAuthority(k)
=============================================================================
