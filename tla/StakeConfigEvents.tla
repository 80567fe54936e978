------------------------- MODULE StakeConfigEvents -------------------------
(***************************************************************************)
(* StakeConfig with the event update_config emits, so that what observers  *)
(* are told can be compared with what happened.                            *)
(***************************************************************************)
EXTENDS StakeConfig

CONSTANT NoEvent

VARIABLE event   \* UnbondingPeriodUpdated emitted by the last step, or NoEvent

evars == <<configVars, event>>

EInit == ConfigInit /\ event = NoEvent

(* The handler assigns config.unbonding_period first and reads old_period   *)
(* back from the account it has just written.                               *)
EmittingUpdateConfig(signer, period) ==
  /\ UpdateConfig(signer, period)
  /\ event' = [old_period |-> config'.unbonding_period, new_period |-> period]

SilentNext ==
  /\ \/ \E k \in Admins :
          \/ \E b \in BOOLEAN : Pause(k, b)
          \/ \E s \in FreezeLists : UpdateFreezeAdministrators(k, s)
          \/ \E s \in RewardsLists : UpdateRewardsAdministrators(k, s)
     \/ \E k \in Admins \cup {NoKey} : SetUpgradeAuthority(k)
  /\ event' = NoEvent

ENext == SilentNext \/ \E k \in Admins, p \in Periods : EmittingUpdateConfig(k, p)

ESpec == EInit /\ [][ENext]_evars

(* events.rs:39-40: the event carries the old and the new period, so an     *)
(* event with two different periods in force around it names both.          *)
OldPeriodReported ==
  [][event' # NoEvent => event'.old_period = config.unbonding_period]_evars
=============================================================================
