SPECIFICATION ESpec
CONSTANTS
  Admins = {"x", "y"}
  NoKey = NoKey
  NoEvent = NoEvent
  MIN_UNBONDING_PERIOD = 1
  MAX_UNBONDING_PERIOD = 2
  MAX_ADMINISTRATORS = 1
  Periods = {0, 1, 2, 3}
  FreezeLists <- Lists
  RewardsLists <- Lists
PROPERTIES OldPeriodReported
