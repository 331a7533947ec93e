SPECIFICATION FairSpec
CONSTANTS
  alice = alice
  bob = bob
  User = {alice, bob}
  NoPlan = NoPlan
  Plans <- MCPlans
  ReplanEvery = 2
  LowEvery = 2
  Pause = 2
  MaxNow = 2
  MaxFailures = 2
CHECK_DEADLOCK FALSE
INVARIANT EveryoneHasATurn
PROPERTIES
  QuietAfterQuota
  LastSuccessIsKept
  TickEnds
