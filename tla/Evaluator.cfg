SPECIFICATION Spec
CONSTANTS
  DedupeKey <- MCDedupeKey
  Candidates <- Crash
  Cooldown <- MCCooldown
  Day = 2
  Week = 3
  Lookback = 4
  CriticalPerDayCap = 2
  MaxWeeklyCap = 2
  MaxSimulated = 1
  MaxClock = 2
INVARIANTS
  CapsHold
  NeverSilenced
  RolledUpIsCovered
PROPERTY ImplementsPolicy
