SPECIFICATION DigestSpec
CONSTANTS
  Day = 6
  Hour = 4
  Every = 2
  MaxNow = 14
  MaxAlerts = 3
  MaxDelays = 1
  MaxLosses = 1
CHECK_DEADLOCK FALSE
INVARIANTS
  MailedTwiceOnlyAfterLoss
  MailedWithinADay
