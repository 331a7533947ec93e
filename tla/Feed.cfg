SPECIFICATION FeedSpec
CONSTANTS
  poller = poller
  request = request
  None = None
  Caller = {poller, request}
  Jobs <- MCJobs
  Id = {1, 2, 3}
  MaxIds = 2
  Doubtful = {1}
  Minute = 2
  MaxWait = 1
  MaxRate = 2
  Ttl = 2
  MaxAge = 3
  Timeout = 1
  MaxEntries = 2
  MaxJobs = 2
  MaxStart = 4
  MaxClock = 8
CHECK_DEADLOCK FALSE
INVARIANT JobsEndInTime
PROPERTIES
  GrantFits
  PaidOnce
  QuotesStayRecent
