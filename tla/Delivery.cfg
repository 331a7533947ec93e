SPECIFICATION FairSpec
CONSTANTS
  critical = critical
  warning = warning
  chat = chat
  laptop = laptop
  NoChat = NoChat
  Alert = {critical, warning}
  Critical = {critical}
  Chat = {chat}
  Endpoint = {laptop}
  Configured = {"telegram", "push", "email"}
  MaxFailures = 1
  MaxChanges = 1
CHECK_DEADLOCK FALSE
INVARIANTS
  AtMostOnce
  SentMeansTaken
PROPERTY DeliveryEnds
