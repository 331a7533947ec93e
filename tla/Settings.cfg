SPECIFICATION SettingsSpec
CONSTANTS
  weeklyCap = weeklyCap
  protectionLevel = protectionLevel
  telegram = telegram
  laptop = laptop
  phone = phone
  e1 = e1
  e2 = e2
  e3 = e3
  Null = Null
  Window = {laptop, phone}
  Sheet = {weeklyCap, protectionLevel}
  Switch = {telegram}
  Value = {1, 2}
  Raised <- MCRaised
  Endpoint = {e1, e2, e3}
  MaxPush = 1
  MaxClicks = 5
SYMMETRY Symmetry
CHECK_DEADLOCK FALSE
PROPERTIES
  UntouchedIsKept
  PushLimitHolds
