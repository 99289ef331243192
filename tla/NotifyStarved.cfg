SPECIFICATION FairSpec
CONSTANTS
  w = w
  c1 = c1
  c2 = c2
  d = d
  n1 = n1
  n2 = n2
  NoNote = NoNote
  Note = {n1, n2}
  Web = {}
  Dispatched <- NoMail
  Retry = {c1}
  Remind = {d}
  Reminders = {n1, n2}
  MaxRetries = 1
  Stale = 1
  BaseDelay = 1
  MaxDelay = 1
  Limit = 1
  MaxCrashes = 0
CHECK_DEADLOCK FALSE
PROPERTIES EveryFailureRetried
