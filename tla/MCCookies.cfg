SPECIFICATION Spec
CONSTANTS
  x = x
  y = y
  COOKIE_REFRESH_INTERVAL = 3
  SECOND = 2
  max_per_second = 1
  Source = {x, y}
  MaxTime = 6
  MaxSend = 2
  MaxLoad = 2
INVARIANTS UnprovenRate AcceptedCookieIsRecent SecretsAreSpaced
CHECK_DEADLOCK FALSE
