\* A server that stops before its answer to login is complete.
CONSTANTS
  SizeT = 1024
  MaxLogins = 2
  MayBreak = TRUE
SPECIFICATION Spec
INVARIANT CookieFromServer
CHECK_DEADLOCK FALSE
