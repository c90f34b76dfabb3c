\* Two sessions one after the other, a server that may stop in the middle of
\* any exchange; every division of requests and responses into pieces.
CONSTANTS
  SizeT = 1024
  MaxLogins = 2
  MayBreak = TRUE
SPECIFICATION FairSpec
INVARIANTS TypeOK RequestIntact WholeResponse TokenOfSession OneSession
PROPERTY CommandEnds
\* The client stops after exit.
CHECK_DEADLOCK FALSE
