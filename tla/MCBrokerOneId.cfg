CONSTANTS
  p1 = p1
  p2 = p2
  NoProc = NoProc
  Procs = {p1, p2}
  IdOf <- OneId
  Ids = {0, 1}
  Topics = {"t"}
  MaxFd = 6
  MaxMsg = 3
  MaxPending = 1
  Killable = {p1}
  StdinLines = {"exit"}
  LineEnds = {TRUE, FALSE}
SPECIFICATION Spec
INVARIANTS NoGhosts OneConnectionPerId StoreOnlyOffline InOrder OwnDescriptor
PROPERTIES ImplementsStoreForward
