CONSTANTS
  p1 = p1
  p2 = p2
  NoProc = NoProc
  Procs = {p1, p2}
  IdOf <- TwoIds
  Ids = {0, 1, 2}
  Topics = {"t"}
  MaxFd = 6
  MaxMsg = 1
  MaxPending = 1
  Killable = {}
  StdinLines = {}
  LineEnds = {TRUE}
SPECIFICATION Spec
PROPERTIES UnsubscribeRemoves
