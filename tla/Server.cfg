SPECIFICATION FairSpec
CONSTANTS
  p = p q = q d = d a = a b = b c = c h1 = h1 h2 = h2
  Places = {p, q}
  Items = {d, a, b, c}
  Walk <- MCWalk
  Up <- MCUp
  Handlers = {h1, h2}
  Requests <- MCRequests
  Files = {q}
  FtsFails = {d}
  Before <- MCBefore
  MaxHeader = 1
  MaxCommands = 2
  Killable <- SafePoints
INVARIANTS TypeOK SearchIsOneSnapshot StaleOnlyUnderSearch EntryAnswerIsWhole EntriesCanBeFound
PROPERTIES ConnectionsEnd
