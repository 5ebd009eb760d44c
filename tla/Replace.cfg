SPECIFICATION FairSpec
CONSTANTS
  disc = disc note = note d = d e = e a = a b = b n = n
  Places = {disc, note}
  Items = {d, e, a, b, n}
  FilePlaces = {note}
  Folders = {d, e}
  Hashed = {a, n}
  Under <- BothUnder
  Home <- BothHome
  BatchSize = 2
  Seps = {FALSE}
  Trouble = {"cancel"}
  CrashPoints <- MostPoints
  Failing = {}
  Aborting = {}
  MaxScans = 3
INVARIANTS TypeOK TreesHangTogether LeftoversAreMarked NoLeftoverBesideScan SettledTreesAreIndexed
PROPERTIES ScanEnds ScansAreAtomic
