SPECIFICATION Spec
CONSTANTS
  disc = disc note = note d = d e = e a = a b = b n = n
  Places = {disc}
  Items = {d, a}
  FilePlaces = {}
  Folders = {d}
  Hashed = {a}
  Under <- SmallUnder
  Home <- SmallHome
  BatchSize = 2
  Seps = {FALSE}
  Trouble = {"cancel", "unreadable", "vanish"}
  CrashPoints <- MostPoints
  Failing = {"source", "entry", "fts", "side", "remove", "switch", "drop", "finish"}
  Aborting = {"remove", "finish", "switch"}
  MaxScans = 3
INVARIANTS OneTreePerPlace CompletedIsComplete TreesHangTogether
