SPECIFICATION Spec
CONSTANTS
  disc = disc note = note d = d e = e a = a b = b n = n
  Places = {disc, note}
  Items = {d, a, n}
  FilePlaces = {note}
  Folders = {d}
  Hashed = {a, n}
  Under <- BesideUnder
  Home <- BesideHome
  BatchSize = 2
  Seps = {FALSE}
  Trouble = {"cancel", "unreadable", "vanish", "unlistable"}
  CrashPoints <- AllPoints
  Failing = {"source", "scan", "entry", "fts", "side", "remove", "switch", "drop", "recover", "lookup", "batch", "final"}
  Aborting = {"entry", "fts", "side", "batch", "final", "remove", "finish", "switch"}
  MaxScans = 3
INVARIANTS NoDanglingRows ResultIsHonest IInv
PROPERTIES NeverLost SettledTreesUntouched
