SPECIFICATION Spec
CONSTANTS
  disc = disc note = note d = d e = e a = a b = b n = n
  Places = {disc}
  Items = {d, a}
  FilePlaces = {}
  Folders = {d}
  Hashed = {a}
  Under <- SmallUnder
  Home <- SmallHome
  BatchSize = 3
  Seps = {FALSE}
  Trouble = {"cancel"}
  CrashPoints = {}
  Failing = {}
  Aborting = {}
  MaxScans = 2
PROPERTIES CancelKeepsScanned
