SPECIFICATION Spec
CONSTANTS
  disc = disc note = note d = d e = e a = a b = b n = n
  Places = {disc}
  Items = {d, a}
  FilePlaces = {}
  Folders = {d}
  Hashed = {a}
  Under <- SmallUnder
  Home <- SmallHome
  BatchSize = 2
  Seps = {FALSE}
  Trouble = {}
  CrashPoints = {}
  Failing = {"finish"}
  Aborting = {}
  MaxScans = 2
PROPERTIES NeverLost
