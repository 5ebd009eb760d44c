SPECIFICATION Spec
CONSTANTS
  Files <- MCFiles
  BlockSize = 4
  LengthSize = 1
  MaxPiece = 6
  Discs <- MCDiscs
  Anchors <- MCAnchors
  MaxSequence = 5
  HeadScan = 9
  MaxHeads = 2
  MaxDirSectors = 4
  SectorSize = 8
  HeaderSize = 3
  Alignment = 2
INVARIANTS DigestTypeOK DigestIsOfTheFile UdfTypeOK AcceptedSequenceWins SizesMayBeTooSmall RootIsFirstThatResolves
PROPERTIES HashingEndsHere MountEndsHere
