SPECIFICATION FairSpec
CONSTANTS
  disc = disc nested = nested lost = lost
  top = top kept = kept loop = loop deep = deep u = u v = v
  Images = {disc, nested, lost}
  Dirs = {top, kept, loop, deep, u, v}
  Records <- MCRecords
  Listing <- MCListing
  Volume <- MCVolume
  Root <- MCRoot
  Options <- MCOptions
  MaxDirDepth = 4
  UdfReadDepth = 2
INVARIANTS TypeOK WholeInv EntryLimitHolds SizeLimitHolds NestingLimitHolds EntriesHangTogether TempIsTidy ReadableIsoIsWalked
PROPERTIES HitIsFinal WholeUnlessCut WalkEnds
