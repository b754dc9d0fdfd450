CONSTANTS
  NoPage = NoPage
  PageKeys = {k1, k2, k3, k4}
  Pages = {1, 2}
  FrameCount = 3
  SmallFrameCount = 2
  MaxRequests = 6
  MaxWrites = 1
SPECIFICATION SpecBoth
INVARIANTS
  TypeOK
  FramesInRecencyOrder
  MostRecentPagesCached
  MissesAccounted
  SmallIsNewestPartOfLarge
  MoreFramesNeverReadMore
PROPERTY
  ImplementsRecencyCache
