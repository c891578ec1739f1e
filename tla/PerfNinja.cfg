CONSTANTS
  MaxRuns = 2
  MaxCalls = 2
  None = None
  Broken = Broken
  Names = {"x", "y"}
  Units = {"ms", "us"}
  Times = {0, 1, 2}
  DataSize = 4
  ThreadCount = 3
  Inputs <- MCInputs
  Modulus = 32
  Objects = {o1, o2}
  Addresses = {p, q}
  Handles = {h1, h2, h3, h4}
  Sizes = {0, 1, 2}
  Nil = Nil
  ArenaSize = 3
  Values <- MCValues
  Null = Null
  Uninit = Uninit
  Rows = 3
  Columns = 4
  Sims = 2
  Starts <- MCStarts
  Order = 2
  Mod = 3
  MaxPower = 9
  Elements = 4
  minRandom = 0
  maxRandom = 3
  MaxSize = 6
  MaxRadius = 3
  MaxValue = 2
  Wrap = 16
  SequenceSize = 4
  Symbols = {1, 2}
  Pictures <- MCPictures
SPECIFICATION PartsSpec
INVARIANTS ComparedAreFresh ReportedAreValid ComparisonsAreComplete AddedOnce CompleteBehindBarrier MatchesOriginal OneOwner OwnedExists WindowsKeepsNothing PointsToNodes ReadsInBounds AgreesWithDefinition
PROPERTIES ImplementsOnceEach MappingsEndWithTheirOwner
