CONSTANTS
  key1 = key1
  key2 = key2
  val1 = val1
  val2 = val2
  val3 = val3
  Junk = Junk
  Message = Message
  Object = Object
  Nil = Nil
  Ints = {1, 2, 4}
  Others = {key1, key2}
  Hash <- MCHash
  Vals = {val1, val2}
  Fields <- MCFields
  NoNode = NoNode
  Off = Off
  MAX_INT = 4
  MaxSizes <- MCSizes
  Main = main
  Coroutines = {c1}
  BASIC_CI_SIZE = 3
  LUAI_MAXCALLS = 3
  LUAI_MAXCCALLS = 5
  Extra = 2
  LUAL_BUFFERSIZE = 2
  LIMIT = 4
  Referred = {key1, key2, val1, val2}
  MaxRefs = 5
  MaxAdded = 14
SPECIFICATION MCSpec
INVARIANTS ChainsAndPointers FramesAreActive HelpersKeepWhatTheyGot
PROPERTIES ImplementsMap ImplementsFrames CoroutinesKeepTheirPlace
