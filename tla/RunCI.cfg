CONSTANTS
  a = a
  b = b
  u = u
  elsewhere = elsewhere
  Listed <- MCListed
  Unlisted <- MCUnlisted
  Elsewhere = elsewhere
  None = None
  Threshold <- MCThreshold
  Speedups <- MCSpeedups
  MaxLines = 2
  Pushes <- MCPushes
SPECIFICATION FairSpec
INVARIANTS MeasuredAsBuilt PassedIsEarned SkippedIsUnchanged OneLabGreen
PROPERTIES VerdictIsFinal CheckoutSeparatesPhases Terminates
