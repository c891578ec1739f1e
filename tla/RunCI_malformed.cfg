CONSTANTS
  a = a
  b = b
  u = u
  elsewhere = elsewhere
  Listed <- MCListed
  Unlisted <- MCUnlisted
  Elsewhere = elsewhere
  None = None
  Threshold <- MCThreshold
  Speedups <- MCSpeedups
  MaxLines = 1
  Pushes <- FullPushes
SPECIFICATION Spec
INVARIANTS MalformedReportFailsItsLab
