SPECIFICATION Spec
CONSTANTS
  Numerals <- Numbers
  IntMax = 8191
  UlongMax = 262143
  Uris <- HereUris
  Parts = {}
  Commands = 5
  Depth = 2
  MaxLeft = 1
INVARIANT NothingLeft
