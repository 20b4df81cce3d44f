SPECIFICATION Spec
CONSTANTS
  Numerals <- Numbers
  IntMax = 8191
  UlongMax = 262143
  Uris <- AllUris
  Parts <- AllParts
  Commands = 5
  Depth = 2
  MaxLeft = 1
INVARIANTS TypeOK OwnReplies Configured OptionsRight
