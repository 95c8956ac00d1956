SPECIFICATION Spec
CONSTANTS
  Keys <- Addresses
  Nibbles = {0, 1, 2}
  Values = {v1, v2}
  NoValue = NoValue
INVARIANTS GetsWhatWasPut ShapeOfContent
