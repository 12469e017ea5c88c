CONSTANTS
  i1 = i1  i2 = i2  x = x
  A = A  B = B
  NoImage = NoImage
  Images = {A, B}
  Ops <- MediaOps
  Requests <- MixRequests
  Sources <- MixSources
  MaxLate = 0
SPECIFICATION Spec
PROPERTY EjectRestoresPower
