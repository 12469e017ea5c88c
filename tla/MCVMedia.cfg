CONSTANTS
  i1 = i1  i2 = i2  x = x
  A = A  B = B
  NoImage = NoImage
  Images = {A, B}
  Ops <- MediaOps
  Requests <- MediaRequests
  Sources <- MediaSources
  MaxLate = 1
SPECIFICATION Spec
INVARIANTS TypeOK RetriesConverge
PROPERTIES SoloInsertDelivers SoloEjectUndoesInsert
