CONSTANTS
  Callers = {r1, r2, r3}
  Chunks = 2
  NoFile = NoFile
  MaxRestarts = 1
SPECIFICATION Spec
INVARIANT OneObjectPerImage
