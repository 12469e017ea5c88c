CONSTANTS
  r1 = r1  r2 = r2  r3 = r3
  c1 = c1  c2 = c2
  p = p  v = v  u = u
  old = old  new = new
  A = A
  None = None
SPECIFICATION Spec
PROPERTY EveryRequestReturns
