SPECIFICATION Spec
CONSTANTS
  c1 = c1
  c2 = c2
  e3 = e3
  e4 = e4
  Kinds = {"s3"}
  Callers = {c1, c2}
  Assignments <- MCAssignments
  Events = {e1, e2, e3, e4}
  Unencodable = {e1}
  Rejected = {e2}
  MaxRows = 2
  MaxTime = 1
  None = None
SYMMETRY MCSymmetry
INVARIANT SuccessIsStored
