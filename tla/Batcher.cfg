SPECIFICATION FairSpec
CONSTANTS
  Events = {e1, e2, e3}
  Callers = {c1, c2}
  MaxSize = 2
  None = None
INVARIANTS TypeOK BatchHasTimer InOrder BoundedBatch LockDiscipline
PROPERTIES FlushIsBarrier AddedIsWritten CallsReturn ImplementsStream
