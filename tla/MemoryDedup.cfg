SPECIFICATION Spec
CONSTANTS
  e1 = e1
  e2 = e2
  e3 = e3
  f = f
  g = g
  Events <- MCEvents
  Fingerprint <- MCFingerprint
  TTL = 2
  Period = 3
  Lag = 1
  MaxTime = 8
  None = None
INVARIANTS TypeOK RememberedForTTL ForgottenInTime
PROPERTY ImplementsWindow
