SPECIFICATION FairSpec
CONSTANTS
  e1 = e1
  e2 = e2
  e3 = e3
  TypeOrder <- MCTypes
  Configurations <- MCConfigurations
  Known = {"s3", "postgres", "noop"}
  Unreachable = {"postgres"}
  Flaky = {"postgres"}
  Events = {e1, e2, e3}
  TypeOf <- MCTypeOf
INVARIANTS TypeOK ServesWhenReady StopsInOrder CleanExit
PROPERTIES LedgerPerType ShutdownEnds
