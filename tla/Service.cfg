SPECIFICATION ServiceSpec
CONSTANTS
  Instances = {i, j}
  Submissions <- MCSubmissions
  Attempts <- MCAttempts
  Request <- MCRequest
  Cases <- MCCases
  Namespace <- MCNamespace
  Colon = ":"
  TTL = 1
  MaxTime = 2
  None = None
SYMMETRY MCSymmetry
INVARIANTS ServiceTypeOK GenuineOnly AnswersAreTrue OkIsKept RefusedHasTwin
PROPERTY ImplementsWindow
