\* The observer's own provider answers in time, and is an instance of a class.
CONSTANTS
  HunkCap = 3
  LineCap = 4
  ByteCap = 9
  RequestCap = 16
  InputLimits <- Limits
  CategoryOf <- Categories
  NameOf <- Names
  BasisCap = 1
  ListCap = 2
  TooLong <- None
  Marked <- None
  Inputs <- ClassInstances
  JobLists <- Lists
  LogLengths <- Lengths
  Plans <- AllPlans
  ChangeAnswers <- Changes
  SignalAnswers <- Signals
  Configured <- Both
  RecommendationSize = 3
CHECK_DEADLOCK FALSE
SPECIFICATION
  Spec
INVARIANTS
  UnavailableHasCause
