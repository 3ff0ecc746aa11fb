\* The observer under its deadline, the tool with and without a tight budget.
CONSTANTS
  HunkCap = 3
  LineCap = 4
  ByteCap = 9
  RequestCap = 16
  InputLimits <- Limits
  CategoryOf <- Categories
  NameOf <- Names
  BasisCap = 1
  ListCap = 2
  TooLong <- LongOnes
  Marked <- MarkedOnes
  Inputs <- AllInputs
  JobLists <- Lists
  LogLengths <- Lengths
  Plans <- AllPlans
  ChangeAnswers <- Changes
  SignalAnswers <- Signals
  Configured <- Both
  RecommendationSize = 3
CHECK_DEADLOCK FALSE
SPECIFICATION
  Spec
INVARIANTS
  BudgetsHold
  EvidenceIsAccounted
  CutsAreMarked
  AnalysisIsLostForCause
  AdviceIsTruthful
PROPERTIES
  EventEnds
