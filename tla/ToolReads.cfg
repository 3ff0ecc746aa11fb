\* Two calls of every kind while the branch and the run move on.
CONSTANTS
  Null = Null
  BigLog = 3
  WorkflowCategory = "test"
  DefaultBudget <- Unlimited
  FileOverhead = 4
  Caller = {c1, c2}
  OwnerOf <- Owner
  Deployments <- AllDeployments
  Asks <- AsksOf
  RawRuns <- AllRawRuns
  JobsOf <- Jobs
  Logs <- AllLogs
  Change <- Changes
  Timeout = 1
  Skew = 2
  Lifetime = 4
  MaxClock = 4
CHECK_DEADLOCK FALSE
SPECIFICATION
  Spec
INVARIANTS
  TokenOutlivesRequest
  ChangeIsOfItsHead
  AnswersAreOnRecord
  WithinBudget
  CutIsMarked
PROPERTIES
  ServesWhatIsLoaded
