SPECIFICATION FairSpec
CONSTANTS
  Threads = {t1, t2}
  NoThread = NoThread
  Queries = {q1}
  Questions <- MCQuestions
  Handlers = {app}
  NoHandler = NoHandler
  Wildcard = Wildcard
  WildcardFamily = "IPv4"
  Configurations <- MCConfigurations
  Capabilities = {"Dns"}
  Codes = {"ServerFailure"}
  MaxAnswers = 1
INVARIANTS
  QueriesAreAnswered
PROPERTIES
  ImplementsFairLifecycle
