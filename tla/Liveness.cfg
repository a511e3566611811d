SPECIFICATION FairSpec
CONSTANTS
  n1 = n1
  n2 = n2
  i1 = i1
  i2 = i2
  w1 = w1
  w2 = w2
  h1 = h1
  h2 = h2
  key = key
  NoKey = NoKey
  Notifications = {n1, n2}
  PriorityOf <- HighAndLow
  MaxRetriesOf <- RetryOnce
  KeyOf <- Unkeyed
  Routable = {n1}
  Instances = {i1}
  Faults = {}
  MaxStreamLen = 3
  Handlers = {h1}
  HandlerHost <- HandlerOnOne
  BatchInputs <- BothInOneBatch
  BatchSize = 1
  PopLimit = 1
  Workers = {w1, w2}
  WorkerHost <- OneHost
PROPERTIES
  EventuallySettled
  QueuesDrain
