SPECIFICATION Spec
CONSTANTS
  n1 = n1
  n2 = n2
  i1 = i1
  i2 = i2
  w1 = w1
  w2 = w2
  h1 = h1
  h2 = h2
  key = key
  NoKey = NoKey
  Notifications = {n1}
  PriorityOf <- SamePriority
  MaxRetriesOf <- RetryOnce
  KeyOf <- Unkeyed
  Routable = {n1}
  Instances = {i1, i2}
  Faults = {}
  MaxStreamLen = 2
  Handlers = {h1}
  HandlerHost <- HandlerOnOne
  BatchInputs = {}
  BatchSize = 1
  PopLimit = 1
  Workers = {w1, w2}
  WorkerHost <- TwoHosts
INVARIANT
  PopIsAtomic
