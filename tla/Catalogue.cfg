SPECIFICATION Spec
CONSTANTS
  t1 = t1
  q1 = q1
  q2 = q2
  Ids = {1, 2, 3}
  Times = {1, 2}
  Statuses = {"pending", "queued"}
  Templates = {t1}
  NoTemplate = NoTemplate
  TemplateOf <- OneTemplate
  Requests = {q1, q2}
  BatchInputs <- TwoOfThree
  Batches <- TwoOfThree
  Unset = Unset
  MaxVersion = 2
  Limits = {0, 2}
  MaxLimit = 2
  DefaultLimit = 1
INVARIANTS
  CatalogueTypeOK
  TemplateReferencesHold
  ContentIsFresh
  BatchIsWhole
  WalkIsComplete
  NoRowTwice
SYMMETRY
  Interchangeable
