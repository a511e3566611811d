SPECIFICATION FairSpec
CONSTANTS
  t1 = t1
  c1 = c1
  c2 = c2
  c3 = c3
  w1 = w1
  w2 = w2
  m1 = m1
  m2 = m2
  m3 = m3
  Topics = {t1}
  Conns = {c1, c2}
  TopicOf <- OneTopic
  Workers = {w1, w2}
  MapIds = {m1, m2, m3}
  NoMap = NoMap
INVARIANTS
  HubTypeOK
  RegistryIsExact
PROPERTIES
  WatchersAreTold
  BroadcastsReturn
  BrokenConnectionsClose
