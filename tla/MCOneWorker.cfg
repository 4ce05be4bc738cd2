SPECIFICATION Spec
CONSTANTS
  Threads = {t1, t2, t3}
  NoThread = NoThread
  MaxDepth = 2
  Null = Null
  Users = {u1}
  MaxRuns = 3
  WorkerIds = {0, 1}
  Items = {s1, s2}
  Workers = {w1}
  Nothing = Nothing
  Nobody = Nobody
  RingSz = 2
  Clients = {k1, k2, k3}
  Descriptors = {5, 6}
  MaxConnect = 2
  MaxListens = 2
  Listener = Listener
  NoHolder = NoHolder
  Peers = {}
  PortProto <- SomePorts
  Registered <- SomeProtocols
  MaxSelect = 2
  MaxFailed = 0
PROPERTY SlotTaken
