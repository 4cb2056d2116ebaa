\* Admission, native UDP, product services and UDP over TCP, the receive path.
CONSTANTS
  Sessions = {session}
  Apps = {app1, app2}
  UdpFlowsMax = 2
  UdpMaxFlows = 2
  MaxPeers = 2
  MaxSockets = 2
  UdpMaxDatagrams = 2
  Requests = {r1, r2}
  PoolSize = 1
  MaxUOTFlows = 1
  MaxStreams = 2
  MaxFailures = 1
  Addresses = {addr1, addr2}
  UotFlowsMax = 2
  QueuePackets = 1
  QueueBytes = 3
  Costs = {1, 2}
  UotMaxFlows = 2
  MaxPackets = 3
  Paths = {1, 2}
  Window = 2
  PathLimit = 3
  MaxFragments = 2
  AssemblyLimit = 3
  MaxDatagrams = 2
  MaxProbes = 2
  Conns = {k1, k2, k3}
  Sources = {src1, src2}
  SessionIds = {id1, id2}
  GlobalLimit = 2
  SourceLimit = 2
  SourceMax = 1
  Burst = 1
  Rate = 1
  Old = 1
  MaxSessions = 1
  MaxTicks = 2
  Handlers = {h1, h2}
  Frames = {{0}, {1, 2}, {3, 4}}
  Total = 5
  PageSize = 2
  MaxPages = 2
  ReadSizes = {1, 3}
SPECIFICATION Spec
INVARIANTS
  FlowsAgree PoolAgrees QueuesAgree DatagramsAgree AdmissionAgrees
PROPERTIES ComesBack
CHECK_DEADLOCK FALSE
