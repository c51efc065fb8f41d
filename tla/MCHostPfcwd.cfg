SPECIFICATION Spec
CONSTANTS
  Ports = {"p1", "p2"}
  PortChannels = {}
  Vlans = {}
  Parent <- MCParent
  QosTemplates <- MCQosTemplates
  CbfTemplate <- MCCbfTemplate
  DynamicVendor = TRUE
  MaxPg = 7
  MaxQueue = 7
  PfcwdTimes = {100, 200}
  PollIntervals = {1000, 30000}
  CrmResources = {"ipv4_route"}
  CrmValues = {70}
  RoutePatterns <- MCPatterns
  Family <- MCFamily
  RouteFlowCounters = TRUE
  LlrCapable = TRUE
  IsDpu = TRUE
  DropCounters = {"d1", "d2", "d3"}
  DropReasons = {"r1", "r2"}
  AvailableDropCounters = 2
  HftProfiles = {"f1"}
  HftGroups = {"PORT", "QUEUE"}
  Refs <- MCRefs
  Servers = {"10.0", "10.9"}
  V6Servers = {"fc00"}
  SpecialAddrs = {"224.1"}
  LinuxAddresses <- MCLinux
  Containers = {"bgp"}
  Lines = {"1", "2"}
  Devices = {"d1", "d2"}
  Substrings <- MCSubstrings
  BadSecrets = {"bad"}
  RadiusMaxServers = 1
  NameserversMaxNum = 3
  Namespaces = {"", "asic0"}
  Features = {"bgp"}
  EgressSampling = TRUE
  DropMirroring = TRUE
  LlrPorts = {"p1"}
  HealthSeverities = {"fatal"}
  SflowNames = {"c1", "c2", "c3"}
  SflowIntfs = {"p1"}
  MaxCollectors = 2
  Neighbors = {"n1", "n2"}
  HostnameOf <- MCHostname
  FabricPorts = {"f0", "f1"}
  RemotePorts = {"f0", "f1"}
  MaxForce = 2
  Modules = {"fabric0", "line0", "host0"}
  FabricCards = {"fabric0"}
  SwitchHosts = {"host0"}
  AsicsOf <- MCAsics
  MaxSensors = 3
  MaxRecords = 2
  Operators = {"o1"}
  CablePorts <- MCCables
  FirstPorts = {"e0", "e1"}
  MaxRequests = 2
  BreakoutModes = {"1x", "2x"}
  ChildPorts <- MCChildren
  LanesOf <- MCLanes
  DefaultConfig = {"q1"}
  MaxWait = 3
  Admins = {"a1", "a2"}
  NsOrder <- MCNsOrder
  NamedFiles <- MCNamedFiles
  SingleFiles = {"s"}
  FirstFiles <- MCFirstFiles
  Golden <- MCGolden
  GoodGolden = {"host"}
  PortConfigFits = TRUE
  NoTag = "none"
  MaxReloads = 2
  MaxDeaths = 1
  ScopeOrder <- MCScopeOrder
  MultiAsic = TRUE
  PatchTables = {"T"}
  PatchValues = {1, 2}
  RefusedValues = {3}
  CheckpointNames = {"c"}
  MaxUpdates = 3
  MaxWrites = 1
  Users = {"u1", "u2"}
  Ttys = {"1", "2"}
  MaxSessions = 2
  Handlers = {"h1", "h2"}
  FeatureOf <- MCFeatureOf
  TimeBuf = 2
  DiskTotal = 4
  DumpSizes = {3}
  MemTotal = 1000
  MaxTime = 2
  MaxDumps = 2
  MaxEvents = 3
  MaxSettings = 2
  Areas = {"pfcwd"}
CHECK_DEADLOCK FALSE
INVARIANT HistoryKept
