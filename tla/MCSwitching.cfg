SPECIFICATION Spec
CONSTANTS
  Ports = {"p1", "p2"}
  PortChannels = {"pc1", "pc2"}
  Vlans = {"Vlan10", "Vlan11"}
  Parent <- MCParent
  PvstMaxInstances = 1
  ForwardDelays = {4, 10, 15}
  HelloTimes = {1, 2, 9}
  MaxAges = {6, 20}
  Priorities = {4096, 5000}
  PathCosts = {0, 10}
  MstInstances = {0, 1}
  Sessions = {"s1", "s2"}
  StormTypes = {"broadcast"}
  StormRates = {10, 20}
  Loopbacks = {"Loopback0", "Loopback1"}
  Addresses = {"a4", "b4", "a6", "b6"}
  V6 = {"a6", "b6"}
  Vrfs = {"Vrf1", "Vrf2"}
  Vnets = {"Vnet1", "Vnet2"}
  SubVlan <- MCSubVlan
  ShortNames = {"E1.20"}
  VipsPerInstance = 1
  VrrpInstances = 2
  VrrpPerInterface = 1
  TracksPerInstance = 1
  Refs <- MCRefs
  VlanNumber <- MCVlanNumber
  Vteps = {"vtep"}
  Nvos = {"nvo"}
  Vnis = {1, 2}
  AclTables = {"data", "ctrl"}
  AclFiles <- MCAclFiles
  MaxPriority = 4
  PbhNames = {"t"}
  PbhCap <- MCPbhCap
  PbhMatches = {"gre_key", "ether_type"}
  NatIps = {1, 2}
  NatPorts = {80}
  TwiceIds = {0, 7}
  Pools = {"pool1", "pool2"}
  Bindings = {"b1", "b2"}
  MaxPools = 2
  MaxBindings = 2
  PortSpeeds = {100, 200}
  Fecs = {"rs"}
  Types = {"CR4"}
  TpidCapable = {"PORT", "LAG"}
  FastLinkup <- MCFastLinkup
  Areas = {"port", "tuning", "switch", "host_ports", "pvst", "pvst_ports", "mst", "router", "link", "loopback", "route", "vrrp", "vrrp6", "overlay", "vnet", "mclag", "evpn", "acl", "pbh", "nat", "nat_global"}
CHECK_DEADLOCK FALSE
INVARIANT StpFollowsVlans
INVARIANT LimitsHold
INVARIANT MembersExist
INVARIANT OneRole
INVARIANT AddressedIsNotSwitched
INVARIANT BoundVrfExists
INVARIANT VniMapsConsistent
INVARIANT IncrementalIsFull
INVARIANT PbhConsistent
INVARIANT NatDisjoint
INVARIANT MembersMatchPortchannel
