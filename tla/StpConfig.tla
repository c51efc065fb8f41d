----------------------------- MODULE StpConfig -----------------------------
(* config spanning_tree (config/stp.py).  PVST keeps its timers in the     *)
(* table STP and, per VLAN, in STP_VLAN; ports are in STP_PORT and         *)
(* STP_VLAN_PORT.  MST keeps them in STP_MST, STP_MST_INST, STP_MST_PORT.  *)
(* When a command is registered twice under one name the later function    *)
(* is the one that runs.  "interface enable" and "interface disable" look  *)
(* up the mode in a table STP_GLOBAL nobody writes: the first always fails *)
(* and the second never writes, so that neither is an action.              *)
EXTENDS ConfigDb

CONSTANTS
  PvstMaxInstances, \* PVST_MAX_INSTANCES
  ForwardDelays, HelloTimes, MaxAges, Priorities, \* values commands are called with
  PathCosts, MstInstances

StpTables == {"STP", "STP_VLAN", "STP_PORT", "STP_VLAN_PORT", "STP_MST",
              "STP_MST_INST", "STP_MST_PORT"}

PathCostRange == 1..200000000
MST_MAX_REVISION == 65535
MST_DEFAULT_BRIDGE_PRIORITY == 32768
STP_DEFAULT_BRIDGE_PRIORITY == 32768

---------------------------------------------------------------------------
get_global_stp_mode(d) == Field(d, "STP", "GLOBAL", "mode", "none")
is_global_stp_enabled(d) == get_global_stp_mode(d) # "none"

\* The value 0 stands for a field that is not there (None in the code).
GlobalTimer(d, f) == Field(d, "STP", "GLOBAL", f, 0)
VlanEntryFromGlobal(d) ==
  [enabled |-> TRUE, forward_delay |-> GlobalTimer(d, "forward_delay"),
   hello_time |-> GlobalTimer(d, "hello_time"), max_age |-> GlobalTimer(d, "max_age"),
   priority |-> GlobalTimer(d, "priority")]

PvstPortEntry ==
  [enabled |-> TRUE, root_guard |-> FALSE, bpdu_guard |-> FALSE,
   bpdu_guard_do_disable |-> FALSE, portfast |-> FALSE, uplink_fast |-> FALSE]
MstPortEntry ==
  [edge_port |-> FALSE, link_type |-> "auto", enabled |-> TRUE, bpdu_guard |-> FALSE,
   bpdu_guard_do |-> FALSE, root_guard |-> FALSE, path_cost |-> 1, priority |-> 128]

validate_params(forward_delay, max_age, hello_time) ==
  2 * (forward_delay - 1) >= max_age /\ max_age >= 2 * (hello_time + 1)

\* Mutant: the stored values are checked, without the new one.
ValidStoredTimers(entry, f, value) ==
  validate_params(entry.forward_delay, entry.max_age, entry.hello_time)

\* is_valid_stp_global_parameters and is_valid_stp_vlan_parameters: the
\* entry with the new value.
ValidTimers(entry, f, value) ==
  LET e == Put(entry, f, value)
  IN  validate_params(e.forward_delay, e.max_age, e.hello_time)

InRange(f, value) ==
  CASE f = "forward_delay" -> value \in 4..30
    [] f = "hello_time" -> value \in 1..10
    [] f = "max_age" -> value \in 6..40
    [] f = "priority" -> value % 4096 = 0 /\ value \in 0..61440

---------------------------------------------------------------------------
stp_enabled_vlans(d) ==
  {v \in Keys(d, "STP_VLAN") : Field(d, "STP_VLAN", v, "enabled", FALSE)}
get_vlan_list_for_interface(d, p) == {k[1] : k \in MembersOf(d, "VLAN_MEMBER", p)}
get_intf_list_in_vlan_member_table(d) == {k[2] : k \in Keys(d, "VLAN_MEMBER")}
SwitchedPorts(d) ==
  get_intf_list_in_vlan_member_table(d) \cap (Keys(d, "PORT") \cup Keys(d, "PORTCHANNEL"))

\* Called by "config vlan add".
vlan_enable_stp(d, v) ==
  IF is_global_stp_enabled(d) /\ Cardinality(stp_enabled_vlans(d)) < PvstMaxInstances
  THEN SetEntry(d, "STP_VLAN", v, VlanEntryFromGlobal(d)) ELSE d

interface_enable_stp(d, p) ==
  IF is_global_stp_enabled(d) THEN SetEntry(d, "STP_PORT", p, PvstPortEntry) ELSE d

enable_stp_for_interfaces(d) == SetAll(d, "STP_PORT", SwitchedPorts(d), PvstPortEntry)

\* The VLANs in natural order, up to the limit; Order gives their numbers.
enable_stp_for_vlans(d, Order) ==
  SetAll(d, "STP_VLAN",
         {v \in Keys(d, "VLAN") :
            Cardinality({w \in Keys(d, "VLAN") : Order[w] < Order[v]}) < PvstMaxInstances},
         VlanEntryFromGlobal(d))

enable_mst_for_interfaces(d) ==
  SetAll(SetAll(d, "STP_MST_PORT", {<<0, p>> : p \in SwitchedPorts(d)},
                [path_cost |-> 1, priority |-> 128]),
         "STP_PORT", SwitchedPorts(d), MstPortEntry)

\* The key of instance 0 is not the one the instance commands look up.
enable_mst_instance0(d) ==
  SetEntry(d, "STP_MST_INST", <<"INSTANCE", 0>>, [bridge_priority |-> MST_DEFAULT_BRIDGE_PRIORITY])

spanning_tree_enable(mode, Order) ==
  /\ get_global_stp_mode(db) = "none"
  /\ db' = IF mode = "pvst"
           THEN LET d == SetEntry(db, "STP", "GLOBAL",
                                  [mode |-> "pvst", rootguard_timeout |-> 30,
                                   forward_delay |-> 15, hello_time |-> 2,
                                   max_age |-> 20, priority |-> STP_DEFAULT_BRIDGE_PRIORITY])
                IN  enable_stp_for_vlans(enable_stp_for_interfaces(d), Order)
           ELSE enable_mst_instance0(enable_mst_for_interfaces(
                  SetEntry(db, "STP", "GLOBAL", [mode |-> "mst"])))

disable_global_pvst(d) ==
  DelTable(DelTable(DelTable(DelEntry(d, "STP", "GLOBAL"),
                             "STP_VLAN"), "STP_PORT"), "STP_VLAN_PORT")
disable_global_mst(d) ==
  DelTable(DelTable(DelTable(DelTable(DelEntry(d, "STP", "GLOBAL"),
                                      "STP_MST"), "STP_MST_INST"), "STP_MST_PORT"), "STP_PORT")

stp_disable(mode) ==
  /\ mode = get_global_stp_mode(db)
  /\ db' = IF mode = "pvst" THEN disable_global_pvst(db) ELSE disable_global_mst(db)

---------------------------------------------------------------------------
stp_global_root_guard_timeout(t) ==
  /\ get_global_stp_mode(db) = "pvst" /\ t \in 5..600
  /\ db' = ModEntry(db, "STP", "GLOBAL", [rootguard_timeout |-> t])

\* A VLAN follows the global value when its own value of the parameter is
\* the global *forward_delay*: the code reads that field for every one.
update_stp_vlan_parameter(d, f, value) ==
  [d EXCEPT !["STP_VLAN"] =
     [v \in DOMAIN @ |->
        IF Field(d, "STP_VLAN", v, f, 0) = GlobalTimer(d, "forward_delay")
        THEN Put(@[v], f, value) ELSE @[v]]]

\* forward_delay, hello, max_age: MST keeps them without the relation.
SetGlobalTimer(f, value) ==
  /\ InRange(f, value)
  /\ \/ /\ get_global_stp_mode(db) = "pvst"
        /\ ValidTimers(db["STP"]["GLOBAL"], f, value)
        /\ db' = ModEntry(update_stp_vlan_parameter(db, f, value), "STP", "GLOBAL", One(f, value))
     \/ /\ get_global_stp_mode(db) = "mst"
        /\ db' = ModEntry(db, "STP_MST", "GLOBAL", One(f, value))
stp_global_forward_delay(x) == SetGlobalTimer("forward_delay", x)
stp_global_hello_interval(x) == SetGlobalTimer("hello_time", x)
stp_global_max_age(x) == SetGlobalTimer("max_age", x)

stp_global_priority(x) ==
  /\ get_global_stp_mode(db) = "pvst" /\ InRange("priority", x)
  /\ db' = ModEntry(update_stp_vlan_parameter(db, "priority", x), "STP", "GLOBAL",
                    [priority |-> x])

\* max_hops, region-name and revision, of MST only.
MstGlobal(f, value) ==
  /\ get_global_stp_mode(db) = "mst"
  /\ db' = ModEntry(db, "STP_MST", "GLOBAL", One(f, value))
stp_global_max_hops(x) == x \in 1..40 /\ MstGlobal("max_hops", x)
stp_global_revision(x) == x \in 0..MST_MAX_REVISION /\ MstGlobal("revision", x)
stp_mst_region_name(x) == MstGlobal("name", x)

---------------------------------------------------------------------------
(* config spanning_tree vlan: without a mode set they end silently.        *)
stp_vlan_enable(v) ==
  /\ get_global_stp_mode(db) = "pvst"
  /\ Has(db, "VLAN", v)
  /\ v \notin stp_enabled_vlans(db)
  /\ Cardinality(stp_enabled_vlans(db)) < PvstMaxInstances
  /\ db' = IF Has(db, "STP_VLAN", v) THEN ModEntry(db, "STP_VLAN", v, [enabled |-> TRUE])
           ELSE SetEntry(db, "STP_VLAN", v, VlanEntryFromGlobal(db))

stp_vlan_disable(v) ==
  /\ get_global_stp_mode(db) = "pvst"
  /\ Has(db, "VLAN", v)
  /\ db' = ModEntry(db, "STP_VLAN", v, [enabled |-> FALSE])

SetVlanTimer(v, f, value) ==
  /\ get_global_stp_mode(db) = "pvst"
  /\ Has(db, "VLAN", v) /\ v \in stp_enabled_vlans(db)
  /\ InRange(f, value)
  /\ f # "priority" => ValidTimers(db["STP_VLAN"][v], f, value)
  /\ db' = ModEntry(db, "STP_VLAN", v, One(f, value))
stp_vlan_forward_delay(v, x) == SetVlanTimer(v, "forward_delay", x)
stp_vlan_hello_interval(v, x) == SetVlanTimer(v, "hello_time", x)
stp_vlan_max_age(v, x) == SetVlanTimer(v, "max_age", x)
stp_vlan_priority(v, x) == SetVlanTimer(v, "priority", x)

---------------------------------------------------------------------------
is_stp_enabled_for_interface(d, p) == Field(d, "STP_PORT", p, "enabled", FALSE)

\* A switched port: no IP address, in no port channel, in some VLAN.
check_if_interface_is_valid(d, p) ==
  /\ is_valid_port(d, p) \/ is_valid_portchannel(d, p)
  /\ ~\E k \in Keys(d, "INTERFACE") : Len(k) = 2 /\ k[1] = p
  /\ ~interface_is_in_portchannel(d, p)
  /\ get_vlan_list_for_interface(d, p) # {}

\* portfast and uplink_fast: of an enabled port, not in MST.
SetPvstPortFlag(p, f, on) ==
  /\ get_global_stp_mode(db) # "mst"
  /\ is_stp_enabled_for_interface(db, p) /\ check_if_interface_is_valid(db, p)
  /\ db' = ModEntry(db, "STP_PORT", p, One(f, on))
stp_interface_portfast_enable(p) == SetPvstPortFlag(p, "portfast", TRUE)
stp_interface_portfast_disable(p) == SetPvstPortFlag(p, "portfast", FALSE)
stp_interface_uplink_fast_enable(p) == SetPvstPortFlag(p, "uplink_fast", TRUE)
stp_interface_uplink_fast_disable(p) == SetPvstPortFlag(p, "uplink_fast", FALSE)

mstp_interface_edge_port(p, on) ==
  /\ get_global_stp_mode(db) = "mst"
  /\ is_stp_enabled_for_interface(db, p) /\ check_if_interface_is_valid(db, p)
  /\ db' = ModEntry(db, "STP_PORT", p, [edge_port |-> on])

\* The guards do not ask whether STP is enabled on the port, or at all, and
\* reset two PVST fields; the mode they test for MST is called "mst" elsewhere.
PvstReset(d) ==
  IF get_global_stp_mode(d) = "pvst" THEN [portfast |-> FALSE, uplink_fast |-> FALSE]
                                     ELSE NoEntries
stp_interface_bpdu_guard_enable(p, shutdown) ==
  /\ check_if_interface_is_valid(db, p)
  /\ db' = ModEntry(db, "STP_PORT", p,
             Over([bpdu_guard |-> TRUE, bpdu_guard_do_disable |-> shutdown], PvstReset(db)))
stp_interface_bpdu_guard_disable(p) ==
  /\ check_if_interface_is_valid(db, p)
  /\ db' = ModEntry(db, "STP_PORT", p,
             Over([bpdu_guard |-> FALSE, bpdu_guard_do_disable |-> FALSE], PvstReset(db)))
stp_interface_root_guard_enable(p) ==
  /\ check_if_interface_is_valid(db, p)
  /\ db' = ModEntry(db, "STP_PORT", p, Over([root_guard |-> TRUE], PvstReset(db)))
stp_interface_root_guard_disable(p) ==
  /\ check_if_interface_is_valid(db, p)
  /\ db' = ModEntry(db, "STP_PORT", p, Over([root_guard |-> FALSE], PvstReset(db)))

stp_interface_priority(p, x) ==
  /\ is_global_stp_enabled(db) /\ is_stp_enabled_for_interface(db, p)
  /\ check_if_interface_is_valid(db, p) /\ x \in 0..240
  /\ db' = ModEntry(db, "STP_PORT", p, Over([priority |-> x], PvstReset(db)))

stp_interface_cost(p, x) ==
  /\ is_global_stp_enabled(db) /\ check_if_interface_is_valid(db, p) /\ x \in PathCostRange
  /\ db' = IF Has(db, "STP_PORT", p) THEN ModEntry(db, "STP_PORT", p, [path_cost |-> x])
           ELSE SetEntry(db, "STP_PORT", p,
                  IF get_global_stp_mode(db) = "mst"
                  THEN [path_cost |-> x, edge_port |-> FALSE, link_type |-> "auto"]
                  ELSE Over([path_cost |-> x], PvstReset(db)))

stp_interface_link_type_set(p, type) ==
  /\ is_stp_enabled_for_interface(db, p) /\ check_if_interface_is_valid(db, p)
  /\ db' = ModEntry(db, "STP_PORT", p,
             IF get_global_stp_mode(db) = "mst" THEN [link_type |-> type, edge_port |-> FALSE]
             ELSE Over([link_type |-> type], PvstReset(db)))

\* config spanning_tree vlan interface priority and cost.
SetVlanPort(v, p, e) ==
  /\ v \in stp_enabled_vlans(db) /\ is_stp_enabled_for_interface(db, p)
  /\ Has(db, "VLAN", v) /\ Has(db, "VLAN_MEMBER", <<v, p>>)
  /\ db' = ModEntry(db, "STP_VLAN_PORT", <<v, p>>, e)
stp_vlan_interface_priority(v, p, x) == x \in 0..240 /\ SetVlanPort(v, p, [priority |-> x])
stp_vlan_interface_cost(v, p, x) == x \in PathCostRange /\ SetVlanPort(v, p, [path_cost |-> x])

---------------------------------------------------------------------------
(* MST instances; one can only come from a loaded configuration.           *)
mst_instance_interface_priority(i, p, x) ==
  /\ i \in 0..62 /\ x \in 0..240 /\ check_if_interface_is_valid(db, p)
  /\ db' = ModEntry(db, "STP_MST_PORT", <<i, p>>, [priority |-> x])
mst_instance_interface_cost(i, p, x) ==
  /\ get_global_stp_mode(db) = "mst"
  /\ i \in 0..62 /\ x \in PathCostRange /\ check_if_interface_is_valid(db, p)
  /\ db' = ModEntry(db, "STP_MST_PORT", <<i, p>>, [path_cost |-> x])
mst_instance_priority(i, x) ==
  /\ i \in 0..62 /\ Has(db, "STP_MST_INST", <<"MST_INSTANCE", i>>) /\ InRange("priority", x)
  /\ db' = ModEntry(db, "STP_MST_INST", <<"MST_INSTANCE", i>>, [bridge_priority |-> x])

MappedVlans(d, i) == Field(d, "STP_MST_INST", <<"MST_INSTANCE", i>>, "vlan_list", {})
mst_instance_vlan_add(i, v) ==
  /\ i \in 1..62 /\ Has(db, "STP_MST_INST", <<"MST_INSTANCE", i>>)
  /\ Has(db, "VLAN", v) /\ v \notin MappedVlans(db, i)
  /\ db' = ModEntry(db, "STP_MST_INST", <<"MST_INSTANCE", i>>,
                    [vlan_list |-> MappedVlans(db, i) \cup {v}])
mst_instance_vlan_del(i, v) ==
  /\ i \in 1..62 /\ Has(db, "STP_MST_INST", <<"MST_INSTANCE", i>>) /\ v \in MappedVlans(db, i)
  /\ db' = ModEntry(db, "STP_MST_INST", <<"MST_INSTANCE", i>>,
                    [vlan_list |-> MappedVlans(db, i) \ {v}])

---------------------------------------------------------------------------
\* add, del and the member commands of config vlan keep the tables of PVST
\* in step: a spanning tree belongs to a VLAN that exists, the parameters
\* of a port in it to a member, and no command runs more trees than the
\* switch has, whether they come from enabling PVST, from new VLANs or from
\* enabling a VLAN by hand.
StpFollowsVlans ==
  /\ Keys(db, "STP_VLAN") \subseteq Keys(db, "VLAN")
  /\ Keys(db, "STP_VLAN_PORT") \subseteq Keys(db, "VLAN_MEMBER")
  /\ Cardinality(stp_enabled_vlans(db)) <= PvstMaxInstances

\* The timers are set one at a time, each checked against the other two as
\* they are stored: the relation of IEEE 802.1D between them holds after
\* any sequence of the commands that set the global ones.
PvstTimersValid ==
  get_global_stp_mode(db) = "pvst" =>
    validate_params(GlobalTimer(db, "forward_delay"), GlobalTimer(db, "max_age"),
                    GlobalTimer(db, "hello_time"))
===========================================================================
