--------------------------- MODULE ServiceConfig ---------------------------
(* The services of the switch: features, warm restart, sflow, BGP sessions *)
(* (config bgp, bmp), kdump, kubernetes, fabric ports and chassis modules, *)
(* link layer retry, leak control, ASIC health events and the platform     *)
(* plugins of the configuration commands.                                  *)
EXTENDS ConfigDb

CONSTANTS
  Namespaces,       \* of the databases; "" is the host
  Features,
  EgressSampling, DropMirroring,   \* capabilities the state database shows
  LlrPorts,                        \* ports capable of link layer retry
  HealthSeverities,                \* severities the SDK can register for
  SflowNames, SflowIntfs, MaxCollectors,
  Neighbors, HostnameOf,           \* BGP neighbours and the name of each
  FabricPorts, RemotePorts,        \* fabric ports, and those with a neighbour
  MaxForce,                        \* bound on the counter of forced unisolations
  Modules, FabricCards, SwitchHosts,
  AsicsOf,                         \* fabric card -> its ASICs
  MaxSensors,                      \* 4294967295 in the code
  MaxRecords                       \* recordings of the SDK that are kept

ServiceTables == {"FEATURE", "WARM_RESTART_ENABLE_TABLE", "WARM_RESTART", "SFLOW", "SFLOW_SESSION",
                  "SFLOW_COLLECTOR", "BGP_NEIGHBOR", "BMP", "BGP_DEVICE_GLOBAL",
                  "BGP_AGGREGATE_ADDRESS", "KDUMP", "KUBERNETES_MASTER", "KUBE_LABELS",
                  "FABRIC_PORT", "FABRIC_MONITOR", "CHASSIS_MODULE", "CHASSIS_FABRIC_ASIC_TABLE",
                  "SERVICES", "MODULE_TRANSITION", "LLR_PORT", "LEAK_CONTROL_POLICY",
                  "SUPPRESS_ASIC_SDK_HEALTH_EVENT", "RATES", "DEVICE_METADATA", "BASHRC",
                  "SYNCD_RECORD", "SYNCD_DUMPS", "SYNCD_ENV", "PORT", "PLATFORM"}
Mod(t, k, f, v) == db' = ModEntry(db, t, k, f :> v)

---------------------------------------------------------------------------
(* config feature.  The state is checked in every namespace and then       *)
(* written in one after the other; written says where the writes got to    *)
(* before one was refused.  A namespace left behind makes the states       *)
(* differ, and from then on the command refuses.                           *)
FeatureValues(name, f) ==
  {Field(db, "FEATURE", <<ns, name>>, f, "") : ns \in Namespaces} \ {""}
InAllNamespaces(name) == \A ns \in Namespaces : Has(db, "FEATURE", <<ns, name>>)
WriteFeature(name, f, v, written) ==
  db' = [db EXCEPT !["FEATURE"] =
           [k \in DOMAIN @ |-> IF k[2] = name /\ k[1] \in written THEN (f :> v) @@ @[k] ELSE @[k]]]
set_feature_state(name, state, written) ==
  LET old == FeatureValues(name, "state")
  IN  /\ InAllNamespaces(name) /\ Cardinality(old) = 1 /\ old # {"always_enabled"}
      /\ WriteFeature(name, "state", state, written)
feature_autorestart(name, x, written) ==
  LET old == FeatureValues(name, "auto_restart")
  IN  /\ InAllNamespaces(name) /\ Cardinality(old) = 1 /\ old # {"always_enabled"}
      /\ WriteFeature(name, "auto_restart", x, written)
_update_field(name, f, v) == Has(db, "FEATURE", <<"", name>>) /\ Mod("FEATURE", <<"", name>>, f, v)
feature_owner(name, owner) == _update_field(name, "set_owner", owner)
feature_fallback(name, x) == _update_field(name, "no_fallback_to_local", IF x = "on" THEN "false" ELSE "true")

(* config warm_restart: a module is the system or a feature.               *)
WarmRestart(mod, v) ==
  /\ mod = "system" \/ Has(db, "FEATURE", <<"", mod>>)
  /\ Mod("WARM_RESTART_ENABLE_TABLE", mod, "enable", v)
warm_restart_enable(mod) == WarmRestart(mod, "true")
warm_restart_disable(mod) == WarmRestart(mod, "false")
warm_restart_neighsyncd_timer(n) == n \in 1..9998 /\ Mod("WARM_RESTART", "swss", "neighsyncd_timer", n)
warm_restart_bgp_timer(n) == n \in 1..3599 /\ Mod("WARM_RESTART", "bgp", "bgp_timer", n)
warm_restart_teamsyncd_timer(n) == n \in 1..3599 /\ Mod("WARM_RESTART", "teamd", "teamsyncd_timer", n)
warm_restart_bgp_eoiu(x) == Mod("WARM_RESTART", "bgp", "bgp_eoiu", x)

---------------------------------------------------------------------------
(* config sflow.  A missing table is created switched off.                 *)
SflowGlobal == IF Has(db, "SFLOW", "global") THEN db["SFLOW"]["global"] ELSE [admin_state |-> "down"]
SetSflow(f, v) == db' = SetEntry(db, "SFLOW", "global", (f :> v) @@ SflowGlobal)
sflow_enable == SetSflow("admin_state", "up")
sflow_disable == SetSflow("admin_state", "down")
polling_int(n) == n \in {0} \cup 5..300 /\ SetSflow("polling_interval", n)
GoodDirection(x) == x \in {"tx", "both"} => EgressSampling
global_sample_direction(x) == GoodDirection(x) /\ SetSflow("sample_direction", x)
drop_monitor_limit(n) == DropMirroring /\ n \in 0..500 /\ SetSflow("drop_monitor_limit", n)
SflowIntf(i) == i \in SflowIntfs \cup {"all"}
sflow_interface_enable(i) == SflowIntf(i) /\ Mod("SFLOW_SESSION", i, "admin_state", "up")
sflow_interface_disable(i) == SflowIntf(i) /\ Mod("SFLOW_SESSION", i, "admin_state", "down")
is_valid_sample_rate(rate) == rate \in 256..8388608
sample_rate(i, rate) ==
  SflowIntf(i) /\ is_valid_sample_rate(rate) /\ Mod("SFLOW_SESSION", i, "sample_rate", rate)
default_sample_rate(i) ==
  /\ SflowIntf(i) /\ Has(db, "SFLOW_SESSION", i) /\ "sample_rate" \in DOMAIN db["SFLOW_SESSION"][i]
  /\ db' = WithoutField(db, "SFLOW_SESSION", i, "sample_rate")
interface_sample_direction(i, x) ==
  SflowIntf(i) /\ GoodDirection(x) /\ Mod("SFLOW_SESSION", i, "sample_direction", x)
is_valid_collector_info(vrf) == vrf \in {"default", "mgmt"}
add_collector(name, ip, vrf) ==
  /\ is_valid_collector_info(vrf)
  /\ name \in Keys(db, "SFLOW_COLLECTOR") \/ Cardinality(Keys(db, "SFLOW_COLLECTOR")) # MaxCollectors
  /\ db' = ModEntry(db, "SFLOW_COLLECTOR", name, [collector_ip |-> ip, collector_vrf |-> vrf])
del_collector(name) == Has(db, "SFLOW_COLLECTOR", name) /\ db' = DelEntry(db, "SFLOW_COLLECTOR", name)
add_agent_id(i) == "agent_id" \notin DOMAIN SflowGlobal /\ SetSflow("agent_id", i)
del_agent_id ==
  "agent_id" \in DOMAIN SflowGlobal /\ db' = WithoutField(db, "SFLOW", "global", "agent_id")

---------------------------------------------------------------------------
(* config bgp, bmp.  A session is named by its address or by a host name,  *)
(* which may stand for several.                                            *)
_change_bgp_session_status_by_addr(d, N, status) ==
  [d EXCEPT !["BGP_NEIGHBOR"] = [n \in DOMAIN @ |-> IF n \in N THEN ("admin_status" :> status) @@ @[n] ELSE @[n]]]
_get_all_neighbor_ipaddresses(d) == Keys(d, "BGP_NEIGHBOR")
_get_neighbor_ipaddress_list_by_hostname(d, h) == {n \in Keys(d, "BGP_NEIGHBOR") : HostnameOf[n] = h}
_validate_bgp_neighbor(d, x) ==
  IF Has(d, "BGP_NEIGHBOR", x) THEN {x} ELSE _get_neighbor_ipaddress_list_by_hostname(d, x)
bgp_all(status) == db' = _change_bgp_session_status_by_addr(db, _get_all_neighbor_ipaddresses(db), status)
_change_bgp_session_status(x, status) ==
  LET N == _validate_bgp_neighbor(db, x)
  IN  N # {} /\ db' = _change_bgp_session_status_by_addr(db, N, status)
_remove_bgp_neighbor_config(x) ==
  LET N == _validate_bgp_neighbor(db, x) IN N # {} /\ db' = DelEntries(db, "BGP_NEIGHBOR", N)
update_bmp_table(table, v) == Mod("BMP", "table", table, v)
tsa_handler(state) == Mod("BGP_DEVICE_GLOBAL", "STATE", "tsa_enabled", state)
wcmp_handler(state) == Mod("BGP_DEVICE_GLOBAL", "STATE", "wcmp_enabled", state)
AGGREGATE_ADDRESS_ADD(a, e) ==
  ~Has(db, "BGP_AGGREGATE_ADDRESS", a) /\ db' = SetEntry(db, "BGP_AGGREGATE_ADDRESS", a, e)
AGGREGATE_ADDRESS_REMOVE(a) ==
  Has(db, "BGP_AGGREGATE_ADDRESS", a) /\ db' = DelEntry(db, "BGP_AGGREGATE_ADDRESS", a)

---------------------------------------------------------------------------
(* config kdump, kubernetes                                                *)
check_kdump_table_existence == Has(db, "KDUMP", "config")
SetKdump(f, v) == check_kdump_table_existence /\ Mod("KDUMP", "config", f, v)
kdump_enable == SetKdump("enabled", "true")
kdump_disable == SetKdump("enabled", "false")
kdump_memory(m) == SetKdump("memory", m)
kdump_num_dumps(n) == SetKdump("num_dumps", n)
RemoteOn == Field(db, "KDUMP", "config", "remote", "false") = "true"
remote(action) == RemoteOn # (action = "enable") /\ SetKdump("remote", IF action = "enable" THEN "true" ELSE "false")
add_ssh_key(s) == RemoteOn /\ SetKdump("ssh_string", s)
add_ssh_path(s) == RemoteOn /\ SetKdump("ssh_path", s)
\* The field is overwritten with the text None, not removed.
RemoveKdump(f) ==
  check_kdump_table_existence /\ f \in DOMAIN db["KDUMP"]["config"] /\ SetKdump(f, "None")
remove_ssh_string == RemoveKdump("ssh_string")
remove_ssh_path == RemoveKdump("ssh_path")

\* The first write fills in the other fields.
_update_kube_server(f, v) ==
  db' = SetEntry(db, "KUBERNETES_MASTER", "SERVER",
          (f :> v) @@ (IF Has(db, "KUBERNETES_MASTER", "SERVER") THEN db["KUBERNETES_MASTER"]["SERVER"] ELSE NoEntries)
                   @@ [ip |-> "", port |-> "6443", insecure |-> "True", disable |-> "False"])
kube_ip(v) == _update_kube_server("ip", v)
kube_port(v) == v # "0" /\ _update_kube_server("port", v)
kube_insecure(v) == _update_kube_server("insecure", v)
kube_disable(v) == _update_kube_server("disable", v)
\* A label is dropped by the value false.
_label_node(name, v) == Mod("KUBE_LABELS", "SET", name, IF v = "" THEN "false" ELSE v)

---------------------------------------------------------------------------
(* config fabric.  A forced unisolation counts up.                         *)
FabricConfigured(p) == p \in RemotePorts /\ Has(db, "FABRIC_PORT", p)
isolate(p) == FabricConfigured(p) /\ Mod("FABRIC_PORT", p, "isolateStatus", TRUE)
Unisolated(d, p, force) ==
  ModEntry(d, "FABRIC_PORT", p,
           [isolateStatus |-> FALSE,
            forceUnisolateStatus |-> d["FABRIC_PORT"][p].forceUnisolateStatus + (IF force THEN 1 ELSE 0)])
ForceRoom(P) == \A p \in P \cap Keys(db, "FABRIC_PORT") :
                  db["FABRIC_PORT"][p].forceUnisolateStatus < MaxForce
unisolate(p, force) ==
  FabricConfigured(p) /\ (force => ForceRoom({p})) /\ db' = Unisolated(db, p, force)
\* All ports with a neighbour, in the order of the state table; the first
\* without a configuration ends the command, the ones before it stay done.
unisolate_all(ports, force) ==
  LET bad == {n \in 1..Len(ports) : ~Has(db, "FABRIC_PORT", ports[n])}
      done == {ports[n] : n \in {m \in 1..Len(ports) : \A b \in bad : m < b}}
  IN  /\ force => ForceRoom(RemotePorts)
      /\ db' = [db EXCEPT !["FABRIC_PORT"] =
                  [p \in DOMAIN @ |-> IF p \in done THEN Unisolated(db, p, force)["FABRIC_PORT"][p] ELSE @[p]]]
SetMonitor(e) ==
  Has(db, "FABRIC_MONITOR", "FABRIC_MONITOR_DATA") /\ db' = ModEntry(db, "FABRIC_MONITOR", "FABRIC_MONITOR_DATA", e)
error_threshold(crc, rx) ==
  /\ crc \in 1..1000 /\ rx \in 10000..100000000
  /\ SetMonitor([monErrThreshCrcCells |-> crc, monErrThreshRxCells |-> rx])
setFabricPortMonitorState(state) == SetMonitor([monState |-> state])
isolation(n) == n \in 1..10 /\ SetMonitor([monPollThreshIsolation |-> n])
recovery(n) == n \in 1..10 /\ SetMonitor([monPollThreshRecovery |-> n])
capacity_threshold(n) == n \in 5..250 /\ SetMonitor([monCapacityThreshWarn |-> n])

---------------------------------------------------------------------------
(* config chassis modules.  A fabric card's services are stopped before    *)
(* the card is marked down; stopped says whether all of them did stop.     *)
\* What kind of platform this is: device_info of sonic_py_common.
IsSmartSwitch == Has(db, "PLATFORM", "smartswitch")
IsBmc == Has(db, "PLATFORM", "bmc")
get_config_module_state(d, m) ==
  Field(d, "CHASSIS_MODULE", m, "admin_status",
        IF IsSmartSwitch \/ (IsBmc /\ m \in SwitchHosts) THEN "down" ELSE "up")
AsicsIn(d, m) == {a \in AsicsOf[m] : Has(d, "CHASSIS_FABRIC_ASIC_TABLE", a)}
Services(d, A, running) == SetAll(d, "SERVICES", A, [running |-> running])
fabric_module_stop_asics(d, m) == Services(d, AsicsIn(d, m), FALSE)
fabric_module_set_admin_status(d, m, state) ==
  IF state = "down" THEN Services(DelEntries(d, "CHASSIS_FABRIC_ASIC_TABLE", AsicsIn(d, m)), AsicsIn(d, m), TRUE)
  ELSE Services(d, AsicsIn(d, m), TRUE)
InTransition(m) == IsSmartSwitch /\ Field(db, "MODULE_TRANSITION", m, "busy", FALSE)
KnownModule(m) == m \notin SwitchHosts \/ IsBmc
MarkModule(d, m, state) ==
  IF IsSmartSwitch THEN SetEntry(d, "CHASSIS_MODULE", m, [admin_status |-> state])
  ELSE IF IsBmc /\ m \in SwitchHosts THEN ModEntry(d, "CHASSIS_MODULE", m, [admin_status |-> state])
  ELSE IF state = "down" THEN SetEntry(d, "CHASSIS_MODULE", m, [admin_status |-> "down"])
  ELSE DelEntry(d, "CHASSIS_MODULE", m)
shutdown_chassis_module(m, stopped) ==
  /\ KnownModule(m) /\ get_config_module_state(db, m) # "down"
  /\ IF m \in FabricCards
     THEN LET s == fabric_module_stop_asics(db, m)
          IN  db' = IF ~stopped \/ InTransition(m) THEN s
                    ELSE fabric_module_set_admin_status(MarkModule(s, m, "down"), m, "down")
     ELSE ~InTransition(m) /\ db' = MarkModule(db, m, "down")
startup_chassis_module(m) ==
  /\ KnownModule(m) /\ get_config_module_state(db, m) # "up" /\ ~InTransition(m)
  /\ LET u == MarkModule(db, m, "up")
     IN  db' = IF m \in FabricCards THEN fabric_module_set_admin_status(u, m, "up") ELSE u
SetHostModule(m, f, v) ==
  /\ IsBmc /\ m \in SwitchHosts
  /\ db' = SetEntry(db, "CHASSIS_MODULE", m,
             (f :> v) @@ (IF Has(db, "CHASSIS_MODULE", m) THEN db["CHASSIS_MODULE"][m] ELSE NoEntries)
                      @@ [admin_status |-> "down"])
set_power_on_delay(m, n) == SetHostModule(m, "power_on_delay", n)
set_graceful_shutdown_timeout(m, n) == SetHostModule(m, "graceful_shutdown_timeout", n)
\* External: chassisd starts and ends the transition of a module, and lists
\* the ASICs of a fabric card that came up.
ModuleTransition(m, busy) == IsSmartSwitch /\ Mod("MODULE_TRANSITION", m, "busy", busy)
AsicsUp(m) ==
  /\ m \in FabricCards /\ get_config_module_state(db, m) = "up"
  /\ db' = Services(SetAll(db, "CHASSIS_FABRIC_ASIC_TABLE", AsicsOf[m], NoEntries), AsicsOf[m], TRUE)

---------------------------------------------------------------------------
(* llr, liquid-cool, ASIC health events, rates, time zone, naming mode     *)
LlrMode(p) == Field(db, "LLR_PORT", p, "llr_mode", "static")
llr_interface_mode(p, x) == p \in LlrPorts /\ Has(db, "PORT", p) /\ Mod("LLR_PORT", p, "llr_mode", x)
_validate_llr_static_mode(p) == p \in LlrPorts /\ Has(db, "PORT", p) /\ LlrMode(p) = "static"
llr_interface_local(p, x) == _validate_llr_static_mode(p) /\ Mod("LLR_PORT", p, "llr_local", x)
llr_interface_remote(p, x) == _validate_llr_static_mode(p) /\ Mod("LLR_PORT", p, "llr_remote", x)

LeakField(f, v) == Mod("LEAK_CONTROL_POLICY", "policy", f, v)
leak_control(policy, state) == LeakField(<<policy, "policy">>, state)
leak_action(policy, severity, action) == LeakField(<<policy, severity>>, action)
MinSensors == <<"system", "major_leak_num_min_sensors">>
\* An entry that loses its last field goes.
Pop(d, t, k, f) ==
  IF DOMAIN d[t][k] \subseteq {f} THEN DelEntry(d, t, k) ELSE WithoutField(d, t, k, f)
major_leak_threshold(n) == n \in 2..MaxSensors /\ LeakField(MinSensors, n)
default_leak_threshold ==
  /\ Has(db, "LEAK_CONTROL_POLICY", "policy") /\ MinSensors \in DOMAIN db["LEAK_CONTROL_POLICY"]["policy"]
  /\ db' = Pop(db, "LEAK_CONTROL_POLICY", "policy", MinSensors)

\* Categories {} and a limit of 0 take what was set away; None is not given.
NotGiven == -1
Suppress(d, severity, f, v, empty) ==
  LET t == "SUPPRESS_ASIC_SDK_HEALTH_EVENT"
  IN  IF ~empty THEN ModEntry(d, t, severity, f :> v)
      ELSE IF Has(d, t, severity) /\ f \in DOMAIN d[t][severity] THEN Pop(d, t, severity, f) ELSE d
handle_asic_sdk_health_suppress(severity, given, categories, max_events) ==
  /\ severity \in HealthSeverities
  /\ given \/ max_events # NotGiven
  /\ LET a == IF given THEN Suppress(db, severity, "categories", categories, categories = {}) ELSE db
     IN  db' = IF max_events = NotGiven THEN a
               ELSE Suppress(a, severity, "max_events", max_events, max_events = 0)

smoothing_interval(n, types) ==
  db' = [db EXCEPT !["RATES"] = [t \in types |-> [smooth_interval |-> n, alpha |-> <<2, n + 1>>]] @@ @]
timezone(tz) == Mod("DEVICE_METADATA", "localhost", "timezone", tz)
set_interface_naming_mode(user, mode) ==
  /\ Keys(db, "PORT") # {} /\ \A p \in Keys(db, "PORT") : "alias" \in DOMAIN db["PORT"][p]
  /\ user # "root"
  /\ Mod("BASHRC", user, "SONIC_CLI_IFACE_MODE", mode)

---------------------------------------------------------------------------
(* Plugins of the platforms: the recordings and the sniffer of the SDK in  *)
(* the container syncd, and the P4 profile.  works is what the command in  *)
(* the container returns.                                                  *)
Recording(kind) == Field(db, "SYNCD_RECORD", kind, "enabled", FALSE)
Dumps(d, kind) == Field(d, "SYNCD_DUMPS", kind, "count", 0)
\* One file is deleted more than there are too many: room for the next.
rotate_dump_files(n, max_count) == IF n >= max_count THEN max_count - 1 ELSE n
RecordOn(kind, works) ==
  /\ ~Recording(kind)
  /\ LET d == ModEntry(db, "SYNCD_DUMPS", kind, [count |-> rotate_dump_files(Dumps(db, kind), MaxRecords) + 1])
     IN  db' = IF works THEN ModEntry(d, "SYNCD_RECORD", kind, [enabled |-> TRUE]) ELSE d
RecordOff(kind) == Recording(kind) /\ Mod("SYNCD_RECORD", kind, "enabled", FALSE)
packet_drop(state, works) == IF state = "enabled" THEN RecordOn("packet-drop", works) ELSE RecordOff("packet-drop")
config_record(state, works) == IF state = "enabled" THEN RecordOn("config-record", works) ELSE RecordOff("config-record")
techsupport_ct_dump(state) ==
  Recording("ct-dump") # (state = "enabled") /\ Mod("SYNCD_RECORD", "ct-dump", "enabled", state = "enabled")
sniffer_env_variable_set(enable) ==
  Field(db, "SYNCD_ENV", "SX_SNIFFER", "set", FALSE) # enable /\ Mod("SYNCD_ENV", "SX_SNIFFER", "set", enable)
p4_profile(p, installed) == installed /\ Mod("DEVICE_METADATA", "localhost", "p4_profile", p)

---------------------------------------------------------------------------
\* The recordings kept of the SDK stay within the number its profile asks
\* for, also when the switch refuses to record after the file was made.
DumpsWithinLimit == \A k \in Keys(db, "SYNCD_DUMPS") : Dumps(db, k) <= MaxRecords
===========================================================================
