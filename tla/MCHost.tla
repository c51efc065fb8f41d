------------------------------- MODULE MCHost -------------------------------
(* The commands of the host: buffers and watchdog, counters, plugins,      *)
(* access and services, and the programs with state of their own: cables,  *)
(* breakout, reload, the updater on several databases, the console and the *)
(* automatic technical support.                                           *)
(* A behaviour stays in one area.  In the area "settings" the commands     *)
(* that only check and write are taken in sequences of MaxSettings.        *)
EXTENDS QosConfig, CounterConfig, PluginConfig, AccessConfig, ServiceConfig, MuxCable,
        PortBreakout, ConfigReload, ScopedUpdater, ConsoleUtil, TechSupport

CONSTANTS Areas, MaxSettings

VARIABLES area, steps
ownVars == <<muxVars, breakoutVars, reloadVars, scopedVars, consoleVars, techVars>>
vars == <<db, area, steps, ownVars>>

Tables == QosTables \cup CounterTables \cup PluginTables \cup AccessTables \cup ServiceTables \cup MuxTables
In(a) == area = a /\ UNCHANGED <<area, steps, ownVars>>
Set == area = "settings" /\ steps < MaxSettings /\ steps' = steps + 1 /\ UNCHANGED <<area, ownVars>>

---------------------------------------------------------------------------
(* Constants                                                               *)
MCParent == NoEntries
OnPorts(P, v) == [p \in P |-> v]
QosTemplate ==
  "CABLE_LENGTH" :> ("AZURE" :> OnPorts(Ports, "5m"))
  @@ "PORT_QOS_MAP" :> OnPorts(Ports, [pfc_enable |-> {3, 4}])
  @@ "BUFFER_PG" :> [k \in Ports \X {<<3, 4>>} |-> [profile |-> "NULL"]]
  @@ "BUFFER_QUEUE" :> [k \in Ports \X {<<3, 4>>} |-> [profile |-> "eg"]]
MCQosTemplates == [m \in {"dynamic", "traditional"} |-> QosTemplate]
MCCbfTemplate == "DSCP_TO_FC_MAP" :> ("AZURE" :> NoEntries)
MCPatterns == {<<"default", "v4a">>, <<"Vrf1", "v4b">>, <<"Vrf1", "v6a">>}
MCFamily == [x \in {"v4a", "v4b", "v6a"} |-> IF x = "v6a" THEN "v6" ELSE "v4"]
MCRefs == {<<GROUP, "key", PROFILE>>, <<"FG_NHG_PREFIX", "FG_NHG", "FG_NHG">>}
MCLinux == [v \in {"default", "mgmt"} |-> IF v = "mgmt" THEN {"10.1"} ELSE {"10.0", "fc00"}]
MCSubstrings == {<<"16", "161">>, <<"lo", "lab-lo">>}
MCHostname == [n \in {"n1", "n2"} |-> "rack"]
MCAsics == "fabric0" :> {0, 1}
MCCables == <<"e0", "e1">>
MCChildren == [m \in {"1x", "2x", "1x40"} |-> IF m = "2x" THEN {"q0", "q1"} ELSE {"q0"}]
MCLanes == [m \in {"1x", "2x", "1x40"} |-> [q \in {"q0", "q1"} |->
              IF q = "q0" THEN IF m = "2x" THEN {0} ELSE {0, 1} ELSE IF m = "2x" THEN {1} ELSE {}]]
Cfg(t, s, h) == [tags |-> t, sysinfo |-> s, hwsku |-> h, mark |-> FALSE, latest |-> FALSE, ports |-> FALSE]
GoodFile(t, s, h) == [exists |-> TRUE, valid |-> TRUE, config |-> Cfg(t, s, h)]
MCNsOrder == <<"host", "asic0">>
MCNamedFiles ==
  [x |-> [host |-> GoodFile({"x"}, FALSE, TRUE), asic0 |-> GoodFile({"x"}, TRUE, TRUE)],
   s |-> [host |-> GoodFile({"s"}, TRUE, TRUE), asic0 |-> GoodFile({"s"}, FALSE, FALSE)]]
MCFirstFiles == [host |-> GoodFile({"old"}, TRUE, TRUE), asic0 |-> GoodFile({"old"}, TRUE, TRUE)]
MCGolden == [host |-> GoodFile({"gold"}, FALSE, FALSE), asic0 |-> GoodFile({"gold"}, TRUE, TRUE)]
MCFeatureOf == [c \in {"swss", "swss0", "pmon"} |-> IF c = "pmon" THEN "pmon" ELSE "swss"]
MCScopeOrder == <<"localhost", "asic0">>

---------------------------------------------------------------------------
(* The databases the areas start from                                      *)
None0 == [t \in Tables |-> NoEntries]
Filled(d, f) == [t \in DOMAIN d |-> IF t \in DOMAIN f THEN f[t] ELSE d[t]]
MetaOf(model) == "localhost" :> [buffer_model |-> model, default_pfcwd_status |-> "enable"]
QosDb ==
  Filled(None0,
    "PORT" :> OnPorts(Ports, [admin_status |-> "up", role |-> "Int", alias |-> "etp"])
    @@ "PORT_QOS_MAP" :> OnPorts(Ports, [pfc_enable |-> {3, 4}])
    @@ "DEVICE_METADATA" :> MetaOf("dynamic")
    @@ "DEVICE_NEIGHBOR" :> OnPorts({"p1"}, NoEntries)
    @@ "CABLE_LENGTH" :> ("AZURE" :> OnPorts(Ports, "5m"))
    @@ "DEFAULT_LOSSLESS_BUFFER_PARAMETER" :> ("AZURE" :> [default_dynamic_th |-> 1])
    @@ "BUFFER_POOL" :> [k \in {"ingress_lossless_pool", "egress"} |->
                           [type |-> IF k = "egress" THEN "egress" ELSE "ingress"]]
    @@ "BUFFER_PROFILE" :> ("eg" :> [pool |-> "egress", size |-> 1]))
Rate == [support_syslog_rate_limit |-> "true", state |-> "enabled", auto_restart |-> "enabled"]
SettingsDb ==
  Filled(QosDb,
    "FEATURE" :> [k \in {"", "asic0"} \X {"bgp"} |-> Rate]
    @@ "CONTAINERCFGD" :> ("bgp" :> [running |-> TRUE, conf |-> FALSE, known |-> FALSE, started |-> FALSE])
    @@ "VRF" :> ("Vrf1" :> NoEntries)
    @@ "MGMT_VRF_CONFIG" :> ("vrf_global" :> [mgmtVrfEnabled |-> "false"])
    @@ "BGP_NEIGHBOR" :> [n \in Neighbors |-> NoEntries]
    @@ "KDUMP" :> ("config" :> [enabled |-> "false", remote |-> "true", ssh_string |-> "u@h", ssh_path |-> "key"])
    @@ "FABRIC_PORT" :> ("f0" :> [isolateStatus |-> FALSE, forceUnisolateStatus |-> 0])
    @@ "FABRIC_MONITOR" :> ("FABRIC_MONITOR_DATA" :> [monState |-> "disable"])
    @@ "CHASSIS_FABRIC_ASIC_TABLE" :> [a \in {0, 1} |-> NoEntries]
    @@ "PLATFORM" :> ("bmc" :> NoEntries)
    @@ "SWITCH_CAPABILITY" :>
         ("switch" :> [ecmp_hash_capable |-> TRUE, lag_hash_capable |-> TRUE, hash_field_list |-> {"SRC_IP"},
                       ecmp_hash_algorithm_capable |-> TRUE, lag_hash_algorithm_capable |-> TRUE,
                       ecmp_hash_algorithm |-> {"CRC"}, lag_hash_algorithm |-> {"any"},
                       trimming_capable |-> TRUE, dscp_mode |-> {"DSCP_VALUE"}, queue_num |-> 8])
    @@ "MUX_CABLE" :> OnPorts({"e0", "e1"}, [state |-> "auto", server_ipv4 |-> "a", server_ipv6 |-> "b"])
    @@ "MUX_CABLE_TABLE" :> OnPorts({"e0", "e1"}, NoEntries)
    @@ "LINK_PROBE_STATS" :> OnPorts({"e0", "e1"}, NoEntries)
    @@ "XCVRD_LOG" :> ("Y_CABLE" :> [log_verbosity |-> "info"]))
StartDb(a) ==
  CASE a \in {"settings"} -> SettingsDb
    [] a \in {"qos", "buffer", "pfcwd"} -> QosDb
    [] a = "smart" -> Filled(None0, "PLATFORM" :> ("smartswitch" :> NoEntries)
                                    @@ "CHASSIS_FABRIC_ASIC_TABLE" :> [x \in {0, 1} |-> NoEntries])
    [] a = "terminal" ->
         Filled(None0, "CONSOLE_SWITCH" :> ("console_mgmt" :> [enabled |-> "yes"])
                       @@ "CONSOLE_PORT" :> ("1" :> [remote_device |-> "d1", baud_rate |-> "9600"]))
    [] a = "techsupport" ->
         Filled(None0, "AUTO_TECHSUPPORT" :> ("GLOBAL" :> [state |-> "enabled", rate_limit_interval |-> 2,
                                                           max_techsupport_limit |-> 50, max_core_limit |-> 50])
                       @@ "AUTO_TECHSUPPORT_FEATURE" :> ("swss" :> [state |-> "enabled", rate_limit_interval |-> 3,
                                                                    available_mem_threshold |-> 20]))
    [] a = "mux" -> Filled(None0, "MUX_CABLE" :> OnPorts({"e0", "e1"}, [state |-> "auto"]))
    [] OTHER -> None0

Init ==
  /\ area \in Areas /\ db = StartDb(area) /\ steps = 0
  /\ MuxInit /\ BreakoutInit /\ ReloadInit /\ ScopedInit /\ ConsoleInit /\ TechInit
  /\ area # "breakout" => brkout = "1x"
  /\ area # "reload" => ~warmboot

---------------------------------------------------------------------------
(* Buffers, priority flow control and its watchdog                         *)
QosNext ==
  \/ In("qos") /\ cbf_clear
  \/ \E dry \in BOOLEAN : In("qos") /\ cbf_reload(dry)
  \/ In("qos") /\ qos_clear
  \/ \E dry, nodyn \in BOOLEAN : In("qos") /\ qos_reload(dry, nodyn)
  \/ \E P \in {{"p1"}, {"p2", "none"}}, dry \in BOOLEAN : In("qos") /\ _qos_update_ports(P, dry)
Maps == {<<0, 1>>, <<3, 4>>, <<4, 5>>}
ProfileArgs == {<<0, 0, 0, 1>>, <<1, 2, 0, 0>>, <<1, 0, 3, 0>>}
BufferNext ==
  \/ \E x \in ProfileArgs, pool \in {"ingress_lossless_pool", "egress"} :
       In("buffer") /\ add_profile("prof", x[1], x[2], x[3], x[4], pool)
  \/ \E x \in ProfileArgs : In("buffer") /\ set_profile("prof", x[1], x[2], x[3], x[4], "ingress_lossless_pool")
  \/ In("buffer") /\ remove_profile("prof")
  \/ \E n \in 0..1 : In("buffer") /\ over_subscribe_ratio(n)
  \/ \E n \in {0, 9} : In("buffer") /\ shared_headroom_pool_size(n)
  \/ \E m \in Maps, prof \in {"", "prof"} : In("buffer") /\ add_pg("p1", m, prof)
  \/ \E m \in Maps, prof \in {"", "prof"} : In("buffer") /\ set_pg("p1", m, prof)
  \/ \E m \in Maps : In("buffer") /\ remove_pg("p1", m)
  \/ In("buffer") /\ remove_all_pgs("p1")
  \/ \E m \in Maps, prof \in {"eg", "prof"} : In("buffer") /\ add_queue("p1", m, prof)
  \/ \E m \in Maps, prof \in {"eg", "prof"} : In("buffer") /\ set_queue("p1", m, prof)
  \/ \E m \in Maps : In("buffer") /\ remove_queue("p1", m)
  \/ In("buffer") /\ remove_all_queues("p1")
  \/ Set /\ cable_length("p1", "40m")
  \/ Set /\ configPfcAsym("p1", "on")
WatchdogNext ==
  \/ \E s \in {"on", "off"} : In("pfcwd") /\ configPfcPrio(s, "p1", 3)
  \/ \E ps \in {<<"p1">>, <<"p1", "p2">>}, t \in PfcwdTimes, hist \in BOOLEAN :
       In("pfcwd") /\ pfcwd_start(ps, t, 0, hist)
  \/ In("pfcwd") /\ pfcwd_stop
  \/ \E t \in PfcwdTimes : In("pfcwd") /\ pfcwd_interval(t)
  \/ In("pfcwd") /\ start_default
  \/ Set /\ pfcwd_counter_poll("disable")
  \/ Set /\ big_red_switch("enable")
  \/ \E s \in {"enable", "disable"}, P \in {{"p1"}, {"p2"}} : In("pfcwd") /\ pfc_stat_history_cmd(s, P)

---------------------------------------------------------------------------
(* Counters and telemetry                                                  *)
Poll == {[field |-> "POLL_INTERVAL", value |-> 1000], [field |-> "FLEX_COUNTER_STATUS", value |-> "enable"]}
SlowPoll == [field |-> "POLL_INTERVAL", value |-> 30000]
CounterNext ==
  \/ \E c \in Poll : Set /\ counterpoll_queue(c)
  \/ \E c \in Poll : Set /\ counterpoll_port(c)
  \/ Set /\ counterpoll_port_buffer_drop(SlowPoll)
  \/ \E c \in Poll : Set /\ counterpoll_phy(c)
  \/ \E c \in Poll : Set /\ counterpoll_pg_drop(c)
  \/ \E c \in Poll : Set /\ counterpoll_rif(c)
  \/ \E c \in Poll : Set /\ counterpoll_watermark(c)
  \/ \E c \in Poll : Set /\ counterpoll_acl(c)
  \/ \E c \in Poll : Set /\ counterpoll_tunnel(c)
  \/ \E c \in Poll : Set /\ counterpoll_flowcnt_trap(c)
  \/ \E c \in Poll : Set /\ counterpoll_flowcnt_route(c)
  \/ \E c \in Poll : Set /\ counterpoll_eni(c)
  \/ \E c \in Poll : Set /\ counterpoll_ha_set(c)
  \/ \E c \in Poll : Set /\ counterpoll_wredqueue(c)
  \/ \E c \in Poll : Set /\ counterpoll_wredport(c)
  \/ \E c \in Poll : Set /\ counterpoll_srv6(c)
  \/ \E c \in Poll : Set /\ counterpoll_icmp(c)
  \/ \E c \in Poll : Set /\ counterpoll_switch(c)
  \/ \E c \in Poll : Set /\ counterpoll_llr(c)
  \/ Set /\ crm_interval(300)
  \/ \E r \in CrmResources, v \in CrmValues : Set /\ crm_threshold(r, "high", v)
  \/ \E r \in CrmResources, v \in CrmValues : Set /\ crm_dash_threshold(r, "low", v)
  \/ \E k \in RoutePatterns, n \in {30, 50}, yes \in BOOLEAN : In("pattern") /\ pattern_add(k, n, yes)
  \/ \E k \in RoutePatterns : In("pattern") /\ pattern_remove(k)
  \/ \E c \in DropCounters, R \in SUBSET DropReasons, given \in BOOLEAN :
       In("drop") /\ dropcounters_install(c, R, given)
  \/ \E c \in DropCounters : In("drop") /\ dropcounters_delete(c)
  \/ \E c \in DropCounters, R \in SUBSET DropReasons : In("drop") /\ dropcounters_add_reasons(c, R)
  \/ \E c \in DropCounters, R \in SUBSET DropReasons : In("drop") /\ dropcounters_remove_reasons(c, R)
  \/ In("drop") /\ enable_global_monitor
  \/ \E c \in DropCounters, given \in BOOLEAN : In("drop") /\ enable_monitor(c, given)
  \/ \E c \in DropCounters : In("drop") /\ disable_monitor(c)
  \/ In("drop") /\ disable_global_monitor
  \/ \E p \in HftProfiles, s \in {"enabled", "disabled"} : In("hft") /\ hft_stream_state(p, s)
  \/ \E p \in HftProfiles, s \in {"enabled", "disabled"} : In("hft") /\ hft_add_profile(p, s)
  \/ \E p \in HftProfiles, g \in HftGroups : In("hft") /\ hft_add_group(p, g, {"IN"})
  \/ \E p \in HftProfiles : In("hft") /\ hft_delete_profile(p)
  \/ \E p \in HftProfiles, g \in HftGroups : In("hft") /\ hft_delete_group(p, g)
  \/ \E p \in HftProfiles, g \in HftGroups : In("hft") /\ hft_orchagent(<<p, g>>)
  \/ Set /\ update_memory_statistics_status(TRUE)
  \/ Set /\ memory_stats_sampling_interval(5)
  \/ Set /\ memory_stats_retention_period(15)

(* Plugins                                                                 *)
Hash == {<<"SRC_IP">>, <<"SRC_IP", "SRC_IP">>, <<"DST_IP">>}
PluginNext ==
  \/ Set /\ FG_NHG_add("g", [bucket_size |-> 30])
  \/ Set /\ FG_NHG_update("g", [bucket_size |-> 60])
  \/ Set /\ FG_NHG_delete("g")
  \/ Set /\ FG_NHG_PREFIX_add("10/8", [FG_NHG |-> {"g"}])
  \/ Set /\ FG_NHG_PREFIX_add("11/8", NoEntries)
  \/ Set /\ FG_NHG_PREFIX_update("11/8", NoEntries)
  \/ Set /\ FG_NHG_PREFIX_delete("11/8")
  \/ Set /\ FG_NHG_MEMBER_add("10.0", [bank |-> 0])
  \/ Set /\ FG_NHG_MEMBER_update("10.0", [bank |-> 1])
  \/ Set /\ FG_NHG_MEMBER_delete("10.0")
  \/ Set /\ LDAP_SERVER_add("10.0", NoEntries)
  \/ Set /\ LDAP_SERVER_update("10.0", [priority |-> 1])
  \/ Set /\ LDAP_SERVER_delete("10.0")
  \/ Set /\ LDAP_global("port", "389")
  \/ Set /\ PASSW_HARDENING_POLICIES("state", "enabled")
  \/ Set /\ AUTO_TECHSUPPORT_GLOBAL("state", "enabled")
  \/ Set /\ AUTO_TECHSUPPORT_FEATURE_add("bgp", NoEntries)
  \/ Set /\ AUTO_TECHSUPPORT_FEATURE_update("bgp", [state |-> "enabled"])
  \/ Set /\ AUTO_TECHSUPPORT_FEATURE_delete("bgp")
  \/ \E h \in Hash : Set /\ SWITCH_HASH_GLOBAL_ecmp_hash(h)
  \/ \E h \in Hash : Set /\ SWITCH_HASH_GLOBAL_lag_hash(h)
  \/ \E x \in {"CRC", "XOR"} : Set /\ SWITCH_HASH_GLOBAL_ecmp_hash_algorithm(x)
  \/ \E x \in {"CRC", "XOR"} : Set /\ SWITCH_HASH_GLOBAL_lag_hash_algorithm(x)
  \/ \E n \in {Dynamic, 8, 64} : Set /\ SWITCH_TRIMMING_GLOBAL([dscp_value |-> n, tc_value |-> 3, queue_index |-> 7])

---------------------------------------------------------------------------
(* Access: authentication, logs, SNMP, time, names, terminals              *)
Switches == {"enable", "default"}
Values == {"1", "default"}
SyslogOption == {[source |-> x, vrf |-> v] : x \in {"", "10.0"}, v \in {"", "Vrf1", "default"}}
SnmpUser == [type |-> "Priv", permission |-> "RO", auth |-> "SHA", auth_password |-> "secret",
             encrypt |-> "AES", encrypt_password |-> "secret"]
AccessNext ==
  \/ \E x \in Switches : Set /\ failthrough(x)
  \/ \E x \in Switches : Set /\ fallback(x)
  \/ \E x \in Switches : Set /\ debug(x)
  \/ \E x \in Switches : Set /\ trace(x)
  \/ \E x \in {<<"tacacs+", "local">>, <<"tacacs+", "radius">>, <<"default">>} : Set /\ login(x)
  \/ Set /\ authorization(<<"tacacs+">>)
  \/ \E x \in {<<"tacacs+">>, <<"disable">>} : Set /\ accounting(x)
  \/ \E v \in Values : Set /\ tacacs_timeout(v)
  \/ \E v \in Values : Set /\ tacacs_authtype(v)
  \/ \E v \in Values : Set /\ tacacs_passkey(v)
  \/ \E v \in Values : Set /\ traceid_authorization(v)
  \/ Set /\ add_tacacs_server("10.0", [tcp_port |-> 49])
  \/ Set /\ del_tacacs_server("10.0")
  \/ \E v \in Values : Set /\ radius_timeout(v)
  \/ \E v \in Values : Set /\ retransmit(v)
  \/ \E v \in Values : Set /\ radius_authtype(v)
  \/ \E v \in Values : Set /\ radius_passkey(v)
  \/ \E v \in Values : Set /\ sourceip(v)
  \/ \E v \in Values : Set /\ nasip(v)
  \/ \E v \in Values : Set /\ radius_statistics(v)
  \/ \E x \in Servers : Set /\ add_radius_server(x, [passkey |-> "secret"])
  \/ Set /\ del_radius_server("10.0")
  \/ \E o \in SyslogOption : Set /\ add_syslog_server("10.9", o)
  \/ Set /\ del_syslog_server("10.9")
  \/ \E n \in {0, 100} : Set /\ rate_limit_host(n, None)
  \/ Set /\ rate_limit_container("bgp", 100, 10)
  \/ \E n \in 0..4 : Set /\ enable_rate_limit_feature("bgp", [c \in Containers |-> n])
  \/ \E n \in 0..4 : Set /\ disable_rate_limit_feature("", [c \in Containers |-> n])
  \/ Set /\ level("orchagent", "INFO", TRUE, TRUE, FALSE)
  \/ \E x \in {"", "16", "161"} : Set /\ add_snmp_agent_address("10.0", x, "")
  \/ Set /\ del_snmp_agent_address("10.0", "161", "")
  \/ Set /\ modify_snmptrap_server(2, [DestIp |-> "10.0"])
  \/ Set /\ delete_snmptrap_server(2)
  \/ Set /\ add_community("c1", "RO")
  \/ Set /\ del_community("c1")
  \/ Set /\ replace_community("c1", "c2")
  \/ Set /\ add_contact("lab-lo", "mail")
  \/ Set /\ del_contact("lo")
  \/ Set /\ modify_contact("lo", "mail")
  \/ Set /\ add_location("lab-lo")
  \/ Set /\ delete_location("lab-lo")
  \/ \E x \in {"lo", "roof"} : Set /\ modify_location(x)
  \/ Set /\ add_user("u1", SnmpUser)
  \/ Set /\ del_user("u1")
  \/ Set /\ add_ntp_server("10.0", "server", NoEntries)
  \/ Set /\ del_ntp_server("10.0")
  \/ Set /\ add_dns_nameserver("10.0")
  \/ Set /\ del_dns_nameserver("10.0")
  \/ Set /\ inactivity_timeout_ssh(15)
  \/ Set /\ max_sessions(3)
  \/ Set /\ sysrq_capabilities("enabled")
  \/ Set /\ inactivity_timeout_serial(15)
  \/ Set /\ banner_state("enabled")
  \/ Set /\ banner_message("motd", "hello")
ConsoleNext ==
  \/ In("console") /\ enable_console_switch
  \/ Set /\ disable_console_switch
  \/ Set /\ update_console_heartbeat("yes")
  \/ \E x \in {"b", "clear"} : Set /\ set_console_default_escape_char(x)
  \/ \E l \in Lines, x \in Devices \cup {""} : In("console") /\ add_console_setting(l, "9600", "0", x, "")
  \/ \E l \in Lines : In("console") /\ remove_console_setting(l)
  \/ \E l \in Lines, x \in Devices \cup {""} : In("console") /\ update_console_remote_device_name(l, x)
  \/ In("console") /\ update_console_baud("1", "115200")
  \/ In("console") /\ update_console_flow_control("1", "1")
  \/ \E x \in {"b", "clear"} : In("console") /\ update_console_escape_char("1", x)
  \/ \E l \in Lines : In("console") /\ enable_console_logging(l)
  \/ \E l \in Lines : In("console") /\ disable_console_logging(l)
  \/ \E file \in {"log", "bad"} : In("console") /\ set_console_logging_filename("1", file, "daily")

---------------------------------------------------------------------------
(* Services                                                                *)
Namespaced == {{}, {""}, {"", "asic0"}}
States == {"enabled", "disabled"}
ServiceNext ==
  \/ \E x \in States, w \in Namespaced : Set /\ set_feature_state("bgp", x, w)
  \/ \E x \in States, w \in Namespaced : Set /\ feature_autorestart("bgp", x, w)
  \/ Set /\ feature_owner("bgp", "kube")
  \/ Set /\ feature_fallback("bgp", "on")
  \/ Set /\ warm_restart_enable("system")
  \/ Set /\ warm_restart_disable("bgp")
  \/ Set /\ warm_restart_neighsyncd_timer(110)
  \/ Set /\ warm_restart_bgp_timer(1000)
  \/ Set /\ warm_restart_teamsyncd_timer(300)
  \/ Set /\ warm_restart_bgp_eoiu(TRUE)
  \/ Set /\ sflow_enable
  \/ Set /\ sflow_disable
  \/ Set /\ polling_int(20)
  \/ \E x \in {"rx", "both"} : Set /\ global_sample_direction(x)
  \/ Set /\ drop_monitor_limit(100)
  \/ Set /\ sflow_interface_enable("all")
  \/ Set /\ sflow_interface_disable("p1")
  \/ \E n \in {255, 256} : Set /\ sample_rate("p1", n)
  \/ Set /\ default_sample_rate("p1")
  \/ Set /\ interface_sample_direction("p1", "tx")
  \/ \E n \in SflowNames : Set /\ add_collector(n, "10.0", "default")
  \/ Set /\ del_collector("c1")
  \/ Set /\ add_agent_id("lo")
  \/ Set /\ del_agent_id
  \/ Set /\ bgp_all("down")
  \/ \E x \in {"n1", "rack", "none"} : Set /\ _change_bgp_session_status(x, "down")
  \/ \E x \in {"n1", "rack", "none"} : Set /\ _remove_bgp_neighbor_config(x)
  \/ Set /\ update_bmp_table("bgp-neighbor-table", "true")
  \/ Set /\ tsa_handler("true")
  \/ Set /\ wcmp_handler("true")
  \/ Set /\ AGGREGATE_ADDRESS_ADD("10/8", NoEntries)
  \/ Set /\ AGGREGATE_ADDRESS_REMOVE("10/8")
  \/ Set /\ kdump_enable
  \/ Set /\ kdump_disable
  \/ Set /\ kdump_memory("256M")
  \/ Set /\ kdump_num_dumps(3)
  \/ \E x \in {"enable", "disable"} : Set /\ remote(x)
  \/ Set /\ add_ssh_key("user@host")
  \/ Set /\ add_ssh_path("/root/.ssh/key")
  \/ Set /\ remove_ssh_string
  \/ Set /\ remove_ssh_path
  \/ Set /\ kube_ip("10.0")
  \/ Set /\ kube_port("6444")
  \/ Set /\ kube_insecure("False")
  \/ Set /\ kube_disable("True")
  \/ Set /\ _label_node("rack", "")
  \/ \E p \in FabricPorts : Set /\ isolate(p)
  \/ \E force \in BOOLEAN : Set /\ unisolate("f0", force)
  \/ \E ps \in {<<"f0">>, <<"f0", "f1">>, <<"f1", "f0">>}, force \in BOOLEAN : Set /\ unisolate_all(ps, force)
  \/ Set /\ error_threshold(1, 10000)
  \/ Set /\ setFabricPortMonitorState("enable")
  \/ Set /\ isolation(2)
  \/ Set /\ recovery(2)
  \/ Set /\ capacity_threshold(100)
PlatformNext ==
  \/ \E m \in Modules, stopped \in BOOLEAN : Set /\ shutdown_chassis_module(m, stopped)
  \/ \E m \in Modules : Set /\ startup_chassis_module(m)
  \/ Set /\ set_power_on_delay("host0", 5)
  \/ Set /\ set_graceful_shutdown_timeout("host0", 5)
  \/ Set /\ AsicsUp("fabric0")
  \/ \E m \in Modules, stopped \in BOOLEAN : In("smart") /\ shutdown_chassis_module(m, stopped)
  \/ \E m \in Modules : In("smart") /\ startup_chassis_module(m)
  \/ \E m \in Modules, busy \in BOOLEAN : In("smart") /\ ModuleTransition(m, busy)
  \/ Set /\ llr_interface_mode("p1", "static")
  \/ Set /\ llr_interface_local("p1", "enable")
  \/ Set /\ llr_interface_remote("p1", "enable")
  \/ Set /\ leak_control("system", "enabled")
  \/ Set /\ leak_action("system", "major", "power_off")
  \/ \E n \in {1, 2} : Set /\ major_leak_threshold(n)
  \/ Set /\ default_leak_threshold
  \/ \E given \in BOOLEAN, C \in {{}, {"fw"}}, n \in {NotGiven, 0, 9} :
       Set /\ handle_asic_sdk_health_suppress("fatal", given, C, n)
  \/ Set /\ smoothing_interval(10, {"PORT", "RIF"})
  \/ Set /\ timezone("UTC")
  \/ \E u \in {"root", "admin"} : Set /\ set_interface_naming_mode(u, "alias")
  \/ \E x \in States, ok \in BOOLEAN : In("sdk") /\ packet_drop(x, ok)
  \/ \E x \in States, ok \in BOOLEAN : In("sdk") /\ config_record(x, ok)
  \/ \E x \in States : Set /\ techsupport_ct_dump(x)
  \/ \E x \in BOOLEAN : Set /\ sniffer_env_variable_set(x)
  \/ Set /\ p4_profile("y1", TRUE)

---------------------------------------------------------------------------
(* Dual-homed cables                                                       *)
InMux == area = "mux" /\ UNCHANGED <<db, area, steps, breakoutVars, reloadVars, scopedVars, consoleVars, techVars>>
TwoCables == {<<"e0">>, AllCables}
MuxNext ==
  \/ \E s \in Operators : InMux /\ prbs_enable(s, "e0")
  \/ \E s \in Operators : InMux /\ prbs_disable(s, "e1")
  \/ \E s \in Operators : InMux /\ reset(s, "e0")
  \/ \E s \in Operators : InMux /\ set_anlt(s, "e0")
  \/ \E s \in Operators : InMux /\ set_fec(s, "none")
  \/ \E s \in Operators : InMux /\ loopback_enable(s, "e0")
  \/ \E s \in Operators : InMux /\ loopback_disable(s, "e0")
  \/ \E s \in Operators, ps \in TwoCables : InMux /\ hwmode_state(s, ps)
  \/ \E s \in Operators : InMux /\ setswitchmode(s, AllCables)
  \/ \E s \in Operators : InMux /\ activate(s, <<"e0">>)
  \/ \E s \in Operators : InMux /\ rollback(s, <<"e0">>)
  \/ \E s \in Operators : InMux /\ download(s, "e0")
  \/ \E s \in Operators : InMux /\ download_all(s)
  \/ \E s \in Operators : InMux /\ berinfo(s, "e0")
  \/ \E s \in Operators : InMux /\ eyeinfo(s, "e0")
  \/ \E s \in Operators : InMux /\ fecstatistics(s, "e0")
  \/ \E s \in Operators : InMux /\ pcsstatistics(s, "e0")
  \/ \E s \in Operators : InMux /\ debugdumpregisters(s, "e0")
  \/ \E s \in Operators : InMux /\ alivecablestatus(s, "e0")
  \/ \E s \in Operators : InMux /\ queueinfo(s, "e0")
  \/ \E s \in Operators : InMux /\ health(s, "e0")
  \/ \E s \in Operators : InMux /\ resetcause(s, "e0")
  \/ \E s \in Operators : InMux /\ operationtime(s, "e0")
  \/ \E s \in Operators : InMux /\ get_fec_anlt_speed(s, "e0")
  \/ \E s \in Operators : InMux /\ event_log(s, "e0")
  \/ \E s \in Operators : InMux /\ version(s, "e0")
  \/ \E s \in Operators : InMux /\ switchmode(s, AllCables)
  \/ \E s \in Operators : InMux /\ get_hwmode_mux_direction_port(s, AllCables)
  \/ \E s \in Operators : InMux /\ Subscribe(s)
  \/ \E s \in Operators : InMux /\ Ask(s)
  \/ \E s \in Operators : InMux /\ update_and_get_response_for_xcvr_cmd(s)
  \/ \E s \in Operators : InMux /\ TimeOut(s)
  \/ \E s \in Operators : InMux /\ Report(s)
  \/ \E s \in Operators : InMux /\ NextPort(s)
  \/ \E k \in DOMAIN request : InMux /\ Take(k)
  \/ \E w \in work : InMux /\ Answer(w, "True")
  \/ InMux /\ DaemonRestart
  \/ \E ps \in TwoCables : Set /\ mode("active", ps)
  \/ \E ps \in TwoCables : Set /\ probertype("software", ps)
  \/ \E ps \in TwoCables : Set /\ packetloss(ps)
  \/ Set /\ kill_radv("enable")
  \/ Set /\ telemetry("disable")
  \/ Set /\ reset_heartbeat_suspend({"e0"})

(* Breakout                                                                *)
InBreakout == area = "breakout" /\ UNCHANGED <<db, area, steps, muxVars, reloadVars, scopedVars, consoleVars, techVars>>
DpbNext ==
  \/ \E m \in BreakoutModes, force, given \in BOOLEAN : InBreakout /\ breakout(m, force, given)
  \/ InBreakout /\ _shutdownIntf
  \/ InBreakout /\ WriteDel
  \/ InBreakout /\ _verifyAsicDB
  \/ InBreakout /\ WriteAdd
  \/ InBreakout /\ RecordMode
  \/ InBreakout /\ Killed
  \/ \E o \in asic : InBreakout /\ OrchRemove(o)
  \/ \E p \in AllPorts : InBreakout /\ OrchCreate(p)
  \/ \E p \in AllPorts : InBreakout /\ Attach(p)
  \/ \E p \in AllPorts : InBreakout /\ Detach(p)

(* Reload                                                                  *)
InReload == area = "reload" /\ UNCHANGED <<db, area, steps, muxVars, breakoutVars, scopedVars, consoleVars, techVars>>
ReloadOptions == {<<FALSE, TRUE, FALSE, FALSE>>, <<TRUE, TRUE, TRUE, FALSE>>, <<FALSE, FALSE, FALSE, TRUE>>}
ReloadNext ==
  \/ \E a \in Admins, o \in ReloadOptions, name \in {"default", "x", "s"} :
       InReload /\ reload(a, name, o[1], o[2], o[3], o[4])
  \/ \E a \in Admins, override \in BOOLEAN : InReload /\ load_minigraph(a, TRUE, override, FALSE)
  \/ \E a \in Admins : InReload /\ load(a, "x")
  \/ \E a \in Admins : InReload /\ override_config_table(a)
  \/ \E a \in Admins : InReload /\ save(a)
  \/ \E a \in Admins : InReload /\ load_mgmt_config(a)
  \/ \E a \in Admins : InReload /\ AdminStep(a)
  \/ \E a \in Admins : InReload /\ Dies(a)
  \/ InReload /\ SwssComesUp
  \/ InReload /\ WarmbootEnds

---------------------------------------------------------------------------
(* The updater on the host and an ASIC                                     *)
InScopes == area = "scopes" /\ UNCHANGED <<db, area, steps, muxVars, breakoutVars, reloadVars, consoleVars, techVars>>
Adds(s, v) == [op |-> "add", scope |-> s, table |-> "T", value |-> v]
Patches ==
  {<< >>, <<Adds("localhost", 1), Adds("asic0", 1)>>, <<Adds("asic0", 3)>>,
   <<Adds("asic0", 2), Adds("asic0", 2), Adds("localhost", 2)>>, <<[Adds("asic0", 1) EXCEPT !.op = "bad"]>>}
Replacements == {[s \in S |-> [t \in {"T"} |-> <<2>>]] : S \in {Scopes, {"asic0"}}}
ScopesNext ==
  \/ \E ops \in Patches, parallel \in BOOLEAN : InScopes /\ apply_patch_from_file(ops, parallel)
  \/ \E c \in Replacements : InScopes /\ replace(c)
  \/ \E n \in CheckpointNames : InScopes /\ rollback_scopes(n)
  \/ \E n \in CheckpointNames : InScopes /\ checkpoint_scopes(n)
  \/ \E n \in CheckpointNames : InScopes /\ delete_checkpoint(n)
  \/ \E s \in Scopes, ok \in BOOLEAN : InScopes /\ apply_patch_for_scope(s, ok)
  \/ InScopes /\ AggregateResults
  \/ \E ok \in BOOLEAN : InScopes /\ ReplaceScope(ok)
  \/ \E s \in Scopes, t \in PatchTables, v \in PatchValues : InScopes /\ OtherWrite(s, t, v)

(* Console sessions on one line                                            *)
InTerminal == area = "terminal" /\ UNCHANGED <<db, area, steps, muxVars, breakoutVars, reloadVars, scopedVars, techVars>>
Named == {<<"1", FALSE>>, <<"d1", TRUE>>}
TerminalNext ==
  \/ \E u \in Users, x \in Named : InTerminal /\ console_connect(u, x[1], x[2])
  \/ \E u \in Users, x \in Named : InTerminal /\ consutil_clear(u, x[1], x[2])
  \/ \E u \in Users : InTerminal /\ consutil_show(u)
  \/ \E u \in Users : InTerminal /\ ListProcesses(u)
  \/ \E u \in Users : InTerminal /\ refresh(u)
  \/ \E u \in Users : InTerminal /\ clear_session(u)
  \/ \E u \in Users : InTerminal /\ StartPicocom(u)
  \/ \E u \in Users : InTerminal /\ console_state_set(u)
  \/ \E p \in procs : InTerminal /\ PicocomEnds(p)
  \/ \E u \in Users : InTerminal /\ cleanup(u)
  \/ \E u \in Users : InTerminal /\ mirror_start(u, "1", FALSE)
  \/ \E u \in Users, archive \in BOOLEAN : InTerminal /\ mirror_stop(u, "d1", TRUE, archive)
  \/ \E u \in Users : InTerminal /\ mirror_timeout(u, "1", FALSE)
  \/ \E u \in Users : InTerminal /\ mirror_show(u, "1", FALSE)
  \/ \E u \in Users : InTerminal /\ MirrorAnswers(u)
  \/ \E l \in Ttys : InTerminal /\ MirrorPackaged(l)
  \/ \E u \in Users : InTerminal /\ MirrorTimesOut(u)
  \/ In("terminal") /\ remove_console_setting("1")

---------------------------------------------------------------------------
(* Technical support: cores of a container with and one without a setting, *)
(* and a second handler that may be started by the lack of memory.         *)
InTech == area = "techsupport" /\ UNCHANGED <<db, area, steps, muxVars, breakoutVars, reloadVars, scopedVars, consoleVars>>
TechNext ==
  \/ \E h \in Handlers, c \in {"swss0", "pmon"}, late \in BOOLEAN : InTech /\ coredump_gen_handler(h, c, late)
  \/ \E h \in Handlers \ {"h1"}, x \in {<<150, 10>>, <<500, 10>>, <<500, 85>>} :
       InTech /\ memory_threshold_check(h, x[1], [c \in {"swss0"} |-> x[2]])
  \/ \E h \in Handlers : InTech /\ invoke_ts_command_rate_limited(h)
  \/ \E h \in Handlers : InTech /\ DumpBegins(h)
  \/ \E h \in Handlers : InTech /\ LockFails(h)
  \/ \E h \in Handlers : InTech /\ Collects(h)
  \/ \E h \in Handlers, n \in DumpSizes, ok \in BOOLEAN : InTech /\ finalize(h, n, ok)
  \/ \E h \in Handlers : InTech /\ abort(h)
  \/ \E h \in Handlers : InTech /\ DumpKilled(h)
  \/ \E h \in Handlers : InTech /\ write_to_state_db(h)
  \/ \E d \in DumpIds : InTech /\ handle_techsupport_creation_event(d)
  \/ \E d \in DumpIds : InTech /\ cleanup_process(d)
  \/ \E d \in DumpIds : InTech /\ clean_state_db_entries(d)
  \/ InTech /\ TimePasses

Next == QosNext \/ BufferNext \/ WatchdogNext \/ CounterNext \/ PluginNext \/ AccessNext \/ ConsoleNext
        \/ ServiceNext \/ PlatformNext \/ MuxNext \/ DpbNext \/ ReloadNext \/ ScopesNext \/ TerminalNext
        \/ TechNext
Spec == Init /\ [][Next]_vars

---------------------------------------------------------------------------
\* What the commands of the host leave behind is consistent, whatever was
\* configured, interrupted or done at the same time: identifiers of buffers
\* do not overlap; there is one route pattern of a family; counters that are
\* monitored may be; a device has one console line, and a logged line its
\* file; recordings stay within their limit; a busy console line was in use;
\* an update that was reported as applied is applied in every scope; and
\* technical support is not collected again before its interval has passed.
HostConsistent ==
  /\ BufferMapsDisjoint /\ OnePatternPerFamily /\ DropCountersConsistent
  /\ OneLinePerDevice /\ LoggedLineHasFile /\ DumpsWithinLimit
  /\ BusyIsFresh /\ SuccessMeansApplied /\ GlobalRateLimit
===========================================================================
