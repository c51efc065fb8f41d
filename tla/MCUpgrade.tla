----------------------------- MODULE MCUpgrade -----------------------------
(* Upgrades: the migration of the databases to a new image, from old       *)
(* databases of four kinds of switches, the packages on top of the image,  *)
(* the images on the flash, and the docker image of a service.  A          *)
(* behaviour is about one of the four areas.                               *)
EXTENDS DbMigrator, PackageManager, SonicInstaller, TLC

CONSTANTS os1, os2, os3

VARIABLE area
Starts == {"legacy", "cold", "mlnx", "mlnx_own", "mlnx_lost", "edgezone", "no_cables"}
vars == <<db, migratorVars, packageVars, installerVars, area>>

---------------------------------------------------------------------------
MCParent == NoEntries
Pools(size) ==
  [n \in DefaultPoolList |-> [size |-> size]]
MCPoolDefaults ==
  [v \in {"version_1_0_2", "version_1_0_3", "version_1_0_4", "version_1_0_5", "version_1_0_6",
          "version_2_0_0"} |->
     CASE v = "version_1_0_2" -> [t0 |-> Pools("a"), t1 |-> Pools("b")]
       [] v = "version_2_0_0" -> [all |-> Pools("dynamic")]
       [] OTHER -> [t0 |-> Pools("c")]]
MCPoolMapping == [v \in {"version_2_0_0"} |-> [t0 |-> "all"]]
Lossless(size) == [pg_100_5m |-> [size |-> size, pool |-> PlainRef(<<"ingress_lossless_pool">>)]]
MCHeadroomDefaults ==
  [v \in {"version_1_0_3", "version_1_0_4"} |->
     IF v = "version_1_0_3" THEN [default |-> Lossless("1")]
                            ELSE [default |-> Lossless("2"), msft |-> Lossless("3")]]
MCHeadroomMapping == [v \in {"version_1_0_4"} |-> [default |-> "msft"]]
Profile(pool, size) == [pool |-> [form |-> "config", names |-> <<pool>>], size |-> size]
MCProfileDefaults ==
  [v \in {"version_1_0_4", "version_1_0_5"} |->
     [default |-> [q_lossy_profile |-> Profile("egress_lossy_pool",
                                               IF v = "version_1_0_4" THEN "0" ELSE "1")]]]
MCLosslessProfile == [n \in {"pg_100_5m"} |-> [speed |-> "100000", length |-> "5m"]]
MCInitCfg ==
  [FEATURE |-> [bgp |-> [state |-> "enabled", auto_restart |-> "enabled"]],
   KDUMP |-> [config |-> [enabled |-> "false"]]]

---------------------------------------------------------------------------
Src ==
  [RESTAPI |-> [config |-> [port |-> "1"]],
   DEVICE_METADATA |-> [localhost |-> [synchronous_mode |-> "enable",
                                       docker_routing_config_mode |-> "separated"]],
   DNS_NAMESERVER |-> [a |-> NoEntries],
   GNMI |-> [gnmi |-> [port |-> "2"], certs |-> [cert |-> "x"]],
   TACPLUS |-> [global |-> [passkey |-> "k"]],
   AAA |-> [authentication |-> [login |-> "tacacs"], authorization |-> [login |-> "tacacs"]]]
Host(a) ==
  [asic |-> CASE a \in {"legacy", "edgezone", "no_cables"} -> "broadcom" [] a = "cold" -> "other"
              [] OTHER -> "mellanox",
   s6100 |-> a = "legacy", traditional |-> a = "mlnx_own",
   src |-> IF a \in {"legacy", "edgezone"} THEN Src ELSE NoEntries]

Tables ==
  IfTables \cup MlnxTables \cup DOMAIN VxlanApp \cup {VxlanApp[t] : t \in DOMAIN VxlanApp} \cup
  DOMAIN QosRefs \cup DOMAIN Src \cup DOMAIN MCInitCfg \cup
  {"VERSIONS", "PFC_WD", "PFC_WD_TABLE", "INTF_TABLE", "COPP_TABLE", "CONTAINER_FEATURE", "PORT",
   "PORT_TABLE", "TELEMETRY", "CONSOLE_SWITCH", "TUNNEL_DECAP_TABLE", "TUNNEL_DECAP_TERM_TABLE",
   "STATE_TUNNEL_DECAP_TABLE", "DSCP_TO_TC_MAP", "DEVICE_NEIGHBOR_METADATA", "DEVICE_NEIGHBOR",
   "CABLE_LENGTH", "FLEX_COUNTER_TABLE", "SFLOW", "SFLOW_SESSION", "SFLOW_TABLE",
   "SFLOW_SESSION_TABLE", "VLAN", "DHCPV4_RELAY", "PORTCHANNEL", "LOGGER", "LOGLEVEL_DB",
   "FAST_REBOOT", "FAST_RESTART_ENABLE_TABLE", "WARM_RESTART_ENABLE_TABLE",
   "BUFFER_MAX_PARAM_TABLE"}
Empty == [t \in Tables |-> NoEntries]
Version(d, v) == [d EXCEPT !["VERSIONS"] = [DATABASE |-> [VERSION |-> v]]]
Warm(d) == [d EXCEPT !["WARM_RESTART_ENABLE_TABLE"] = [system |-> [enable |-> "true"]]]
Ref(n) == [form |-> "config", names |-> <<n>>]

Legacy ==
  [Warm(Empty) EXCEPT
     !["PFC_WD_TABLE"] = [p1 |-> [action |-> "drop"]],
     !["INTERFACE"] = <<"p1", "ip1">> :> NoEntries,
     !["LOOPBACK_INTERFACE"] = <<"Loopback1", "ip2">> :> NoEntries,
     !["INTF_TABLE"] = [k \in {<<"lo", "ip2">>, <<"p1", "ip1">>} |-> NoEntries],
     !["COPP_TABLE"] = [trap |-> [queue |-> "1"]],
     !["FEATURE"] = [bgp |-> [status |-> "disabled", has_timer |-> "True"]],
     !["CONTAINER_FEATURE"] = [bgp |-> [auto_restart |-> "disabled"]],
     !["PORT"] = [p1 |-> [autoneg |-> "1", speed |-> "100000"], p2 |-> [autoneg |-> "0"]],
     !["PORT_TABLE"] = [PortConfigDone |-> [count |-> 2]],
     !["DSCP_TO_TC_MAP"] = [AZURE |-> NoEntries],
     !["BUFFER_PROFILE"] = [q_lossy_profile |-> Profile("egress_lossy_pool", "0")],
     !["BUFFER_QUEUE"] = <<"p1", "0-2">> :> [profile |-> Ref("q_lossy_profile")],
     !["PORT_QOS_MAP"] = [p1 |-> [pfc_enable |-> "3,4"]],
     !["LOGLEVEL_DB"] = [orchagent |-> [LOGLEVEL |-> "INFO", LOGOUTPUT |-> "SYSLOG"],
                         broken |-> [LOGLEVEL |-> "INFO"]],
     !["TUNNEL_DECAP_TABLE"] = [T |-> [dst_ip |-> {"ip1", "ip2"}, src_ip |-> "ip3"]],
     !["TACPLUS"] = [global |-> [auth_type |-> "pap"]],
     !["AAA"] = [authorization |-> [login |-> "local"]]]
Cold ==
  Version([Empty EXCEPT
     !["PORTCHANNEL"] = [pc1 |-> [mtu |-> "9100"]],
     !["FAST_REBOOT"] = [system |-> NoEntries],
     !["FLEX_COUNTER_TABLE"] = [PORT |-> [FLEX_COUNTER_STATUS |-> "enable"]],
     !["VXLAN_TUNNEL"] = [vtep |-> [src_ip |-> "ip1", dst_ip |-> "ip2"]],
     !["VXLAN_TUNNEL_TABLE"] = [vtep |-> [src_ip |-> "ip1"]],
     !["TELEMETRY"] = [gnmi |-> [port |-> "2"], certs |-> [cert |-> "x"]],
     !["SFLOW"] = [global |-> [admin_state |-> "up"]],
     !["SFLOW_TABLE"] = [global |-> [admin_state |-> "up"]],
     !["DEVICE_METADATA"] = [localhost |-> [has_sonic_dhcpv4_relay |-> "True"]],
     !["VLAN"] = [v \in {"Vlan10", "Vlan11"} |-> [dhcp_servers |-> "ip9", vlanid |-> v]],
     !["DHCPV4_RELAY"] = [Vlan11 |-> [dhcpv4_servers |-> "ip8"]]], "version_2_0_1")
Mlnx(pools) ==
  Version([Warm(Empty) EXCEPT
     !["DEVICE_METADATA"] = [localhost |-> [hwsku |-> "x"]],
     !["BUFFER_POOL"] = pools,
     !["BUFFER_PROFILE"] = [pg_100_5m |-> Lossless("1")["pg_100_5m"],
                            ingress_lossy_profile |-> Profile("ingress_lossy_pool", "0"),
                            q_lossy_profile |-> Profile("egress_lossy_pool", "0"),
                            egress_lossless_profile |-> Profile("egress_lossless_pool", "0")],
     !["BUFFER_PG"] = <<"p1", "3-4">> :> [profile |-> Ref("pg_100_5m")],
     !["PORT"] = [p1 |-> [speed |-> "100000", admin_status |-> "down"]],
     !["CABLE_LENGTH"] = [AZURE |-> [p1 |-> "5m"]],
     !["TUNNEL_DECAP_TABLE"] = [IPINIP_TUNNEL |-> [ecn_mode |-> "standard"]],
     !["STATE_TUNNEL_DECAP_TABLE"] = [IPINIP_TUNNEL |-> [ecn_mode |-> "standard"]]],
     "version_1_0_2")
EdgeZones ==
  Version([Empty EXCEPT
     !["DEVICE_NEIGHBOR_METADATA"] = [agg |-> [type |-> "EdgeZoneAggregator"]],
     !["DEVICE_NEIGHBOR"] = [p \in {"p1", "p2"} |-> [name |-> "agg"]],
     !["CABLE_LENGTH"] = [AZURE |-> [p1 |-> "5m", p2 |-> "5m", p3 |-> "300m"]]],
     "version_202505_01")
StartDb(a) ==
  CASE a = "legacy" -> Legacy
    [] a = "cold" -> Cold
    [] a = "mlnx" -> Mlnx(Pools("a"))
    [] a = "mlnx_own" -> Mlnx([Pools("a") EXCEPT !["egress_lossy_pool"] = [size |-> "own"]])
    [] a = "mlnx_lost" -> Mlnx(Pools("b"))
    [] a = "edgezone" -> EdgeZones
    [] a = "no_cables" -> [EdgeZones EXCEPT !["CABLE_LENGTH"] = NoEntries]

---------------------------------------------------------------------------
(* swss is built in; B is installed in version 1 from the image that A 1   *)
(* is made of, too; A 2 needs B 2, and B 1 breaks A 2.                     *)
Constraint(n, vs) == [name |-> n, versions |-> vs, components |-> {}]
MCDefault == [n \in Names |-> IF n = "B" THEN 1 ELSE 0]
MCImage == [p \in Packages |-> IF p \in {<<"A", 1>>, <<"B", 1>>} THEN "shared" ELSE ToString(p)]
MCDepends ==
  [p \in Packages |-> CASE p = <<"A", 2>> -> {Constraint("B", {2})}
                        [] p = <<"A", 1>> -> {Constraint("swss", {1})}
                        [] OTHER -> {}]
MCBreaks == [p \in Packages |-> IF p = <<"B", 1>> THEN {Constraint("A", {2})} ELSE {}]
MCComponents ==
  [p \in Packages |-> CASE p[1] = "swss" -> {<<"lib", 21>>}
                        [] p = <<"A", 1>> -> {<<"lib", 20>>}
                        [] OTHER -> {}]
MCBaseOs == Packages \ {<<"swss", 2>>}
MCPlugins == [p \in Packages |-> IF p[1] = "A" THEN p[2] ELSE 0]
MCAsic == {<<"B", 1>>}
MCDump == {<<"B", 1>>, <<"A", 2>>}
MCYang == {<<"A", 1>>, <<"A", 2>>, <<"B", 2>>}
MCAutoCli == {<<"A", 2>>}
MCDependentOf == [p \in Packages |-> IF p = <<"B", 1>> THEN {"swss"} ELSE {}]
MCMandatory == {<<"A", 2>>}
MCAfter ==
  [t \in {"fast", "warm"} |-> [p \in Packages |-> IF p[1] = "A" THEN {"swss", "B"} ELSE {}]]
MCBefore ==
  [t \in {"fast", "warm"} |->
     [p \in Packages |-> IF p = <<"B", 2>> /\ t = "warm" THEN {"swss"} ELSE {}]]
MCOld == [n \in {"A", "B"} |-> IF n = "A" THEN 2 ELSE 1]
Symmetry == Permutations(Clients)

---------------------------------------------------------------------------
(* os3 is signed with a key that no .auth file can enrol again. *)
MCSigners ==
  [b \in OsImages \cup {Shim} |->
     CASE b = os1 -> {"k1"} [] b = os2 -> {"k1", "k2"} [] b = os3 -> {"k3"}
       [] OTHER -> {"k0", "k2"}]
MCAuthFiles == << {"k2"}, {"k0", "k1"} >>
MCFirstDbs == { {"k0", "k1"}, {"k1", "k2"} }

---------------------------------------------------------------------------
Init ==
  /\ area \in {"databases", "packages", "images", "dockers"}
  /\ PackagesInit
  /\ \/ area = "databases" /\ (\E a \in Starts : MigratorInit(StartDb(a), Host(a)))
     \/ area # "databases" /\ MigratorInit(Empty, Host("cold"))
  /\ \/ area = "images" /\ InstallerInit
     \/ area # "images" /\ InstallerInit /\ flash.kind = "grub" /\ ~efi.secure /\ "k0" \in efi.db
Next ==
  \/ area = "databases" /\ MigratorNext /\ UNCHANGED <<packageVars, installerVars, area>>
  \/ area = "packages" /\ PackagesNext /\ UNCHANGED <<db, migratorVars, installerVars, area>>
  \/ area = "images" /\ ImagesNext /\ UNCHANGED <<db, migratorVars, packageVars, area>>
  \/ area = "dockers" /\ DockersNext /\ UNCHANGED <<db, migratorVars, packageVars, area>>
Spec == Init /\ [][Next]_vars
===========================================================================
