--------------------------- MODULE SwitchingConfig ---------------------------
(* The switching and routing commands of config/ composed: they share one  *)
(* database, each looks at tables that others write, and an operator may   *)
(* give any of them at any time, with any arguments.  The commands are     *)
(* grouped by the tables they write.  The numbers and words a command only *)
(* stores are any number and any word.                                     *)
EXTENDS OverlayConfig, AclPbhConfig, NatConfig, PortConfig

Tables == StpTables \cup L2Tables \cup L3Tables \cup OverlayTables \cup AclTablesOfDb \cup
          NatTables \cup PortParameterTables
Interfaces == Ports \cup PortChannels \cup Vlans \cup Loopbacks \cup SubInterfaces
VrfNames == Vrfs \cup {"mgmt"}

\* Tables that come with the switch, or that the commands below only read.
ProvidedTables == {"PORT", "DEVICE_METADATA", "DHCP_RELAY", "DHCPV4_RELAY", "SYSLOG_SERVER",
                   "STP_MST_INST"}
SwitchingInit ==
  /\ DOMAIN db = Tables /\ DOMAIN db["PORT"] = Ports
  /\ \A t \in Tables \ ProvidedTables : db[t] = NoEntries

---------------------------------------------------------------------------
(* config vlan, switchport, portchannel, mirror_session                    *)
VlanCommand ==
  \/ \E v \in Vlans : add_vlan(v)
  \/ \E v \in Vlans, no_restart \in BOOLEAN : del_vlan(v, no_restart)
MemberCommand ==
  \/ \E v \in Vlans, p \in Ports \cup PortChannels, u \in BOOLEAN : add_vlan_member(v, p, u)
  \/ \E v \in Vlans, p \in Ports \cup PortChannels : del_vlan_member(v, p)
PortchannelCommand ==
  \/ \E c \in PortChannels, n \in Nat, f, r \in BOOLEAN : add_portchannel(c, n, f, r)
  \/ \E c \in PortChannels : remove_portchannel(c)
PortchannelMemberCommand ==
  \/ \E c \in PortChannels, p \in Ports : add_portchannel_member(c, p)
  \/ \E c \in PortChannels, p \in Ports : del_portchannel_member(c, p)
MirrorCommand ==
  \/ \E s \in Sessions, src \in SUBSET (Ports \cup PortChannels), x \in STRING : add_erspan(s, src, x)
  \/ \E s \in Sessions, p \in Ports, src \in SUBSET (Ports \cup PortChannels), x \in STRING :
       add_span(s, p, src, x)
  \/ \E s \in Sessions : remove_mirror_session(s)
StormCommand ==
  \/ \E p \in Ports, type \in StormTypes, n \in StormRates : storm_control_set_entry(p, type, n)
  \/ \E p \in Ports, type \in StormTypes : storm_control_delete_entry(p, type)
MacCommand == (\E mac \in STRING : add_mac(mac)) \/ del_mac

(* Parameters of ports and port channels.                                  *)
PortCommand ==
  \/ \E p \in Ports \cup PortChannels, type \in {"access", "trunk", "routed"} : switchport_mode(type, p)
  \/ \E p \in Ports, n \in Nat :
       \/ speed(p, n) \/ mtu(p, n) \/ frequency(p, n)
       \/ add_dhcp_mitigation_rate(p, n) \/ del_dhcp_mitigation_rate(p, n)
  \/ \E p \in Ports, n \in Int : tx_power(p, n)
  \/ \E p \in Ports, x \in STRING :
       \/ fec(p, x) \/ link_training(p, x) \/ autoneg(p, x) \/ interface_type(p, x)
       \/ dom(p, x) \/ fast_linkup(p, x)
  \/ \E p \in Ports, x \in Seq(Nat) : advertised_speeds(p, x)
  \/ \E p \in Ports, x \in Seq(STRING) : advertised_types(p, x)
  \/ \E p \in Ports \cup PortChannels, x \in STRING : tpid(p, x)
  \/ \E f \in SUBSET [range : BOOLEAN, names : SUBSET (Ports \cup PortChannels)] :
       startup(f) \/ shutdown(f)
  \/ \E c \in PortChannels, mac \in STRING : add_pc_sys_id_mac(c, mac) \/ del_pc_sys_id_mac(c, mac)
FastLinkupCommand ==
  \E F \in SUBSET {"polling_time", "guard_time", "ber_threshold"} : \E data \in [F -> Nat] :
    switch_fast_linkup_global_cmd(data)

(* config spanning_tree                                                    *)
StpCommand ==
  \/ \E mode \in {"pvst", "mst"} : spanning_tree_enable(mode, VlanNumber) \/ stp_disable(mode)
  \/ \E n \in Nat :
       \/ stp_global_root_guard_timeout(n) \/ stp_global_forward_delay(n)
       \/ stp_global_hello_interval(n) \/ stp_global_max_age(n) \/ stp_global_priority(n)
       \/ stp_global_max_hops(n) \/ stp_global_revision(n)
  \/ \E x \in STRING : stp_mst_region_name(x)
  \/ \E v \in Vlans : stp_vlan_enable(v) \/ stp_vlan_disable(v)
  \/ \E v \in Vlans, n \in Nat :
       \/ stp_vlan_forward_delay(v, n) \/ stp_vlan_hello_interval(v, n)
       \/ stp_vlan_max_age(v, n) \/ stp_vlan_priority(v, n)
  \/ \E v \in Vlans, p \in Ports \cup PortChannels, n \in Nat :
       stp_vlan_interface_priority(v, p, n) \/ stp_vlan_interface_cost(v, p, n)
StpPortCommand ==
  \/ \E p \in Ports \cup PortChannels :
       \/ stp_interface_portfast_enable(p) \/ stp_interface_portfast_disable(p)
       \/ stp_interface_uplink_fast_enable(p) \/ stp_interface_uplink_fast_disable(p)
       \/ stp_interface_bpdu_guard_disable(p)
       \/ stp_interface_root_guard_enable(p) \/ stp_interface_root_guard_disable(p)
  \/ \E p \in Ports \cup PortChannels, x \in BOOLEAN :
       mstp_interface_edge_port(p, x) \/ stp_interface_bpdu_guard_enable(p, x)
  \/ \E p \in Ports \cup PortChannels, n \in Nat :
       stp_interface_priority(p, n) \/ stp_interface_cost(p, n)
  \/ \E p \in Ports \cup PortChannels, x \in STRING : stp_interface_link_type_set(p, x)
  \/ \E i \in MstInstances, p \in Ports \cup PortChannels, n \in Nat :
       mst_instance_interface_priority(i, p, n) \/ mst_instance_interface_cost(i, p, n)
  \/ \E i \in MstInstances, n \in Nat : mst_instance_priority(i, n)
  \/ \E i \in MstInstances, v \in Vlans : mst_instance_vlan_add(i, v) \/ mst_instance_vlan_del(i, v)

---------------------------------------------------------------------------
(* Router interfaces and what they are bound to.                           *)
AddressCommand ==
  \/ \E i \in Interfaces, a \in Addresses, secondary \in BOOLEAN : add_interface_ip(i, a, secondary)
  \/ \E i \in Interfaces, a \in Addresses : remove_interface_ip(i, a)
InterfaceCommand ==
  \/ \E v \in Vlans, mode \in STRING : config_proxy_arp(v, mode)
  \/ \E v \in Vlans : enable_vlan_sag(v) \/ disable_vlan_sag(v)
  \/ \E i \in Interfaces, x \in STRING : loopback_action(i, x) \/ mpls(i, x)
  \/ \E i \in Ports \cup PortChannels \cup Vlans, mode \in {"enable", "disable"} :
       use_link_local_only(i, mode)
  \/ enable_link_local \/ disable_link_local
  \/ \E l \in Loopbacks : add_loopback(l) \/ del_loopback(l)
  \/ \E s \in SubInterfaces, n \in Nat : add_subinterface(s, n)
  \/ \E s \in SubInterfaces : del_subinterface(s)
  \/ \E i \in Interfaces, n \in Nat : add_nat_interface(i, n)
  \/ \E i \in Interfaces : remove_nat_interface(i)
  \/ remove_interfaces
BindCommand ==
  \/ \E i \in Interfaces, v \in VrfNames \cup Vnets : bind(i, v)
  \/ \E i \in Interfaces : unbind(i)
VrfCommand ==
  \/ \E v \in VrfNames : add_vrf(v) \/ del_vrf(v) \/ del_vrf_vni_map(v)
  \/ \E v \in VrfNames, n \in Vnis : add_vrf_vni_map(v, n)
MgmtCommand ==
  \/ \E a \in Addresses, gw \in STRING : add_mgmt_ip(a, gw)
  \/ \E a \in Addresses : remove_mgmt_ip(a)
VrrpCommand ==
  \E t \in {"VRRP", "VRRP6"}, i \in Interfaces, id \in Nat :
    \/ add_vrrp(t, i, id) \/ remove_vrrp(t, i, id)
    \/ \E a \in Addresses : add_vrrp_ip(t, i, id, a) \/ remove_vrrp_ip(t, i, id, a)
    \/ \E track \in Interfaces, n \in Nat : add_track_interface(t, i, id, track, n)
    \/ \E track \in Interfaces : remove_track_interface(t, i, id, track)
    \/ \E n \in Nat : vrrp_priority(t, i, id, n) \/ adv_interval(t, i, id, n)
    \/ \E mode \in STRING : pre_empt(t, i, id, mode)
    \/ \E n \in Nat : vrrp_version(i, id, n)
RouteCommand ==
  \E v \in VrfNames \cup {"default"}, prefix \in STRING,
     hops \in Seq([nexthop : STRING, vrf : STRING, ifname : STRING]) :
    add_route(v, prefix, hops) \/ del_route(v, prefix, hops)

---------------------------------------------------------------------------
(* Overlays, multi-homing, NVGRE.                                          *)
VxlanCommand ==
  \/ \E t \in Vteps : add_vxlan(t) \/ del_vxlan(t)
  \/ \E n \in Nvos, t \in Vteps : add_vxlan_evpn_nvo(n, t)
  \/ \E n \in Nvos : del_vxlan_evpn_nvo(n)
  \/ \E t \in Vteps, v \in Vlans, n \in Vnis : add_vxlan_map(t, v, n) \/ del_vxlan_map(t, v, n)
  \/ \E t \in Vteps, first, last \in Nat, n \in Vnis :
       add_vxlan_map_range(t, first, last, n) \/ del_vxlan_map_range(t, first, last, n)
VnetCommand ==
  \/ \E n \in Vnets, vni \in Vnis, t \in Vteps, peers \in SUBSET Vnets : add_vnet(n, vni, t, peers)
  \/ \E n \in Vnets : del_vnet(n)
  \/ \E n \in Vnets, prefix, endpoint \in STRING : add_vnet_route(n, prefix, endpoint)
  \/ \E n \in Vnets, prefix \in STRING : del_vnet_route(n, prefix)
MclagCommand ==
  \/ \E k \in Nat, peer \in Ports \cup PortChannels : add_mclag_domain(k, peer)
  \/ \E k \in Nat : del_mclag_domain(k)
  \/ \E k, secs \in Nat : config_mclag_keepalive_timer(k, secs) \/ config_mclag_session_timeout(k, secs)
  \/ \E k \in Nat, c \in PortChannels : add_mclag_member(k, c) \/ del_mclag_member(k, c)
  \/ \E v \in Vlans : add_mclag_unique_ip(v) \/ del_mclag_unique_ip(v)
EvpnCommand ==
  \/ \E n \in Nat : set_startup_delay(n) \/ set_mac_holdtime(n) \/ set_neigh_holdtime(n)
  \/ \E i \in Interfaces, esi \in STRING : add_evpn_es(i, esi)
  \/ \E i \in Interfaces : del_evpn_es(i)
  \/ \E i \in Interfaces, n \in Nat : evpn_df_pref(i, n)
NvgreCommand ==
  \/ \E t \in STRING : NVGRE_TUNNEL_add(t) \/ NVGRE_TUNNEL_delete(t)
  \/ \E t, m \in STRING, vlan, vsid \in Nat : NVGRE_TUNNEL_MAP_add(t, m, vlan, vsid)
  \/ \E t, m \in STRING : NVGRE_TUNNEL_MAP_delete(t, m)

---------------------------------------------------------------------------
(* ACLs, policy based hashing, NAT.                                        *)
AclCommand ==
  \/ \E t \in AclTables, type, stage \in STRING, ports \in SUBSET Interfaces :
       add_table(t, type, ports, stage)
  \/ \E t \in AclTables : remove_table(t)
AclRuleCommand ==
  \/ \E f \in AclFiles, t \in AclTables \cup {""} : full_update(f, t)
  \/ \E f \in AclFiles : incremental_update(f)
  \/ \E t \in AclTables \cup {""}, n \in Int : delete_rules(t, n)

PbhRuleFields == PbhMatches \cup {"hash", "flow_counter"}
PbhRules ==
  {data \in UNION {[F -> STRING] : F \in SUBSET PbhRuleFields} :
     "flow_counter" \in DOMAIN data => data["flow_counter"] \in {"ENABLED", "DISABLED"}}
HashFields == {"INNER_IP_PROTOCOL", "INNER_L4_DST_PORT", "INNER_L4_SRC_PORT", "INNER_DST_IPV4",
               "INNER_SRC_IPV4", "INNER_DST_IPV6", "INNER_SRC_IPV6"}
Masks == {"", "v4", "v6"}
PbhCommand ==
  \/ \E t \in PbhNames, ports \in SUBSET Interfaces : PBH_TABLE_add(t, ports) \/ PBH_TABLE_update(t, ports)
  \/ \E t \in PbhNames : PBH_TABLE_delete(t)
  \/ \E n \in STRING, F \in SUBSET STRING : PBH_HASH_add(n, F) \/ PBH_HASH_update(n, F)
  \/ \E n \in STRING : PBH_HASH_delete(n)
PbhFieldCommand ==
  \/ \E n \in STRING, f \in HashFields, m \in Masks : PBH_HASH_FIELD_add(n, f, m)
  \/ \E n \in STRING, f \in HashFields \cup {""}, m \in Masks : PBH_HASH_FIELD_update(n, f, m)
  \/ \E n \in STRING : PBH_HASH_FIELD_delete(n)
PbhRuleCommand ==
  \/ \E t \in PbhNames, r \in STRING, data \in PbhRules :
       PBH_RULE_add(t, r, data) \/ PBH_RULE_update_field_set(t, r, data)
  \/ \E t \in PbhNames, r \in STRING, F \in SUBSET PbhRuleFields : PBH_RULE_update_field_del(t, r, F)
  \/ \E t \in PbhNames, r \in STRING : PBH_RULE_delete(t, r)
  \/ clear_pbh_counters

NatKinds == {"snat", "dnat"}
NatStaticCommand ==
  \/ \E g, l \in NatIps, x \in NatKinds, id \in TwiceIds : add_basic(g, l, x, id)
  \/ \E g, l \in NatIps : remove_basic(g, l)
  \/ \E g, l \in NatIps, gp, lp \in NatPorts, x \in NatKinds, id \in TwiceIds :
       add_tcp(g, gp, l, lp, x, id) \/ add_udp(g, gp, l, lp, x, id)
  \/ \E g, l \in NatIps, gp, lp \in NatPorts : remove_tcp(g, gp, l, lp) \/ remove_udp(g, gp, l, lp)
  \/ remove_static_all
NatPoolCommand ==
  \/ \E p \in Pools, lo, hi \in NatIps : add_pool(p, lo, hi)
  \/ \E p \in Pools : remove_pool(p)
  \/ remove_pools
NatOtherCommand ==
  \/ \E b \in Bindings, p \in Pools, id \in TwiceIds : add_binding(b, p, id)
  \/ \E b \in Bindings : remove_binding(b)
  \/ \E mode \in STRING : nat_feature(mode)
  \/ \E f \in {"nat_timeout", "nat_tcp_timeout", "nat_udp_timeout"}, n \in Nat :
       nat_set_timeout(f, n) \/ nat_reset_timeout(f)

---------------------------------------------------------------------------
SwitchCommand ==
  \/ VlanCommand \/ MemberCommand \/ PortchannelCommand \/ PortchannelMemberCommand
  \/ MirrorCommand \/ StormCommand \/ MacCommand \/ PortCommand \/ FastLinkupCommand
  \/ StpCommand \/ StpPortCommand
RouterCommand ==
  \/ AddressCommand \/ InterfaceCommand \/ BindCommand \/ VrfCommand \/ MgmtCommand
  \/ VrrpCommand \/ RouteCommand
OverlayCommand == VxlanCommand \/ VnetCommand \/ MclagCommand \/ EvpnCommand \/ NvgreCommand
TrafficCommand ==
  \/ AclCommand \/ AclRuleCommand \/ PbhCommand \/ PbhFieldCommand \/ PbhRuleCommand
  \/ NatStaticCommand \/ NatPoolCommand \/ NatOtherCommand

SwitchingNext == SwitchCommand \/ RouterCommand \/ OverlayCommand \/ TrafficCommand
SwitchingSpec == SwitchingInit /\ [][SwitchingNext]_db

---------------------------------------------------------------------------
\* Values that are checked one at a time, or against one another, fit
\* together after every sequence of commands: the three timers of spanning
\* tree, the keepalive and session timers of MCLAG, the numbers of VRRP.
LimitsHold == PvstTimersValid /\ MclagTimersValid /\ VrrpUnique

\* A port has one role, whichever commands gave it: what makes a port a
\* member, a mirror destination or the port of an ACL table is looked at by
\* commands of different files.
OneRole == OneRolePerPort /\ AclPortsNotInPortchannel
===========================================================================
