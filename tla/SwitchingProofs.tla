--------------------------- MODULE SwitchingProofs ---------------------------
(* What the switching and routing commands of config/ keep true, for every *)
(* set of ports, VLANs, addresses and names and every sequence of commands.*)
(*                                                                         *)
(* A command writes few tables, and each property looks at few.  So there  *)
(* is one lemma per group of commands that names the tables it writes (the *)
(* frames), and for each property one lemma that every command preserves   *)
(* it: the groups that write none of its tables by their frames, the       *)
(* others one command at a time.  Properties that ask for a field of an    *)
(* entry are restated over the entries of a database d (Disjoint, Roles,   *)
(* Matching, ...), strengthened where they are not inductive.  SwitchInv,  *)
(* at the end, is the conjunction of all of them; the theorems follow.     *)
EXTENDS SwitchingConfig, FiniteSetTheorems, TLAPS

\* n is d but for the tables of T; this step writes tables of T only.
Same(d, n, T) == DOMAIN n = DOMAIN d /\ \A t \in DOMAIN d \ T : n[t] = d[t]
Only(T) == Same(db, db', T)

VlanTables == {"VLAN", "DHCP_RELAY", "STP_VLAN", "STP_VLAN_PORT"}
MemberTables == {"VLAN_MEMBER", "STP_PORT", "STP_VLAN_PORT"}
PortchannelTables == {"PORTCHANNEL"}
PortchannelMemberTables == {"PORTCHANNEL_MEMBER"}
MirrorTables == {"MIRROR_SESSION"}
StormTables == {"PORT_STORM_CONTROL"}
MacTables == {"SAG"}
PortTables == {"PORT", "PORTCHANNEL"}
FastLinkupTables == {"SWITCH_FAST_LINKUP"}
StpPortTables == {"STP_PORT", "STP_MST_PORT", "STP_MST_INST"}
VrfTables == InterfaceTables \cup {"VRF", "MGMT_VRF_CONFIG"}
MgmtTables == {"MGMT_INTERFACE"}
VrrpTables == {"VRRP", "VRRP6", "VRRP_TRACK", "VRRP6_TRACK"}
RouteTables == {"STATIC_ROUTE"}
VxlanTables == {"VXLAN_TUNNEL", "VXLAN_EVPN_NVO", "VXLAN_TUNNEL_MAP"}
VnetTables == InterfaceTables \cup {"VNET", "VNET_ROUTE_TUNNEL"}
MclagTables == {"MCLAG_DOMAIN", "MCLAG_INTERFACE", "MCLAG_UNIQUE_IP"}
EvpnTables == {"EVPN_MH_GLOBAL", "EVPN_ETHERNET_SEGMENT"}
NvgreTables == {"NVGRE_TUNNEL", "NVGRE_TUNNEL_MAP"}
AclTableTables == {"ACL_TABLE"}
AclRuleTables == {"ACL_RULE"}
PbhTables == {"PBH_TABLE", "PBH_HASH"}
PbhFieldTables == {"PBH_HASH_FIELD"}
PbhRuleTables == {"PBH_RULE", "PBH_COUNTERS"}
NatStaticTables == {"STATIC_NAT", "STATIC_NAPT"}
NatPoolTables == {"NAT_POOL"}
NatOtherTables == {"NAT_BINDINGS", "NAT_GLOBAL"}

---------------------------------------------------------------------------
\* Nothing is written; then each operation of the database on a table of T
\* keeps the tables outside T.
LEMMA SameSelf == \A d, T : Same(d, d, T)
  BY DEF Same
LEMMA SameSet ==
  \A d, e, T, t, k, x : Same(d, e, T) /\ t \in T => Same(d, SetEntry(e, t, k, x), T)
  BY DEF Same, SetEntry
LEMMA SameMod ==
  \A d, e, T, t, k, x : Same(d, e, T) /\ t \in T => Same(d, ModEntry(e, t, k, x), T)
  BY DEF Same, ModEntry
LEMMA OnlyMod ==
  \A T, t, k, x : t \in T /\ db' = ModEntry(db, t, k, x) => Only(T)
  BY SameSelf, SameMod DEF Only
LEMMA SameDel ==
  \A d, e, T, t, K : Same(d, e, T) /\ t \in T => Same(d, DelEntries(e, t, K), T)
  BY DEF Same, DelEntries
LEMMA SameDelOne ==
  \A d, e, T, t, k : Same(d, e, T) /\ t \in T => Same(d, DelEntry(e, t, k), T)
  BY DEF Same, DelEntries, DelEntry
LEMMA SameDelTable ==
  \A d, e, T, t : Same(d, e, T) /\ t \in T => Same(d, DelTable(e, t), T)
  BY DEF Same, DelTable
LEMMA SameSetAll ==
  \A d, e, T, t, K, x : Same(d, e, T) /\ t \in T => Same(d, SetAll(e, t, K, x), T)
  BY DEF Same, SetAll
LEMMA SameWithoutField ==
  \A d, e, T, t, k, f : Same(d, e, T) /\ t \in T => Same(d, WithoutField(e, t, k, f), T)
  BY DEF Same, WithoutField
LEMMA SameRemoveFields ==
  \A d, e, T, t, k, F : Same(d, e, T) /\ t \in T => Same(d, RemoveFields(e, t, k, F), T)
  BY DEF Same, RemoveFields
LEMMA SamePutRules ==
  \A d, e, T, r, K : Same(d, e, T) /\ "ACL_RULE" \in T => Same(d, PutRules(e, r, K), T)
  BY DEF Same, PutRules
LEMMA SameUpdate ==
  \A d, f, x : Same(d, update_stp_vlan_parameter(d, f, x), StpTables)
  BY DEF Same, update_stp_vlan_parameter, StpTables
LEMMA SameDelBound ==
  \A d, T, f, v : InterfaceTables \subseteq T => Same(d, DelBound(d, f, v), T)
  BY DEF Same, DelBound

\* Every interface has one of the interface tables.
LEMMA InterfaceTable ==
  \A i \in Interfaces : get_interface_table_name(i) \in InterfaceTables
  BY DEF Interfaces, get_interface_table_name, InterfaceTables

\* config vlan add and del: the tables written.
LEMMA VlanFrame == VlanCommand => Only(VlanTables)
  <1> USE DEF Only, VlanTables
  <1>1. ASSUME NEW v, add_vlan(v) PROVE Only(VlanTables)
    BY <1>1, SameSelf, SameSet DEF add_vlan, vlan_enable_stp
  <1>2. ASSUME NEW v, NEW n, del_vlan(v, n) PROVE Only(VlanTables)
    BY <1>2, SameSelf, SameDel, SameDelOne DEF del_vlan, disable_stp_on_vlan
  <1> QED
    BY <1>1, <1>2 DEF VlanCommand

\* config vlan member: the tables written.
LEMMA MemberFrame == MemberCommand => Only(MemberTables)
  <1> USE DEF Only, MemberTables
  <1>1. ASSUME NEW v, NEW p, NEW u, add_vlan_member(v, p, u) PROVE Only(MemberTables)
    BY <1>1, SameSelf, SameSet DEF add_vlan_member, enable_stp_on_port,
      interface_enable_stp
  <1>2. ASSUME NEW v, NEW p, del_vlan_member(v, p) PROVE Only(MemberTables)
    BY <1>2, SameSelf, SameDelOne DEF del_vlan_member, disable_stp_on_vlan_port
  <1> QED
    BY <1>1, <1>2 DEF MemberCommand

\* config portchannel add and del: the tables written.
LEMMA PortchannelFrame == PortchannelCommand => Only(PortchannelTables)
  <1> USE DEF Only, PortchannelTables
  <1>1. ASSUME NEW c, NEW n, NEW f, NEW r, add_portchannel(c, n, f, r) PROVE
         Only(PortchannelTables)
    BY <1>1, SameSelf, SameSet DEF add_portchannel
  <1>2. ASSUME NEW c, remove_portchannel(c) PROVE Only(PortchannelTables)
    BY <1>2, SameSelf, SameDelOne DEF remove_portchannel
  <1> QED
    BY <1>1, <1>2 DEF PortchannelCommand

\* config portchannel member: the tables written.
LEMMA PortchannelMemberFrame == PortchannelMemberCommand => Only(PortchannelMemberTables)
  <1> USE DEF Only, PortchannelMemberTables
  <1>1. ASSUME NEW c, NEW p, add_portchannel_member(c, p) PROVE Only(PortchannelMemberTables)
    BY <1>1, SameSelf, SameSet DEF add_portchannel_member
  <1>2. ASSUME NEW c, NEW p, del_portchannel_member(c, p) PROVE Only(PortchannelMemberTables)
    BY <1>2, SameSelf, SameDelOne DEF del_portchannel_member
  <1> QED
    BY <1>1, <1>2 DEF PortchannelMemberCommand

\* config mirror_session: the tables written.
LEMMA MirrorFrame == MirrorCommand => Only(MirrorTables)
  <1> USE DEF Only, MirrorTables
  <1>1. ASSUME NEW s, NEW src, NEW x, add_erspan(s, src, x) PROVE Only(MirrorTables)
    BY <1>1, SameSelf, SameSet DEF add_erspan
  <1>2. ASSUME NEW s, NEW p, NEW src, NEW x, add_span(s, p, src, x) PROVE Only(MirrorTables)
    BY <1>2, SameSelf, SameSet DEF add_span
  <1>3. ASSUME NEW s, remove_mirror_session(s) PROVE Only(MirrorTables)
    BY <1>3, SameSelf, SameDelOne DEF remove_mirror_session
  <1> QED
    BY <1>1, <1>2, <1>3 DEF MirrorCommand

\* config interface storm-control: the tables written.
LEMMA StormFrame == StormCommand => Only(StormTables)
  <1> USE DEF Only, StormTables
  <1>1. ASSUME NEW p, NEW y, NEW n, storm_control_set_entry(p, y, n) PROVE Only(StormTables)
    BY <1>1, SameSelf, SameMod DEF storm_control_set_entry
  <1>2. ASSUME NEW p, NEW y, storm_control_delete_entry(p, y) PROVE Only(StormTables)
    BY <1>2, SameSelf, SameDelOne DEF storm_control_delete_entry
  <1> QED
    BY <1>1, <1>2 DEF StormCommand

\* config static-anycast-gateway mac_address: the tables written.
LEMMA MacFrame == MacCommand => Only(MacTables)
  <1> USE DEF Only, MacTables
  <1>1. ASSUME NEW m, add_mac(m) PROVE Only(MacTables)
    BY <1>1, SameSelf, SameSet DEF add_mac
  <1>2. ASSUME del_mac PROVE Only(MacTables)
    BY <1>2, SameSelf, SameDelOne DEF del_mac
  <1> QED
    BY <1>1, <1>2 DEF MacCommand

\* Parameters of ports and port channels: the tables written.
LEMMA PortFrame == PortCommand => Only(PortTables)
  <1> USE DEF Only, PortTables
  <1>1. ASSUME NEW p, NEW y, switchport_mode(y, p) PROVE Only(PortTables)
    BY <1>1, SameSelf, SameMod DEF switchport_mode, PortTable
  <1>2. ASSUME NEW p, NEW f, NEW x, SetPort(p, f, x) PROVE Only(PortTables)
    BY <1>2, SameSelf, SameMod DEF SetPort
  <1>3. ASSUME NEW p, NEW n, add_dhcp_mitigation_rate(p, n) PROVE Only(PortTables)
    BY <1>3, SameSelf, SameMod DEF add_dhcp_mitigation_rate
  <1>4. ASSUME NEW p, NEW n, del_dhcp_mitigation_rate(p, n) PROVE Only(PortTables)
    BY <1>4, SameSelf, SameMod DEF del_dhcp_mitigation_rate
  <1>5. ASSUME NEW p, NEW x, tpid(p, x) PROVE Only(PortTables)
    BY <1>5, SameSelf, SameMod DEF tpid, PortTable
  <1>6. ASSUME NEW N, NEW x, SetAdminStatus(N, x) PROVE Only(PortTables)
    BY <1>6, SameSelf DEF SetAdminStatus, Same
  <1>7. ASSUME NEW c, NEW m, add_pc_sys_id_mac(c, m) PROVE Only(PortTables)
    BY <1>7, SameSelf, SameMod DEF add_pc_sys_id_mac
  <1>8. ASSUME NEW c, NEW m, del_pc_sys_id_mac(c, m) PROVE Only(PortTables)
    BY <1>8, SameSelf DEF del_pc_sys_id_mac, Same, WithoutField
  <1>9. ASSUME NEW p, NEW x, speed(p, x) PROVE Only(PortTables)
    BY <1>9, <1>2 DEF speed
  <1>10. ASSUME NEW p, NEW x, mtu(p, x) PROVE Only(PortTables)
    BY <1>10, <1>2 DEF mtu
  <1>11. ASSUME NEW p, NEW x, fec(p, x) PROVE Only(PortTables)
    BY <1>11, <1>2 DEF fec
  <1>12. ASSUME NEW p, NEW x, interface_type(p, x) PROVE Only(PortTables)
    BY <1>12, <1>2 DEF interface_type
  <1>13. ASSUME NEW p, NEW x, dom(p, x) PROVE Only(PortTables)
    BY <1>13, <1>2 DEF dom
  <1>14. ASSUME NEW p, NEW x, fast_linkup(p, x) PROVE Only(PortTables)
    BY <1>14, <1>2 DEF fast_linkup
  <1>15. ASSUME NEW p, NEW x, advertised_speeds(p, x) PROVE Only(PortTables)
    BY <1>15, <1>2 DEF advertised_speeds
  <1>16. ASSUME NEW p, NEW x, advertised_types(p, x) PROVE Only(PortTables)
    BY <1>16, <1>2 DEF advertised_types
  <1>17. ASSUME NEW x, startup(x) PROVE Only(PortTables)
    BY <1>17, <1>6 DEF startup
  <1>18. ASSUME NEW x, shutdown(x) PROVE Only(PortTables)
    BY <1>18, <1>6 DEF shutdown
  <1> QED
    BY <1>1, <1>2, <1>3, <1>4, <1>5, <1>6, <1>7, <1>8, <1>9, <1>10, <1>11, <1>12, <1>13,
      <1>14, <1>15, <1>16, <1>17, <1>18 DEF PortCommand, frequency, tx_power,
      link_training, autoneg

\* config switch-fast-linkup: the tables written.
LEMMA FastLinkupFrame == FastLinkupCommand => Only(FastLinkupTables)
  <1> USE DEF Only, FastLinkupTables
  <1>1. ASSUME NEW x, switch_fast_linkup_global_cmd(x) PROVE Only(FastLinkupTables)
    BY <1>1, SameSelf, SameMod DEF switch_fast_linkup_global_cmd
  <1> QED
    BY <1>1 DEF FastLinkupCommand

\* config spanning_tree, global and of VLANs: the tables written.
LEMMA StpFrame == StpCommand => Only(StpTables)
  <1> USE DEF Only, StpTables
  <1>1. ASSUME NEW m, NEW o, spanning_tree_enable(m, o) PROVE Only(StpTables)
    BY <1>1, SameSelf, SameSet, SameSetAll DEF spanning_tree_enable,
      enable_stp_for_vlans, enable_stp_for_interfaces, enable_mst_instance0,
      enable_mst_for_interfaces
  <1>2. ASSUME NEW m, stp_disable(m) PROVE Only(StpTables)
    BY <1>2, SameSelf, SameDelOne, SameDelTable DEF stp_disable, disable_global_pvst,
      disable_global_mst
  <1>3. ASSUME NEW n, stp_global_root_guard_timeout(n) PROVE Only(StpTables)
    BY <1>3, SameSelf, SameMod DEF stp_global_root_guard_timeout
  <1>4. ASSUME NEW f, NEW n, SetGlobalTimer(f, n) PROVE Only(StpTables)
    BY <1>4, SameSelf, SameUpdate, SameMod DEF SetGlobalTimer
  <1>5. ASSUME NEW n, stp_global_priority(n) PROVE Only(StpTables)
    BY <1>5, SameSelf, SameUpdate, SameMod DEF stp_global_priority
  <1>6. ASSUME NEW f, NEW n, MstGlobal(f, n) PROVE Only(StpTables)
    BY <1>6, SameSelf, SameMod DEF MstGlobal
  <1>7. ASSUME NEW v, stp_vlan_enable(v) PROVE Only(StpTables)
    BY <1>7, SameSelf, SameMod, SameSet DEF stp_vlan_enable
  <1>8. ASSUME NEW v, stp_vlan_disable(v) PROVE Only(StpTables)
    BY <1>8, SameSelf, SameMod DEF stp_vlan_disable
  <1>9. ASSUME NEW v, NEW f, NEW n, SetVlanTimer(v, f, n) PROVE Only(StpTables)
    BY <1>9, SameSelf, SameMod DEF SetVlanTimer
  <1>10. ASSUME NEW v, NEW p, NEW e, SetVlanPort(v, p, e) PROVE Only(StpTables)
    BY <1>10, SameSelf, SameMod DEF SetVlanPort
  <1>11. ASSUME NEW n, stp_global_max_hops(n) PROVE Only(StpTables)
    BY <1>11, <1>6 DEF stp_global_max_hops
  <1>12. ASSUME NEW n, stp_global_revision(n) PROVE Only(StpTables)
    BY <1>12, <1>6 DEF stp_global_revision
  <1>13. ASSUME NEW v, NEW p, NEW n, stp_vlan_interface_priority(v, p, n) PROVE Only(StpTables)
    BY <1>13, <1>10 DEF stp_vlan_interface_priority
  <1>14. ASSUME NEW v, NEW p, NEW n, stp_vlan_interface_cost(v, p, n) PROVE Only(StpTables)
    BY <1>14, <1>10 DEF stp_vlan_interface_cost
  <1> QED
    BY <1>1, <1>2, <1>3, <1>4, <1>5, <1>6, <1>7, <1>8, <1>9, <1>10, <1>11, <1>12, <1>13,
      <1>14 DEF StpCommand, stp_global_forward_delay, stp_global_hello_interval,
      stp_global_max_age, stp_mst_region_name, stp_vlan_forward_delay,
      stp_vlan_hello_interval, stp_vlan_max_age, stp_vlan_priority

\* config spanning_tree interface and mst: the tables written.
LEMMA StpPortFrame == StpPortCommand => Only(StpPortTables)
  <1> USE DEF Only, StpPortTables
  <1>1. ASSUME NEW p, NEW f, NEW x, SetPvstPortFlag(p, f, x) PROVE Only(StpPortTables)
    BY <1>1, SameSelf, SameMod DEF SetPvstPortFlag
  <1>2. ASSUME NEW p, NEW x, mstp_interface_edge_port(p, x) PROVE Only(StpPortTables)
    BY <1>2, SameSelf, SameMod DEF mstp_interface_edge_port
  <1>3. ASSUME NEW p, NEW x, stp_interface_bpdu_guard_enable(p, x) PROVE Only(StpPortTables)
    BY <1>3, SameSelf, SameMod DEF stp_interface_bpdu_guard_enable
  <1>4. ASSUME NEW p, stp_interface_bpdu_guard_disable(p) PROVE Only(StpPortTables)
    BY <1>4, SameSelf, SameMod DEF stp_interface_bpdu_guard_disable
  <1>5. ASSUME NEW p, stp_interface_root_guard_enable(p) PROVE Only(StpPortTables)
    BY <1>5, SameSelf, SameMod DEF stp_interface_root_guard_enable
  <1>6. ASSUME NEW p, stp_interface_root_guard_disable(p) PROVE Only(StpPortTables)
    BY <1>6, SameSelf, SameMod DEF stp_interface_root_guard_disable
  <1>7. ASSUME NEW p, NEW n, stp_interface_priority(p, n) PROVE Only(StpPortTables)
    BY <1>7, SameSelf, SameMod DEF stp_interface_priority
  <1>8. ASSUME NEW p, NEW n, stp_interface_cost(p, n) PROVE Only(StpPortTables)
    BY <1>8, SameSelf, SameMod, SameSet DEF stp_interface_cost
  <1>9. ASSUME NEW p, NEW x, stp_interface_link_type_set(p, x) PROVE Only(StpPortTables)
    BY <1>9, SameSelf, SameMod DEF stp_interface_link_type_set
  <1>10. ASSUME NEW i, NEW p, NEW n, mst_instance_interface_priority(i, p, n) PROVE
         Only(StpPortTables)
    BY <1>10, SameSelf, SameMod DEF mst_instance_interface_priority
  <1>11. ASSUME NEW i, NEW p, NEW n, mst_instance_interface_cost(i, p, n) PROVE
         Only(StpPortTables)
    BY <1>11, SameSelf, SameMod DEF mst_instance_interface_cost
  <1>12. ASSUME NEW i, NEW n, mst_instance_priority(i, n) PROVE Only(StpPortTables)
    BY <1>12, SameSelf, SameMod DEF mst_instance_priority
  <1>13. ASSUME NEW i, NEW v, mst_instance_vlan_add(i, v) PROVE Only(StpPortTables)
    BY <1>13, SameSelf, SameMod DEF mst_instance_vlan_add
  <1>14. ASSUME NEW i, NEW v, mst_instance_vlan_del(i, v) PROVE Only(StpPortTables)
    BY <1>14, SameSelf, SameMod DEF mst_instance_vlan_del
  <1> QED
    BY <1>1, <1>2, <1>3, <1>4, <1>5, <1>6, <1>7, <1>8, <1>9, <1>10, <1>11, <1>12, <1>13,
      <1>14 DEF StpPortCommand, stp_interface_portfast_enable,
      stp_interface_portfast_disable, stp_interface_uplink_fast_enable,
      stp_interface_uplink_fast_disable

\* config interface ip: the tables written.
LEMMA AddressFrame == AddressCommand => Only(InterfaceTables)
  <1> USE DEF Only
  <1>1. ASSUME NEW i \in Interfaces, NEW a, NEW s, add_interface_ip(i, a, s) PROVE
         Only(InterfaceTables)
    BY <1>1, SameSelf, InterfaceTable, SameSet DEF add_interface_ip, SetIf
  <1>2. ASSUME NEW i \in Interfaces, NEW a, remove_interface_ip(i, a) PROVE
         Only(InterfaceTables)
    BY <1>2, SameSelf, InterfaceTable, SameDelOne DEF remove_interface_ip
  <1> QED
    BY <1>1, <1>2 DEF AddressCommand

\* Fields of router interfaces, loopbacks, sub-interfaces: the tables written.
LEMMA InterfaceFrame == InterfaceCommand => Only(InterfaceTables)
  <1> USE DEF Only
  <1>1. ASSUME NEW v, NEW m, config_proxy_arp(v, m) PROVE Only(InterfaceTables)
    BY <1>1, SameSelf, SameMod DEF config_proxy_arp, InterfaceTables
  <1>2. ASSUME NEW v, enable_vlan_sag(v) PROVE Only(InterfaceTables)
    BY <1>2, SameSelf, SameMod DEF enable_vlan_sag, InterfaceTables
  <1>3. ASSUME NEW v, disable_vlan_sag(v) PROVE Only(InterfaceTables)
    BY <1>3, SameSelf, SameMod DEF disable_vlan_sag, InterfaceTables
  <1>4. ASSUME NEW i \in Interfaces, NEW x, loopback_action(i, x) PROVE Only(InterfaceTables)
    BY <1>4, SameSelf, InterfaceTable, SameMod DEF loopback_action, ModIf
  <1>5. ASSUME NEW i \in Interfaces, NEW x, mpls(i, x) PROVE Only(InterfaceTables)
    BY <1>5, SameSelf, InterfaceTable, SameSet DEF mpls, SetIf
  <1>6. ASSUME NEW i \in Interfaces, NEW m, use_link_local_only(i, m) PROVE
         Only(InterfaceTables)
    BY <1>6, SameSelf, InterfaceTable, SameMod, SameDelOne DEF use_link_local_only,
      ModIf, set_ipv6_link_local_only_on_interface
  <1>7. ASSUME enable_link_local PROVE Only(InterfaceTables)
    BY <1>7, SameSelf DEF enable_link_local, Same
  <1>8. ASSUME disable_link_local PROVE Only(InterfaceTables)
    BY <1>8, SameSelf DEF disable_link_local, Same, InterfaceTables
  <1>9. ASSUME NEW l \in Loopbacks, add_loopback(l) PROVE Only(InterfaceTables)
    BY <1>9, SameSelf, InterfaceTable, SameSet DEF add_loopback, SetIf, Interfaces
  <1>10. ASSUME NEW l \in Loopbacks, del_loopback(l) PROVE Only(InterfaceTables)
    BY <1>10, SameSelf, InterfaceTable, SameDel, SameDelOne DEF del_loopback,
      RemoveAddresses, Interfaces, InterfaceTables
  <1>11. ASSUME NEW s \in SubInterfaces, NEW n, add_subinterface(s, n) PROVE
         Only(InterfaceTables)
    BY <1>11, SameSelf, InterfaceTable, SameSet DEF add_subinterface, SetIf, Interfaces
  <1>12. ASSUME NEW s \in SubInterfaces, del_subinterface(s) PROVE Only(InterfaceTables)
    BY <1>12, SameSelf, InterfaceTable, SameDel, SameDelOne DEF del_subinterface,
      RemoveAddresses, Interfaces, InterfaceTables
  <1>13. ASSUME NEW i \in Interfaces, NEW n, add_nat_interface(i, n) PROVE Only(InterfaceTables)
    BY <1>13, SameSelf, InterfaceTable, SameMod DEF add_nat_interface, ModIf
  <1>14. ASSUME NEW i \in Interfaces, remove_nat_interface(i) PROVE Only(InterfaceTables)
    BY <1>14, SameSelf, InterfaceTable, SameMod DEF remove_nat_interface, ModIf
  <1>15. ASSUME remove_interfaces PROVE Only(InterfaceTables)
    BY <1>15, SameSelf DEF remove_interfaces, Same
  <1> QED
    BY <1>1, <1>2, <1>3, <1>4, <1>5, <1>6, <1>7, <1>8, <1>9, <1>10, <1>11, <1>12, <1>13,
      <1>14, <1>15 DEF InterfaceCommand, Interfaces

\* config interface vrf: the tables written.
LEMMA BindFrame == BindCommand => Only(InterfaceTables)
  <1> USE DEF Only
  <1>1. ASSUME NEW i \in Interfaces, NEW v, bind(i, v) PROVE Only(InterfaceTables)
    BY <1>1, SameSelf, InterfaceTable, SameDel, SameSet DEF bind, SetIf, RemoveAddresses
  <1>2. ASSUME NEW i \in Interfaces, unbind(i) PROVE Only(InterfaceTables)
    BY <1>2, SameSelf, InterfaceTable, SameDel, SameDelOne, SameWithoutField DEF unbind,
      RemoveAddresses, InterfaceTables
  <1> QED
    BY <1>1, <1>2 DEF BindCommand

\* config vrf: the tables written.
LEMMA VrfFrame == VrfCommand => Only(VrfTables)
  <1> USE DEF Only, VrfTables
  <1>1. ASSUME NEW v, add_vrf(v) PROVE Only(VrfTables)
    BY <1>1, SameSelf, SameMod, SameSet DEF add_vrf
  <1>2. ASSUME NEW v, del_vrf(v) PROVE Only(VrfTables)
    BY <1>2, SameSelf, SameDelBound, SameMod, SameDelOne DEF del_vrf,
      del_interface_bind_to_vrf
  <1>3. ASSUME NEW v, del_vrf_vni_map(v) PROVE Only(VrfTables)
    BY <1>3, SameSelf, SameMod DEF del_vrf_vni_map
  <1>4. ASSUME NEW v, NEW n, add_vrf_vni_map(v, n) PROVE Only(VrfTables)
    BY <1>4, SameSelf, SameMod DEF add_vrf_vni_map
  <1> QED
    BY <1>1, <1>2, <1>3, <1>4 DEF VrfCommand

\* Addresses of the management port: the tables written.
LEMMA MgmtFrame == MgmtCommand => Only(MgmtTables)
  <1> USE DEF Only, MgmtTables
  <1>1. ASSUME NEW a, NEW g, add_mgmt_ip(a, g) PROVE Only(MgmtTables)
    BY <1>1, SameSelf, SameDel, SameSet DEF add_mgmt_ip
  <1>2. ASSUME NEW a, remove_mgmt_ip(a) PROVE Only(MgmtTables)
    BY <1>2, SameSelf, SameDelOne DEF remove_mgmt_ip
  <1> QED
    BY <1>1, <1>2 DEF MgmtCommand

\* config interface vrrp and vrrp6: the tables written.
LEMMA VrrpFrame == VrrpCommand => Only(VrrpTables)
  <1> USE DEF Only, VrrpTables
  <1>1. ASSUME NEW t \in {"VRRP", "VRRP6"}, NEW i, NEW n, add_vrrp(t, i, n) PROVE
         Only(VrrpTables)
    BY <1>1, SameSelf, SameSet DEF add_vrrp
  <1>2. ASSUME NEW t \in {"VRRP", "VRRP6"}, NEW i, NEW n, remove_vrrp(t, i, n) PROVE
         Only(VrrpTables)
    BY <1>2, SameSelf, SameDelOne DEF remove_vrrp
  <1>3. ASSUME NEW t \in {"VRRP", "VRRP6"}, NEW i, NEW n, NEW a, add_vrrp_ip(t, i, n, a) PROVE
         Only(VrrpTables)
    BY <1>3, SameSelf, SameMod DEF add_vrrp_ip
  <1>4. ASSUME NEW t \in {"VRRP", "VRRP6"}, NEW i, NEW n, NEW a, remove_vrrp_ip(t, i, n, a)
         PROVE Only(VrrpTables)
    BY <1>4, SameSelf, SameMod DEF remove_vrrp_ip
  <1>5. ASSUME NEW t \in {"VRRP", "VRRP6"}, NEW i, NEW n, NEW x, NEW m, add_track_interface(t,
         i, n, x, m) PROVE Only(VrrpTables)
    BY <1>5, SameSelf, SameMod DEF add_track_interface, VrrpTrack
  <1>6. ASSUME NEW t \in {"VRRP", "VRRP6"}, NEW i, NEW n, NEW x, remove_track_interface(t, i, n,
         x) PROVE Only(VrrpTables)
    BY <1>6, SameSelf, SameDelOne DEF remove_track_interface, VrrpTrack
  <1>7. ASSUME NEW t \in {"VRRP", "VRRP6"}, NEW i, NEW n, NEW e, SetVrrp(t, i, n, e) PROVE
         Only(VrrpTables)
    BY <1>7, SameSelf, SameMod DEF SetVrrp
  <1>8. ASSUME NEW t \in {"VRRP", "VRRP6"}, NEW i, NEW n, NEW x,
               \/ vrrp_priority(t, i, n, x) \/ adv_interval(t, i, n, x) \/ pre_empt(t, i, n, x)
               \/ vrrp_version(i, n, x)
        PROVE  Only(VrrpTables)
    BY <1>7, <1>8 DEF vrrp_priority, adv_interval, pre_empt, vrrp_version
  <1> HIDE DEF Only, VrrpTables
  <1> QED
    BY <1>1, <1>2, <1>3, <1>4, <1>5, <1>6, <1>8 DEF VrrpCommand

\* config route: the tables written.
LEMMA RouteFrame == RouteCommand => Only(RouteTables)
  <1> USE DEF Only, RouteTables
  <1>1. ASSUME NEW v, NEW p, NEW h, add_route(v, p, h) PROVE Only(RouteTables)
    BY <1>1, SameSelf, SameSet DEF add_route
  <1>2. ASSUME NEW v, NEW p, NEW h, del_route(v, p, h) PROVE Only(RouteTables)
    BY <1>2, SameSelf, SameSet, SameDelOne DEF del_route
  <1> QED
    BY <1>1, <1>2 DEF RouteCommand

\* config vxlan: the tables written.
LEMMA VxlanFrame == VxlanCommand => Only(VxlanTables)
  <1> USE DEF Only, VxlanTables
  <1>1. ASSUME NEW t, add_vxlan(t) PROVE Only(VxlanTables)
    BY <1>1, SameSelf, SameSet DEF add_vxlan
  <1>2. ASSUME NEW t, del_vxlan(t) PROVE Only(VxlanTables)
    BY <1>2, SameSelf, SameDelOne DEF del_vxlan
  <1>3. ASSUME NEW n, NEW t, add_vxlan_evpn_nvo(n, t) PROVE Only(VxlanTables)
    BY <1>3, SameSelf, SameSet DEF add_vxlan_evpn_nvo
  <1>4. ASSUME NEW n, del_vxlan_evpn_nvo(n) PROVE Only(VxlanTables)
    BY <1>4, SameSelf, SameDelOne DEF del_vxlan_evpn_nvo
  <1>5. ASSUME NEW t, NEW v, NEW n, add_vxlan_map(t, v, n) PROVE Only(VxlanTables)
    BY <1>5, SameSelf, SameSet DEF add_vxlan_map
  <1>6. ASSUME NEW t, NEW v, NEW n, del_vxlan_map(t, v, n) PROVE Only(VxlanTables)
    BY <1>6, SameSelf, SameDelOne DEF del_vxlan_map
  <1>7. ASSUME NEW t, NEW x, NEW y, NEW n, add_vxlan_map_range(t, x, y, n) PROVE
         Only(VxlanTables)
    BY <1>7, SameSelf DEF add_vxlan_map_range, Same
  <1>8. ASSUME NEW t, NEW x, NEW y, NEW n, del_vxlan_map_range(t, x, y, n) PROVE
         Only(VxlanTables)
    BY <1>8, SameSelf, SameDel DEF del_vxlan_map_range
  <1> QED
    BY <1>1, <1>2, <1>3, <1>4, <1>5, <1>6, <1>7, <1>8 DEF VxlanCommand

\* config vnet: the tables written.
LEMMA VnetFrame == VnetCommand => Only(VnetTables)
  <1> USE DEF Only, VnetTables
  <1>1. ASSUME NEW n, NEW m, NEW t, NEW p, add_vnet(n, m, t, p) PROVE Only(VnetTables)
    BY <1>1, SameSelf, SameSet DEF add_vnet
  <1>2. ASSUME NEW n, del_vnet(n) PROVE Only(VnetTables)
    BY <1>2, SameSelf, SameDelBound, SameDel, SameDelOne DEF del_vnet,
      del_route_bind_to_vnet, del_interface_bind_to_vnet
  <1>3. ASSUME NEW n, NEW p, NEW e, add_vnet_route(n, p, e) PROVE Only(VnetTables)
    BY <1>3, SameSelf, SameSet DEF add_vnet_route
  <1>4. ASSUME NEW n, NEW p, del_vnet_route(n, p) PROVE Only(VnetTables)
    BY <1>4, SameSelf, SameDel, SameDelOne DEF del_vnet_route, del_route_bind_to_vnet
  <1> QED
    BY <1>1, <1>2, <1>3, <1>4 DEF VnetCommand

\* config mclag: the tables written.
LEMMA MclagFrame == MclagCommand => Only(MclagTables)
  <1> USE DEF Only, MclagTables
  <1>1. ASSUME NEW k, NEW p, add_mclag_domain(k, p) PROVE Only(MclagTables)
    BY <1>1, SameSelf, SameMod DEF add_mclag_domain
  <1>2. ASSUME NEW k, del_mclag_domain(k) PROVE Only(MclagTables)
    BY <1>2, SameSelf, SameDel, SameDelOne DEF del_mclag_domain
  <1>3. ASSUME NEW k, NEW s, config_mclag_keepalive_timer(k, s) PROVE Only(MclagTables)
    BY <1>3, SameSelf, SameMod DEF config_mclag_keepalive_timer
  <1>4. ASSUME NEW k, NEW s, config_mclag_session_timeout(k, s) PROVE Only(MclagTables)
    BY <1>4, SameSelf, SameMod DEF config_mclag_session_timeout
  <1>5. ASSUME NEW k, NEW c, add_mclag_member(k, c) PROVE Only(MclagTables)
    BY <1>5, SameSelf, SameSet DEF add_mclag_member
  <1>6. ASSUME NEW k, NEW c, del_mclag_member(k, c) PROVE Only(MclagTables)
    BY <1>6, SameSelf, SameDelOne DEF del_mclag_member
  <1>7. ASSUME NEW v, add_mclag_unique_ip(v) PROVE Only(MclagTables)
    BY <1>7, SameSelf, SameSet DEF add_mclag_unique_ip
  <1>8. ASSUME NEW v, del_mclag_unique_ip(v) PROVE Only(MclagTables)
    BY <1>8, SameSelf, SameDelOne DEF del_mclag_unique_ip
  <1> QED
    BY <1>1, <1>2, <1>3, <1>4, <1>5, <1>6, <1>7, <1>8 DEF MclagCommand

\* config evpn-mh and Ethernet segments: the tables written.
LEMMA EvpnFrame == EvpnCommand => Only(EvpnTables)
  <1>0. "EVPN_MH_GLOBAL" \in EvpnTables /\ "EVPN_ETHERNET_SEGMENT" \in EvpnTables
    BY DEF EvpnTables
  <1>1. ASSUME NEW n, set_startup_delay(n) PROVE Only(EvpnTables)
    <2>1. db' = ModEntry(db, "EVPN_MH_GLOBAL", "default", [startup_delay |-> n])
      BY <1>1, Zenon DEF set_startup_delay
    <2> QED
      BY <2>1, <1>0, OnlyMod, Zenon
  <1>2. ASSUME NEW n, set_mac_holdtime(n) PROVE Only(EvpnTables)
    <2>1. db' = ModEntry(db, "EVPN_MH_GLOBAL", "default", [mac_holdtime |-> n])
      BY <1>2, Zenon DEF set_mac_holdtime
    <2> QED
      BY <2>1, <1>0, OnlyMod, Zenon
  <1>3. ASSUME NEW n, set_neigh_holdtime(n) PROVE Only(EvpnTables)
    <2>1. db' = ModEntry(db, "EVPN_MH_GLOBAL", "default", [neigh_holdtime |-> n])
      BY <1>3, Zenon DEF set_neigh_holdtime
    <2> QED
      BY <2>1, <1>0, OnlyMod, Zenon
  <1>4. ASSUME NEW i, NEW e, add_evpn_es(i, e) PROVE Only(EvpnTables)
    BY <1>4, <1>0, SameSelf, SameSet DEF add_evpn_es, Only
  <1>5. ASSUME NEW i, del_evpn_es(i) PROVE Only(EvpnTables)
    BY <1>5, <1>0, SameSelf, SameDelOne DEF del_evpn_es, Only
  <1>6. ASSUME NEW i, NEW n, evpn_df_pref(i, n) PROVE Only(EvpnTables)
    <2>1. db' = ModEntry(db, "EVPN_ETHERNET_SEGMENT", i, [df_pref |-> n])
      BY <1>6, Zenon DEF evpn_df_pref
    <2> QED
      BY <2>1, <1>0, OnlyMod, Zenon
  <1> QED
    BY <1>1, <1>2, <1>3, <1>4, <1>5, <1>6, Zenon DEF EvpnCommand

\* config nvgre-tunnel: the tables written.
LEMMA NvgreFrame == NvgreCommand => Only(NvgreTables)
  <1> USE DEF Only, NvgreTables
  <1>1. ASSUME NEW t, NVGRE_TUNNEL_add(t) PROVE Only(NvgreTables)
    BY <1>1, SameSelf, SameSet DEF NVGRE_TUNNEL_add, add_entry_validated
  <1>2. ASSUME NEW t, NVGRE_TUNNEL_delete(t) PROVE Only(NvgreTables)
    BY <1>2, SameSelf, SameDelOne DEF NVGRE_TUNNEL_delete, del_entry_validated
  <1>3. ASSUME NEW t, NEW m, NEW v, NEW n, NVGRE_TUNNEL_MAP_add(t, m, v, n) PROVE
         Only(NvgreTables)
    BY <1>3, SameSelf, SameSet DEF NVGRE_TUNNEL_MAP_add, add_entry_validated
  <1>4. ASSUME NEW t, NEW m, NVGRE_TUNNEL_MAP_delete(t, m) PROVE Only(NvgreTables)
    BY <1>4, SameSelf, SameDelOne DEF NVGRE_TUNNEL_MAP_delete, del_entry_validated
  <1> QED
    BY <1>1, <1>2, <1>3, <1>4 DEF NvgreCommand

\* config acl add and remove table: the tables written.
LEMMA AclFrame == AclCommand => Only(AclTableTables)
  <1> USE DEF Only, AclTableTables
  <1>1. ASSUME NEW t, NEW y, NEW p, NEW s, add_table(t, y, p, s) PROVE Only(AclTableTables)
    BY <1>1, SameSelf, SameSet DEF add_table
  <1>2. ASSUME NEW t, remove_table(t) PROVE Only(AclTableTables)
    BY <1>2, SameSelf, SameDelOne DEF remove_table
  <1> QED
    BY <1>1, <1>2 DEF AclCommand

\* acl-loader: the tables written.
LEMMA AclRuleFrame == AclRuleCommand => Only(AclRuleTables)
  <1> USE DEF Only, AclRuleTables
  <1>1. ASSUME NEW f, NEW t, full_update(f, t) PROVE Only(AclRuleTables)
    BY <1>1, SameSelf DEF full_update, FullUpdate, Same
  <1>2. ASSUME NEW f, incremental_update(f) PROVE Only(AclRuleTables)
    BY <1>2, SameSelf, SameDel, SamePutRules DEF incremental_update, IncrementalUpdate
  <1>3. ASSUME NEW t, NEW n, delete_rules(t, n) PROVE Only(AclRuleTables)
    BY <1>3, SameSelf, SameDel DEF delete_rules
  <1> QED
    BY <1>1, <1>2, <1>3 DEF AclRuleCommand

\* config pbh table and hash: the tables written.
LEMMA PbhFrame == PbhCommand => Only(PbhTables)
  <1> USE DEF Only, PbhTables
  <1>1. ASSUME NEW t \in {"PBH_TABLE", "PBH_HASH"}, NEW k, NEW e, add_entry(t, k, e) PROVE
         Only(PbhTables)
    BY <1>1, SameSelf, SameSet DEF add_entry
  <1>2. ASSUME NEW t \in {"PBH_TABLE", "PBH_HASH"}, NEW k, NEW e, update_entry(t, k, e) PROVE
         Only(PbhTables)
    BY <1>2, SameSelf, SameMod DEF update_entry
  <1>3. ASSUME NEW t \in {"PBH_TABLE", "PBH_HASH"}, NEW k, del_entry(t, k) PROVE Only(PbhTables)
    BY <1>3, SameSelf, SameDelOne DEF del_entry
  <1> QED
    BY <1>1, <1>2, <1>3 DEF PbhCommand, PBH_TABLE_add, PBH_TABLE_update,
      PBH_TABLE_delete, PBH_HASH_add, PBH_HASH_update, PBH_HASH_delete

\* config pbh hash-field: the tables written.
LEMMA PbhFieldFrame == PbhFieldCommand => Only(PbhFieldTables)
  <1> USE DEF Only, PbhFieldTables
  <1>1. ASSUME NEW n, NEW f, NEW m, PBH_HASH_FIELD_add(n, f, m) PROVE Only(PbhFieldTables)
    BY <1>1, SameSelf, SameSet DEF PBH_HASH_FIELD_add, add_entry
  <1>2. ASSUME NEW n, NEW f, NEW m, PBH_HASH_FIELD_update(n, f, m) PROVE Only(PbhFieldTables)
    BY <1>2, SameSelf, SameMod DEF PBH_HASH_FIELD_update, update_entry
  <1>3. ASSUME NEW n, PBH_HASH_FIELD_delete(n) PROVE Only(PbhFieldTables)
    BY <1>3, SameSelf, SameDelOne DEF PBH_HASH_FIELD_delete, del_entry
  <1> QED
    BY <1>1, <1>2, <1>3 DEF PbhFieldCommand

\* config pbh rule and the counters: the tables written.
LEMMA PbhRuleFrame == PbhRuleCommand => Only(PbhRuleTables)
  <1> USE DEF Only, PbhRuleTables
  <1>1. ASSUME NEW t, NEW r, NEW e, PBH_RULE_add(t, r, e) PROVE Only(PbhRuleTables)
    BY <1>1, SameSelf, SameSet DEF PBH_RULE_add, add_entry
  <1>2. ASSUME NEW t, NEW r, NEW e, PBH_RULE_update_field_set(t, r, e) PROVE Only(PbhRuleTables)
    BY <1>2, SameSelf, SameMod, SameDelOne DEF PBH_RULE_update_field_set, DropCounters
  <1>3. ASSUME NEW t, NEW r, NEW F, PBH_RULE_update_field_del(t, r, F) PROVE Only(PbhRuleTables)
    BY <1>3, SameSelf, SameRemoveFields, SameDelOne DEF PBH_RULE_update_field_del,
      DropCounters
  <1>4. ASSUME NEW t, NEW r, PBH_RULE_delete(t, r) PROVE Only(PbhRuleTables)
    BY <1>4, SameSelf, SameDelOne DEF PBH_RULE_delete, DropCounters
  <1>5. ASSUME clear_pbh_counters PROVE Only(PbhRuleTables)
    BY <1>5, SameSelf DEF clear_pbh_counters, Same
  <1> QED
    BY <1>1, <1>2, <1>3, <1>4, <1>5 DEF PbhRuleCommand

\* config nat add and remove static: the tables written.
LEMMA NatStaticFrame == NatStaticCommand => Only(NatStaticTables)
  <1> USE DEF Only, NatStaticTables
  <1>1. ASSUME NEW g, NEW l, NEW x, NEW n, add_basic(g, l, x, n) PROVE Only(NatStaticTables)
    BY <1>1, SameSelf, SameSet DEF add_basic
  <1>2. ASSUME NEW t \in {"STATIC_NAT", "STATIC_NAPT"}, NEW k, NEW l, NEW n, RemoveStatic(t, k,
         l, n) PROVE Only(NatStaticTables)
    BY <1>2, SameSelf, SameDelOne DEF RemoveStatic
  <1>3. ASSUME NEW p, NEW g, NEW gp, NEW l, NEW lp, NEW x, NEW n, AddNapt(p, g, gp, l, lp, x, n)
         PROVE Only(NatStaticTables)
    BY <1>3, SameSelf, SameSet DEF AddNapt
  <1>4. ASSUME remove_static_all PROVE Only(NatStaticTables)
    BY <1>4, SameSelf, SameDelTable DEF remove_static_all
  <1> QED
    BY <1>1, <1>2, <1>3, <1>4 DEF NatStaticCommand, remove_basic, add_tcp, add_udp,
      remove_tcp, remove_udp

\* config nat add and remove pool: the tables written.
LEMMA NatPoolFrame == NatPoolCommand => Only(NatPoolTables)
  <1> USE DEF Only, NatPoolTables
  <1>1. ASSUME NEW p, NEW x, NEW y, add_pool(p, x, y) PROVE Only(NatPoolTables)
    BY <1>1, SameSelf, SameSet DEF add_pool
  <1>2. ASSUME NEW p, remove_pool(p) PROVE Only(NatPoolTables)
    BY <1>2, SameSelf, SameDelOne DEF remove_pool
  <1>3. ASSUME remove_pools PROVE Only(NatPoolTables)
    BY <1>3, SameSelf, SameDel DEF remove_pools
  <1> QED
    BY <1>1, <1>2, <1>3 DEF NatPoolCommand

\* Bindings, the feature and the timeouts of NAT: the tables written.
LEMMA NatOtherFrame == NatOtherCommand => Only(NatOtherTables)
  <1> USE DEF Only, NatOtherTables
  <1>1. ASSUME NEW b, NEW p, NEW n, add_binding(b, p, n) PROVE Only(NatOtherTables)
    BY <1>1, SameSelf, SameSet DEF add_binding
  <1>2. ASSUME NEW b, remove_binding(b) PROVE Only(NatOtherTables)
    BY <1>2, SameSelf, SameDelOne DEF remove_binding
  <1>3. ASSUME NEW f, NEW x, SetNat(f, x) PROVE Only(NatOtherTables)
    BY <1>3, SameSelf, SameMod DEF SetNat
  <1> QED
    BY <1>1, <1>2, <1>3 DEF NatOtherCommand, nat_feature, nat_set_timeout,
      nat_reset_timeout
---------------------------------------------------------------------------
(* Commands whose tables no invariant below looks at.                      *)
QuietCommand ==
  \/ StormCommand \/ MacCommand \/ FastLinkupCommand \/ StpPortCommand \/ MgmtCommand
  \/ RouteCommand \/ EvpnCommand \/ NvgreCommand \/ AclRuleCommand \/ PbhCommand \/ NatOtherCommand
QuietTables ==
  StormTables \cup MacTables \cup FastLinkupTables \cup StpPortTables \cup MgmtTables \cup
  RouteTables \cup EvpnTables \cup NvgreTables \cup AclRuleTables \cup PbhTables \cup NatOtherTables

\* What they write.
LEMMA QuietFrame == QuietCommand => Only(QuietTables)
  <1>1. \A T \in SUBSET QuietTables : Only(T) => Only(QuietTables)
    BY DEF Only, Same
  <1> QED
    BY <1>1, StormFrame, MacFrame, FastLinkupFrame, StpPortFrame, MgmtFrame, RouteFrame, EvpnFrame,
       NvgreFrame, AclRuleFrame, PbhFrame, NatOtherFrame DEF QuietCommand, QuietTables

\* The kinds of commands, the quiet ones together.
LEMMA Commands ==
  SwitchingNext =>
    \/ VlanCommand \/ MemberCommand \/ PortchannelCommand \/ PortchannelMemberCommand
    \/ MirrorCommand \/ PortCommand \/ StpCommand \/ AddressCommand \/ InterfaceCommand
    \/ BindCommand \/ VrfCommand \/ VrrpCommand \/ VxlanCommand \/ VnetCommand \/ MclagCommand
    \/ AclCommand \/ PbhFieldCommand \/ PbhRuleCommand \/ NatStaticCommand \/ NatPoolCommand
    \/ QuietCommand
  BY DEF SwitchingNext, SwitchCommand, RouterCommand, OverlayCommand, TrafficCommand, QuietCommand

---------------------------------------------------------------------------
(* What an operation of the database does to the table it writes.          *)
LEMMA SetEntryTable ==
  ASSUME NEW d, NEW t \in DOMAIN d, NEW k, NEW e
  PROVE  /\ DOMAIN SetEntry(d, t, k, e)[t] = DOMAIN d[t] \cup {k}
         /\ SetEntry(d, t, k, e)[t][k] = e
         /\ \A j \in DOMAIN d[t] : j # k => SetEntry(d, t, k, e)[t][j] = d[t][j]
         /\ \A u \in DOMAIN d : u # t => SetEntry(d, t, k, e)[u] = d[u]
         /\ DOMAIN SetEntry(d, t, k, e) = DOMAIN d
  BY DEF SetEntry, Put
\* mod_entry: the keys of the table, the other entries, the other tables.
LEMMA ModEntryTable ==
  ASSUME NEW d, NEW t \in DOMAIN d, NEW k, NEW e
  PROVE  /\ DOMAIN ModEntry(d, t, k, e)[t] = DOMAIN d[t] \cup {k}
         /\ \A j \in DOMAIN d[t] : j # k => ModEntry(d, t, k, e)[t][j] = d[t][j]
         /\ \A u \in DOMAIN d : u # t => ModEntry(d, t, k, e)[u] = d[u]
         /\ DOMAIN ModEntry(d, t, k, e) = DOMAIN d
  BY DEF ModEntry, Put
\* mod_entry: a field of the entry.
LEMMA ModEntryField ==
  ASSUME NEW d, NEW t \in DOMAIN d, NEW k, NEW e, NEW f, NEW x
  PROVE  Field(ModEntry(d, t, k, e), t, k, f, x) = IF f \in DOMAIN e THEN e[f] ELSE Field(d, t, k, f, x)
  BY DEF ModEntry, Put, Over, Field
\* Deleting entries.
LEMMA DelEntriesTable ==
  ASSUME NEW d, NEW t \in DOMAIN d, NEW K
  PROVE  /\ DOMAIN DelEntries(d, t, K)[t] = DOMAIN d[t] \ K
         /\ \A j \in DOMAIN d[t] \ K : DelEntries(d, t, K)[t][j] = d[t][j]
         /\ \A u \in DOMAIN d : u # t => DelEntries(d, t, K)[u] = d[u]
         /\ DOMAIN DelEntries(d, t, K) = DOMAIN d
  BY DEF DelEntries
\* Deleting one.
LEMMA DelEntryTable ==
  ASSUME NEW d, NEW t \in DOMAIN d, NEW k
  PROVE  /\ DOMAIN DelEntry(d, t, k)[t] = DOMAIN d[t] \ {k}
         /\ \A j \in DOMAIN d[t] \ {k} : DelEntry(d, t, k)[t][j] = d[t][j]
         /\ \A u \in DOMAIN d : u # t => DelEntry(d, t, k)[u] = d[u]
         /\ DOMAIN DelEntry(d, t, k) = DOMAIN d
  BY DelEntriesTable DEF DelEntry

---------------------------------------------------------------------------
SwitchTypeOK ==
  /\ DOMAIN db = Tables
  /\ DOMAIN db["PORT"] = Ports
  /\ DOMAIN db["PORTCHANNEL"] \subseteq PortChannels
  /\ DOMAIN db["VLAN"] \subseteq Vlans

\* The tables the invariants look at exist.
LEMMA TableNames ==
  /\ {"PORT", "VLAN", "VLAN_MEMBER", "PORTCHANNEL", "PORTCHANNEL_MEMBER", "MIRROR_SESSION",
      "ACL_TABLE", "PBH_TABLE", "VRF", "VNET", "VXLAN_TUNNEL", "VXLAN_TUNNEL_MAP", "STP", "VRRP",
      "VRRP6", "MCLAG_DOMAIN", "STATIC_NAT", "STATIC_NAPT", "NAT_POOL", "PBH_HASH_FIELD", "PBH_RULE",
      "PBH_COUNTERS", "ACL_RULE", "STP_VLAN", "STP_VLAN_PORT", "STP_PORT", "DHCP_RELAY"} \subseteq Tables
  /\ InterfaceTables \subseteq Tables
  BY DEF Tables, StpTables, L2Tables, L3Tables, OverlayTables, AclTablesOfDb, NatTables

MembershipTables == {"PORT", "PORTCHANNEL", "VLAN", "VLAN_MEMBER", "PORTCHANNEL_MEMBER"}
MembershipInv == SwitchTypeOK /\ MembersExist

\* Entries may change; the names in the five tables stay.
LEMMA MembershipStable ==
  ASSUME MembershipInv, DOMAIN db' = Tables, \A t \in MembershipTables : DOMAIN db'[t] = DOMAIN db[t]
  PROVE  MembershipInv'
  BY DEF MembershipInv, SwitchTypeOK, MembersExist, MembershipTables, Keys, Has, is_valid_port,
         is_valid_portchannel

\* A command that writes none of the five tables.
LEMMA MembershipElsewhere ==
  \A T : MembershipInv /\ Only(T) /\ (\A t \in MembershipTables : t \notin T) => MembershipInv'
  BY MembershipStable, TableNames DEF Only, Same, MembershipInv, SwitchTypeOK, MembershipTables

\* Commands on ports change entries and neither add nor delete any.
LEMMA PortKeys ==
  ASSUME SwitchTypeOK, PortCommand
  PROVE  DOMAIN db'["PORT"] = DOMAIN db["PORT"] /\ DOMAIN db'["PORTCHANNEL"] = DOMAIN db["PORTCHANNEL"]
  <1> DEFINE Kept == /\ DOMAIN db'["PORT"] = DOMAIN db["PORT"]
                     /\ DOMAIN db'["PORTCHANNEL"] = DOMAIN db["PORTCHANNEL"]
  <1> USE TableNames DEF SwitchTypeOK, Has, is_valid_port, is_valid_portchannel
  <1>1. ASSUME NEW t \in {"PORT", "PORTCHANNEL"}, NEW p, p \in DOMAIN db[t], NEW e, db' = ModEntry(db, t, p, e)
        PROVE  Kept
    <2>1. t \in DOMAIN db /\ DOMAIN db[t] \cup {p} = DOMAIN db[t]
      BY <1>1
    <2>2. DOMAIN db'[t] = DOMAIN db[t]
      BY <1>1, <2>1 DEF ModEntry, Put
    <2>2a. \A u \in DOMAIN db : u # t => db'[u] = db[u]
      BY <1>1, <2>1 DEF ModEntry
    <2>3. CASE t = "PORT"
      BY <2>2, <2>2a, <2>3
    <2>4. CASE t = "PORTCHANNEL"
      BY <2>2, <2>2a, <2>4
    <2> QED
      BY <2>3, <2>4
  <1>2. ASSUME NEW p \in Ports \cup PortChannels, NEW y, switchport_mode(y, p) PROVE Kept
    BY <1>2, <1>1, InterfaceNames DEF switchport_mode, PortTable
  <1>3. ASSUME NEW p \in Ports, NEW f, NEW x, SetPort(p, f, x) PROVE Kept
    BY <1>3, <1>1 DEF SetPort
  <1>4. ASSUME NEW p \in Ports, NEW n, add_dhcp_mitigation_rate(p, n) \/ del_dhcp_mitigation_rate(p, n)
        PROVE  Kept
    BY <1>4, <1>1 DEF add_dhcp_mitigation_rate, del_dhcp_mitigation_rate
  <1>5. ASSUME NEW p \in Ports \cup PortChannels, NEW x, tpid(p, x) PROVE Kept
    BY <1>5, <1>1 DEF tpid, PortTable
  <1>6. ASSUME NEW N, NEW x, SetAdminStatus(N, x) PROVE Kept
    BY <1>6 DEF SetAdminStatus
  <1>7. ASSUME NEW c, NEW m, add_pc_sys_id_mac(c, m) PROVE Kept
    BY <1>7, <1>1 DEF add_pc_sys_id_mac
  <1>8. ASSUME NEW c, NEW m, del_pc_sys_id_mac(c, m) PROVE Kept
    BY <1>8 DEF del_pc_sys_id_mac, WithoutField
  <1>9. ASSUME NEW p \in Ports, NEW x,
               \/ speed(p, x) \/ mtu(p, x) \/ fec(p, x) \/ interface_type(p, x) \/ dom(p, x)
               \/ fast_linkup(p, x) \/ advertised_speeds(p, x) \/ advertised_types(p, x)
               \/ frequency(p, x) \/ tx_power(p, x) \/ link_training(p, x) \/ autoneg(p, x)
        PROVE  \E f, y : SetPort(p, f, y)
    BY <1>9 DEF speed, mtu, fec, interface_type, dom, fast_linkup, advertised_speeds, advertised_types,
                frequency, tx_power, link_training, autoneg
  <1>10. ASSUME NEW x, startup(x) \/ shutdown(x) PROVE Kept
    BY <1>10, <1>6 DEF startup, shutdown
  <1> QED
    BY <1>2, <1>3, <1>4, <1>5, <1>7, <1>8, <1>9, <1>10 DEF PortCommand

\* config vlan del, with what it does to the relay and to spanning tree.
LEMMA DelVlanKeys ==
  ASSUME SwitchTypeOK, NEW v, NEW n, del_vlan(v, n)
  PROVE  DOMAIN db'["VLAN"] = DOMAIN db["VLAN"] \ {v}
  <1> USE TableNames DEF SwitchTypeOK
  <1> DEFINE d == DelEntry(db, "VLAN", v)
             e == IF is_dhcpv6_relay_config_exist(d, v) THEN DelEntry(d, "DHCP_RELAY", v) ELSE d
  <1>1. DOMAIN d["VLAN"] = DOMAIN db["VLAN"] \ {v} /\ DOMAIN d = DOMAIN db
    BY DelEntryTable
  <1>2. e["VLAN"] = d["VLAN"] /\ DOMAIN e = DOMAIN db
    BY <1>1, DelEntryTable
  <1> HIDE DEF d, e
  <1>3. Same(e, disable_stp_on_vlan(e, v), {"STP_VLAN", "STP_VLAN_PORT"})
    BY SameSelf, SameDel, SameDelOne DEF disable_stp_on_vlan
  <1>4. db' = disable_stp_on_vlan(e, v)
    BY DEF del_vlan, d, e
  <1> QED
    BY <1>1, <1>2, <1>3, <1>4 DEF Same

\* No command leaves a membership of something that is gone.
LEMMA MembershipStep == MembershipInv /\ [SwitchingNext]_db => MembershipInv'
  <1> SUFFICES ASSUME MembershipInv, [SwitchingNext]_db PROVE MembershipInv'
    OBVIOUS
  <1> USE TableNames DEF MembershipInv, SwitchTypeOK, MembershipTables
  <1> USE DEF Keys, Has, is_valid_port, is_valid_portchannel, MembersExist
  <1>1. CASE VlanCommand
    <2>1. Only(VlanTables)
      BY <1>1, VlanFrame
    <2>2. ASSUME NEW v \in Vlans, add_vlan(v) PROVE MembershipInv'
      <3>1. Same(db, vlan_enable_stp(db, v), {"STP_VLAN"})
        BY SameSelf, SameSet DEF vlan_enable_stp
      <3>2. DOMAIN db'["VLAN"] = DOMAIN db["VLAN"] \cup {v}
        BY <2>2, <3>1, SetEntryTable DEF add_vlan, Same
      <3> QED
        BY <2>1, <3>2 DEF Only, Same, VlanTables
    <2>3. ASSUME NEW v \in Vlans, NEW n, del_vlan(v, n) PROVE MembershipInv'
      <3>1. /\ \A k \in DOMAIN db["VLAN_MEMBER"] : k[1] # v
            /\ DOMAIN db'["VLAN"] = DOMAIN db["VLAN"] \ {v}
        BY <2>3, DelVlanKeys DEF del_vlan
      <3> QED
        BY <2>1, <3>1 DEF Only, Same, VlanTables
    <2> QED
      BY <1>1, <2>2, <2>3 DEF VlanCommand
  <1>2. CASE MemberCommand
    <2>1. Only(MemberTables)
      BY <1>2, MemberFrame
    <2>2. ASSUME NEW v, NEW p, NEW u, add_vlan_member(v, p, u) PROVE MembershipInv'
      <3>1. Same(db, enable_stp_on_port(db, p), {"STP_PORT"})
        BY SameSelf, SameSet DEF enable_stp_on_port, interface_enable_stp
      <3>2. /\ DOMAIN db'["VLAN_MEMBER"] = DOMAIN db["VLAN_MEMBER"] \cup {<<v, p>>}
            /\ v \in DOMAIN db["VLAN"] /\ p \in DOMAIN db["PORT"] \cup DOMAIN db["PORTCHANNEL"]
        BY <2>2, <3>1, SetEntryTable DEF add_vlan_member, Same
      <3> QED
        BY <2>1, <3>2 DEF Only, Same, MemberTables
    <2>3. ASSUME NEW v, NEW p, del_vlan_member(v, p) PROVE MembershipInv'
      <3>1. Same(db, disable_stp_on_vlan_port(db, v, p), {"STP_PORT", "STP_VLAN_PORT"})
        BY SameSelf, SameDelOne DEF disable_stp_on_vlan_port
      <3>2. DOMAIN db'["VLAN_MEMBER"] \subseteq DOMAIN db["VLAN_MEMBER"]
        BY <2>3, <3>1, DelEntryTable DEF del_vlan_member, Same
      <3> QED
        BY <2>1, <3>2 DEF Only, Same, MemberTables
    <2> QED
      BY <1>2, <2>2, <2>3 DEF MemberCommand
  <1>3. CASE PortchannelCommand
    <2>1. Only(PortchannelTables)
      BY <1>3, PortchannelFrame
    <2>2. ASSUME NEW c \in PortChannels, NEW n, NEW f, NEW r, add_portchannel(c, n, f, r)
          PROVE DOMAIN db'["PORTCHANNEL"] = DOMAIN db["PORTCHANNEL"] \cup {c}
      BY <2>2, SetEntryTable DEF add_portchannel
    <2>3. ASSUME NEW c, remove_portchannel(c) PROVE MembershipInv'
      <3>1. /\ DOMAIN db'["PORTCHANNEL"] = DOMAIN db["PORTCHANNEL"] \ {c}
            /\ \A k \in DOMAIN db["PORTCHANNEL_MEMBER"] : k[1] # c
            /\ \A k \in DOMAIN db["VLAN_MEMBER"] : k[2] # c
        BY <2>3, DelEntryTable DEF remove_portchannel, interface_is_in_vlan, MembersOf
      <3> QED
        BY <2>1, <3>1 DEF Only, Same, PortchannelTables
    <2> QED
      BY <1>3, <2>1, <2>2, <2>3 DEF PortchannelCommand, Only, Same, PortchannelTables
  <1>4. CASE PortchannelMemberCommand
    <2>1. Only(PortchannelMemberTables)
      BY <1>4, PortchannelMemberFrame
    <2>2. ASSUME NEW c, NEW p, add_portchannel_member(c, p) PROVE MembershipInv'
      <3>1. /\ DOMAIN db'["PORTCHANNEL_MEMBER"] = DOMAIN db["PORTCHANNEL_MEMBER"] \cup {<<c, p>>}
            /\ c \in DOMAIN db["PORTCHANNEL"] /\ p \in DOMAIN db["PORT"]
        BY <2>2, SetEntryTable DEF add_portchannel_member
      <3> QED
        BY <2>1, <3>1 DEF Only, Same, PortchannelMemberTables
    <2>3. ASSUME NEW c, NEW p, del_portchannel_member(c, p)
          PROVE DOMAIN db'["PORTCHANNEL_MEMBER"] \subseteq DOMAIN db["PORTCHANNEL_MEMBER"]
      BY <2>3, DelEntryTable DEF del_portchannel_member
    <2> QED
      BY <1>4, <2>1, <2>2, <2>3 DEF PortchannelMemberCommand, Only, Same, PortchannelMemberTables
  <1>5. CASE PortCommand
    <2>1. Only(PortTables)
      BY <1>5, PortFrame
    <2>2. DOMAIN db'["PORT"] = DOMAIN db["PORT"] /\ DOMAIN db'["PORTCHANNEL"] = DOMAIN db["PORTCHANNEL"]
      BY <1>5, PortKeys
    <2> QED
      BY <2>1, <2>2, MembershipStable DEF Only, Same, PortTables
  <1>6. CASE \/ MirrorCommand \/ StpCommand \/ AddressCommand \/ InterfaceCommand \/ BindCommand
             \/ VrfCommand \/ VrrpCommand \/ VxlanCommand \/ VnetCommand \/ MclagCommand
    BY <1>6, MembershipElsewhere, MirrorFrame, StpFrame, AddressFrame, InterfaceFrame, BindFrame,
       VrfFrame, VrrpFrame, VxlanFrame, VnetFrame, MclagFrame
       DEF MirrorTables, StpTables, InterfaceTables, VrfTables, VrrpTables, VxlanTables, VnetTables, MclagTables
  <1>7. CASE \/ AclCommand \/ PbhFieldCommand \/ PbhRuleCommand \/ NatStaticCommand
             \/ NatPoolCommand \/ QuietCommand
    BY <1>7, MembershipElsewhere, AclFrame, PbhFieldFrame, PbhRuleFrame, NatStaticFrame, NatPoolFrame, QuietFrame
       DEF AclTableTables, PbhFieldTables, PbhRuleTables, NatStaticTables, NatPoolTables, QuietTables, StormTables,
           MacTables, FastLinkupTables, StpPortTables, MgmtTables, RouteTables, EvpnTables, NvgreTables,
           AclRuleTables, PbhTables, NatOtherTables
  <1>8. CASE UNCHANGED db
    BY <1>8, MembershipStable
  <1> QED
    BY <1>1, <1>2, <1>3, <1>4, <1>5, <1>6, <1>7, <1>8, Commands

---------------------------------------------------------------------------
(* Addresses of switched interfaces.                                       *)
SwitchInterfaces == Ports \cup PortChannels \cup Vlans

\* The kind of an interface tells its table.
LEMMA KindTable ==
  /\ \A i \in Ports : get_interface_table_name(i) = "INTERFACE"
  /\ \A i \in PortChannels : get_interface_table_name(i) = "PORTCHANNEL_INTERFACE"
  /\ \A i \in Vlans : get_interface_table_name(i) = "VLAN_INTERFACE"
  /\ \A i \in Loopbacks : get_interface_table_name(i) = "LOOPBACK_INTERFACE"
  /\ \A i \in SubInterfaces : get_interface_table_name(i) = "VLAN_SUB_INTERFACE"
  BY InterfaceNames DEF get_interface_table_name

\* The key of an interface and the key of one of its addresses.
LEMMA KeyShapes ==
  \A i, j, a : /\ Len(<<i>>) = 1 /\ <<i>>[1] = i /\ (<<i>> = <<j>> => i = j)
               /\ Len(<<i, a>>) = 2 /\ <<i, a>>[1] = i /\ <<i, a>> # <<j>>
  OBVIOUS

\* What the invariant says of an interface i with addresses after a step.
Allowed(i) == ~Switched(db, i) /\ (i \in Vlans => Has(db, "VLAN", i))
AddressesAllowed ==
  \A i \in SwitchInterfaces : AddressKeys(db', i) # {} => IfHas(db', i) /\ Allowed(i)

\* The invariant before the step.
LEMMA AddressedNow ==
  ASSUME AddressedIsNotSwitched, NEW i \in SwitchInterfaces, AddressKeys(db, i) # {}
  PROVE  IfHas(db, i) /\ Allowed(i)
  BY DEF AddressedIsNotSwitched, Allowed, SwitchInterfaces

\* New entries that are no addresses, and any change of entries.
LEMMA AddressesKept ==
  ASSUME AddressedIsNotSwitched,
         \A t \in InterfaceTables : /\ DOMAIN db[t] \subseteq DOMAIN db'[t]
                                    /\ \A k \in DOMAIN db'[t] \ DOMAIN db[t] : Len(k) # 2
  PROVE  AddressesAllowed
  <1> SUFFICES ASSUME NEW i \in SwitchInterfaces, AddressKeys(db', i) # {}
               PROVE  IfHas(db', i) /\ Allowed(i)
    BY DEF AddressesAllowed
  <1>1. get_interface_table_name(i) \in InterfaceTables
    BY InterfaceTable DEF SwitchInterfaces, Interfaces
  <1>2. AddressKeys(db, i) # {}
    BY <1>1 DEF AddressKeys, Keys
  <1> QED
    BY <1>1, <1>2, AddressedNow DEF IfHas, Has

\* Entries that go, an interface's own only after its addresses.
LEMMA AddressesGo ==
  ASSUME AddressedIsNotSwitched,
         \A i \in SwitchInterfaces :
           /\ AddressKeys(db', i) \subseteq AddressKeys(db, i)
           /\ AddressKeys(db', i) # {} /\ IfHas(db, i) => IfHas(db', i)
  PROVE  AddressesAllowed
  BY AddressedNow DEF AddressesAllowed

\* The entry of an interface is written, not an address.
LEMMA SetInterface ==
  ASSUME SwitchTypeOK, AddressedIsNotSwitched, NEW i \in Interfaces, NEW e,
         db' = SetIf(db, i, e) \/ db' = ModIf(db, i, e)
  PROVE  AddressesAllowed
  <1>1. get_interface_table_name(i) \in InterfaceTables /\ InterfaceTables \subseteq DOMAIN db
    BY InterfaceTable, TableNames DEF SwitchTypeOK
  <1>2. \A t \in InterfaceTables : DOMAIN db[t] \subseteq DOMAIN db'[t] /\ DOMAIN db'[t] \subseteq DOMAIN db[t] \cup {<<i>>}
    BY <1>1, SetEntryTable, ModEntryTable DEF SetIf, ModIf
  <1> QED
    BY <1>2, AddressesKept, KeyShapes

\* config interface ip: addresses come only to interfaces that may have them.
LEMMA AddressStep ==
  ASSUME SwitchTypeOK, AddressedIsNotSwitched, AddressCommand
  PROVE  AddressesAllowed
  <1> USE TableNames DEF SwitchTypeOK
  <1>1. ASSUME NEW i \in Interfaces, NEW a, NEW s, add_interface_ip(i, a, s) PROVE AddressesAllowed
    <2> DEFINE t == get_interface_table_name(i)
               d == IF IfHas(db, i) THEN db
                    ELSE SetIf(db, i, IF i \in SubInterfaces THEN [admin_status |-> "up"] ELSE NoEntries)
    <2>1. t \in InterfaceTables /\ t \in DOMAIN db
      BY InterfaceTable
    <2>2. DOMAIN d = DOMAIN db /\ DOMAIN d[t] = DOMAIN db[t] \cup {<<i>>} /\ \A u \in DOMAIN db : u # t => d[u] = db[u]
      BY <2>1, SetEntryTable DEF IfHas, Has, SetIf
    <2>3. db' = d \/ \E e : db' = SetEntry(d, t, <<i, a>>, e)
      BY <1>1 DEF add_interface_ip
    <2>4. i \in SwitchInterfaces => Allowed(i)
      BY <1>1, InterfaceNames DEF add_interface_ip, Allowed, Base, SwitchInterfaces
    <2> HIDE DEF d, t
    <2>5. /\ \A u \in DOMAIN db : u # t => db'[u] = db[u]
          /\ DOMAIN db[t] \cup {<<i>>} \subseteq DOMAIN db'[t]
          /\ DOMAIN db'[t] \subseteq DOMAIN db[t] \cup {<<i>>, <<i, a>>}
      <3>1. CASE db' = d
        BY <2>2, <3>1
      <3>2. ASSUME NEW e, db' = SetEntry(d, t, <<i, a>>, e)
            PROVE /\ \A u \in DOMAIN db : u # t => db'[u] = db[u]
                  /\ DOMAIN db'[t] = DOMAIN d[t] \cup {<<i, a>>}
        BY <2>1, <2>2, <3>2, SetEntryTable
      <3> QED
        BY <2>2, <2>3, <3>1, <3>2
    <2> SUFFICES ASSUME NEW j \in SwitchInterfaces, AddressKeys(db', j) # {}
                 PROVE  IfHas(db', j) /\ Allowed(j)
      BY DEF AddressesAllowed
    <2>6. CASE j = i
      BY <2>4, <2>5, <2>6 DEF IfHas, Has, t
    <2>7. CASE j # i
      <3>1. get_interface_table_name(j) \in DOMAIN db
        BY InterfaceTable DEF SwitchInterfaces, Interfaces
      <3>2. AddressKeys(db, j) # {}
        BY <2>5, <2>7, <3>1, KeyShapes DEF AddressKeys, Keys
      <3>3. IfHas(db, j) /\ Allowed(j)
        BY <3>2, AddressedNow
      <3> QED
        BY <2>5, <3>1, <3>3 DEF IfHas, Has
    <2> QED
      BY <2>6, <2>7
  <1>2. ASSUME NEW i \in Interfaces, NEW a, remove_interface_ip(i, a) PROVE AddressesAllowed
    <2> DEFINE t == get_interface_table_name(i)
               d == DelEntry(db, t, <<i, a>>)
    <2>1. t \in InterfaceTables /\ t \in DOMAIN db
      BY InterfaceTable
    <2>2. DOMAIN d = DOMAIN db /\ DOMAIN d[t] = DOMAIN db[t] \ {<<i, a>>} /\ \A u \in DOMAIN db : u # t => d[u] = db[u]
      BY <2>1, DelEntryTable
    <2>3. \/ db' = d
          \/ db' = DelEntry(d, t, <<i>>) /\ get_interface_ipaddresses(d, i) = {}
      <3> DEFINE gone == /\ get_interface_ipaddresses(d, i) = {}
                         /\ ~is_interface_bind_to_vrf(d, i)
                         /\ get_intf_ipv6_link_local_mode(d, i) # "enable"
                         /\ i \notin SubInterfaces
      <3>1. db' = IF gone THEN DelEntry(d, t, <<i>>) ELSE d
        BY <1>2, Zenon DEF remove_interface_ip
      <3> QED
        BY <3>1, Zenon
    <2>4. get_interface_ipaddresses(d, i) = {} => AddressKeys(d, i) = {}
      BY DEF get_interface_ipaddresses
    <2> HIDE DEF d
    <2>5. /\ \A u \in DOMAIN db : u # t => db'[u] = db[u]
          /\ DOMAIN db'[t] \subseteq DOMAIN db[t]
          /\ DOMAIN db[t] \ {<<i, a>>, <<i>>} \subseteq DOMAIN db'[t]
          /\ <<i>> \in DOMAIN db[t] \ DOMAIN db'[t] => AddressKeys(db', i) = {}
      <3>1. CASE db' = d
        BY <2>2, <3>1, KeyShapes
      <3>2. CASE db' = DelEntry(d, t, <<i>>) /\ get_interface_ipaddresses(d, i) = {}
        <4>1. DOMAIN db'[t] = DOMAIN d[t] \ {<<i>>} /\ \A u \in DOMAIN db : u # t => db'[u] = db[u]
          BY <2>1, <2>2, <3>2, DelEntryTable
        <4>2. AddressKeys(db', i) = {}
          BY <4>1, <2>4, <3>2 DEF AddressKeys, Keys
        <4> QED
          BY <4>1, <4>2, <2>2
      <3> QED
        BY <2>3, <3>1, <3>2
    <2>6. ASSUME NEW j \in SwitchInterfaces
          PROVE  /\ AddressKeys(db', j) \subseteq AddressKeys(db, j)
                 /\ AddressKeys(db', j) # {} /\ IfHas(db, j) => IfHas(db', j)
      <3>1. get_interface_table_name(j) \in DOMAIN db
        BY InterfaceTable DEF SwitchInterfaces, Interfaces
      <3>2. AddressKeys(db', j) \subseteq AddressKeys(db, j)
        BY <2>5, <3>1 DEF AddressKeys, Keys
      <3>3. CASE j = i
        BY <2>5, <3>2, <3>3 DEF IfHas, Has
      <3>4. CASE j # i
        <4>1. <<j>> # <<i>> /\ <<j>> # <<i, a>>
          BY <3>4, KeyShapes
        <4>2. CASE get_interface_table_name(j) = t
          BY <2>5, <3>2, <4>1, <4>2 DEF IfHas, Has
        <4>3. CASE get_interface_table_name(j) # t
          BY <2>5, <3>1, <3>2, <4>3 DEF IfHas, Has
        <4> QED
          BY <4>2, <4>3
      <3> QED
        BY <3>2, <3>3, <3>4
    <2> QED
      BY <2>6, AddressesGo
  <1> QED
    BY <1>1, <1>2 DEF AddressCommand


\* An interface entry that goes has no addresses left.
LEMMA InterfacesGo ==
  ASSUME AddressedIsNotSwitched,
         \A t \in InterfaceTables : DOMAIN db'[t] \subseteq DOMAIN db[t],
         \A i \in SwitchInterfaces :
            IfHas(db, i) /\ ~IfHas(db', i) => AddressKeys(db', i) = {}
  PROVE  AddressesAllowed
  <1>1. ASSUME NEW i \in SwitchInterfaces PROVE AddressKeys(db', i) \subseteq AddressKeys(db, i)
    <2>1. get_interface_table_name(i) \in InterfaceTables
      BY InterfaceTable DEF SwitchInterfaces, Interfaces
    <2> QED
      BY <2>1 DEF AddressKeys, Keys
  <1> QED
    BY <1>1, AddressesGo

\* Tables without an interface that switches may change.
LEMMA SwitchInterfacesSame ==
  ASSUME SwitchTypeOK, AddressedIsNotSwitched,
         \A t \in InterfaceTables \ {"LOOPBACK_INTERFACE", "VLAN_SUB_INTERFACE"} :
            DOMAIN db'[t] = DOMAIN db[t]
  PROVE  AddressesAllowed
  <1>1. ASSUME NEW i \in SwitchInterfaces
        PROVE  DOMAIN db'[get_interface_table_name(i)] = DOMAIN db[get_interface_table_name(i)]
    BY KindTable DEF SwitchInterfaces, InterfaceTables
  <1> QED
    BY <1>1, AddressesGo DEF AddressKeys, Keys, IfHas, Has

\* use-link-local-only deletes an entry only without addresses.
LEMMA LinkLocalStep ==
  ASSUME SwitchTypeOK, AddressedIsNotSwitched, NEW i \in Interfaces, NEW mode,
         db' = set_ipv6_link_local_only_on_interface(db, i, mode)
  PROVE  AddressesAllowed
  <1> DEFINE t == get_interface_table_name(i)
  <1>1. t \in InterfaceTables /\ t \in DOMAIN db
    BY InterfaceTable, TableNames DEF SwitchTypeOK
  <1>2. \/ db' = db \/ \E e : db' = ModIf(db, i, e)
        \/ AddressKeys(db, i) = {} /\ db' = DelEntry(db, t, <<i>>)
    BY DEF set_ipv6_link_local_only_on_interface
  <1>3. CASE db' = db
    BY <1>3, AddressesKept
  <1>4. CASE \E e : db' = ModIf(db, i, e)
    BY <1>4, SetInterface
  <1>5. CASE AddressKeys(db, i) = {} /\ db' = DelEntry(db, t, <<i>>)
    <2>1. DOMAIN db'[t] = DOMAIN db[t] \ {<<i>>} /\ \A u \in DOMAIN db : u # t => db'[u] = db[u]
      BY <1>1, <1>5, DelEntryTable
    <2>2. \A u \in InterfaceTables : DOMAIN db'[u] \subseteq DOMAIN db[u]
      BY <2>1, TableNames DEF SwitchTypeOK
    <2>3. AddressKeys(db', i) = {}
      BY <1>5, <2>1 DEF AddressKeys, Keys
    <2>4. ASSUME NEW j \in SwitchInterfaces, j # i, IfHas(db, j) PROVE IfHas(db', j)
      <3>1. get_interface_table_name(j) \in DOMAIN db
        BY InterfaceTable, TableNames DEF SwitchTypeOK, SwitchInterfaces, Interfaces
      <3>2. <<j>> # <<i>>
        BY <2>4, KeyShapes
      <3>3. CASE get_interface_table_name(j) = t
        BY <2>1, <2>4, <3>2, <3>3 DEF IfHas, Has
      <3>4. CASE get_interface_table_name(j) # t
        BY <2>1, <2>4, <3>1, <3>4 DEF IfHas, Has
      <3> QED
        BY <3>3, <3>4
    <2> QED
      BY <2>2, <2>3, <2>4, InterfacesGo
  <1> QED
    BY <1>2, <1>3, <1>4, <1>5

\* Loopbacks, sub-interfaces and the fields of interfaces.
LEMMA InterfaceStep ==
  ASSUME SwitchTypeOK, AddressedIsNotSwitched, InterfaceCommand
  PROVE  AddressesAllowed
  <1> USE TableNames DEF SwitchTypeOK
  <1>1. ASSUME NEW v \in Vlans, NEW e, db' = ModEntry(db, "VLAN_INTERFACE", <<v>>, e)
        PROVE  AddressesAllowed
    BY <1>1, SetInterface, KindTable DEF ModIf, Interfaces
  <1>2. ASSUME NEW v \in Vlans, NEW m, config_proxy_arp(v, m) \/ enable_vlan_sag(v) \/ disable_vlan_sag(v)
        PROVE  AddressesAllowed
    BY <1>1, <1>2 DEF config_proxy_arp, enable_vlan_sag, disable_vlan_sag
  <1>3. ASSUME NEW i \in Interfaces, NEW x,
               \/ loopback_action(i, x) \/ mpls(i, x)
               \/ add_nat_interface(i, x) \/ remove_nat_interface(i)
        PROVE  AddressesAllowed
    BY <1>3, SetInterface DEF loopback_action, mpls, add_nat_interface, remove_nat_interface
  <1>4. ASSUME NEW i \in Ports \cup PortChannels \cup Vlans, NEW mode, use_link_local_only(i, mode)
        PROVE  AddressesAllowed
    BY <1>4, LinkLocalStep DEF use_link_local_only, Interfaces
  <1>5. CASE enable_link_local
    <2>1. ASSUME NEW t \in InterfaceTables
          PROVE  /\ DOMAIN db[t] \subseteq DOMAIN db'[t]
                 /\ \A k \in DOMAIN db'[t] \ DOMAIN db[t] : \E i : k = <<i>>
      BY <1>5 DEF enable_link_local, Over
    <2> QED
      BY <2>1, AddressesKept, KeyShapes
  <1>6. CASE disable_link_local
    <2>1. \A t \in InterfaceTables :
            /\ DOMAIN db'[t] \subseteq DOMAIN db[t]
            /\ \A k \in DOMAIN db[t] \ DOMAIN db'[t] : AddressKeys(db, k[1]) = {}
      BY <1>6 DEF disable_link_local, LinkLocalOff
    <2>2. ASSUME NEW i \in SwitchInterfaces, IfHas(db, i), ~IfHas(db', i)
          PROVE  AddressKeys(db', i) = {}
      <3>1. get_interface_table_name(i) \in InterfaceTables
        BY InterfaceTable DEF SwitchInterfaces, Interfaces
      <3>2. AddressKeys(db, i) = {}
        BY <2>1, <2>2, <3>1, KeyShapes DEF IfHas, Has
      <3> QED
        BY <2>1, <3>1, <3>2 DEF AddressKeys, Keys
    <2> QED
      BY <2>1, <2>2, InterfacesGo
  <1>7. ASSUME NEW l \in Loopbacks, add_loopback(l) \/ del_loopback(l) PROVE AddressesAllowed
    <2>1. get_interface_table_name(l) = "LOOPBACK_INTERFACE"
      BY KindTable
    <2>2. Same(db, db', {"LOOPBACK_INTERFACE"})
      BY <1>7, <2>1, SameSelf, SameSet, SameDel, SameDelOne DEF add_loopback, del_loopback, SetIf, RemoveAddresses
    <2> QED
      BY <2>2, SwitchInterfacesSame DEF Same
  <1>8. ASSUME NEW s \in SubInterfaces, NEW n, add_subinterface(s, n) \/ del_subinterface(s) PROVE AddressesAllowed
    <2>1. get_interface_table_name(s) = "VLAN_SUB_INTERFACE"
      BY KindTable
    <2>2. Same(db, db', {"VLAN_SUB_INTERFACE"})
      BY <1>8, <2>1, SameSelf, SameSet, SameDel, SameDelOne
         DEF add_subinterface, del_subinterface, SetIf, RemoveAddresses
    <2> QED
      BY <2>2, SwitchInterfacesSame DEF Same
  <1>9. CASE remove_interfaces
    BY <1>9, SwitchInterfacesSame DEF remove_interfaces
  <1> QED
    BY <1>2, <1>3, <1>4, <1>5, <1>6, <1>7, <1>8, <1>9 DEF InterfaceCommand

\* bind and unbind take the addresses with them.
LEMMA BindStep ==
  ASSUME SwitchTypeOK, AddressedIsNotSwitched, BindCommand
  PROVE  AddressesAllowed
  <1> USE TableNames DEF SwitchTypeOK
  <1>1. PICK i \in Interfaces : unbind(i) \/ \E v : bind(i, v)
    BY DEF BindCommand
  <1> DEFINE t == get_interface_table_name(i)
             d == RemoveAddresses(db, i)
  <1>2. t \in InterfaceTables /\ t \in DOMAIN db
    BY InterfaceTable
  <1>3. /\ DOMAIN d = DOMAIN db /\ DOMAIN d[t] = DOMAIN db[t] \ AddressKeys(db, i)
        /\ \A u \in DOMAIN db : u # t => d[u] = db[u]
    BY <1>2, DelEntriesTable DEF RemoveAddresses
  <1> HIDE DEF d
  <1>4. \/ \E e : db' = SetEntry(d, t, <<i>>, e)
        \/ i \in SubInterfaces /\ \E f : db' = WithoutField(d, "VLAN_SUB_INTERFACE", <<i>>, f)
        \/ db' = DelEntry(d, t, <<i>>)
    BY <1>1 DEF bind, unbind, SetIf, d
  <1>5. CASE i \in SubInterfaces /\ \E f : db' = WithoutField(d, "VLAN_SUB_INTERFACE", <<i>>, f)
    <2>1. t = "VLAN_SUB_INTERFACE"
      BY <1>5, KindTable
    <2>2. \A u \in DOMAIN db : u # t => db'[u] = d[u]
      BY <1>3, <1>5, <2>1 DEF WithoutField
    <2> QED
      BY <1>3, <2>1, <2>2, SwitchInterfacesSame
  <1>6. ASSUME /\ \A u \in DOMAIN db : u # t => db'[u] = db[u]
               /\ \/ DOMAIN db'[t] = DOMAIN d[t] \cup {<<i>>}
                  \/ DOMAIN db'[t] = DOMAIN d[t] \ {<<i>>}
        PROVE  AddressesAllowed
    <2>1. ASSUME NEW j \in SwitchInterfaces
          PROVE  /\ AddressKeys(db', j) \subseteq AddressKeys(db, j)
                 /\ AddressKeys(db', j) # {} /\ IfHas(db, j) => IfHas(db', j)
      <3>1. get_interface_table_name(j) \in DOMAIN db
        BY InterfaceTable DEF SwitchInterfaces, Interfaces
      <3>2. CASE get_interface_table_name(j) # t
        BY <1>6, <3>1, <3>2 DEF AddressKeys, Keys, IfHas, Has
      <3>3. CASE get_interface_table_name(j) = t
        <4>1. AddressKeys(db', j) \subseteq AddressKeys(db, j)
          BY <1>3, <1>6, <3>3, KeyShapes DEF AddressKeys, Keys
        <4>2. CASE j = i
          <5>1. AddressKeys(db', i) = {}
            BY <1>3, <1>6, KeyShapes DEF AddressKeys, Keys
          <5> QED
            BY <4>1, <4>2, <5>1
        <4>3. CASE j # i
          <5>1. <<j>> # <<i>> /\ <<j>> \notin AddressKeys(db, i)
            BY <4>3, KeyShapes DEF AddressKeys
          <5> QED
            BY <1>3, <1>6, <3>3, <4>1, <5>1 DEF IfHas, Has
        <4> QED
          BY <4>2, <4>3
      <3> QED
        BY <3>2, <3>3
    <2> QED
      BY <2>1, AddressesGo
  <1>7. CASE \E e : db' = SetEntry(d, t, <<i>>, e)
    <2>1. \A u \in DOMAIN db : u # t => db'[u] = db[u]
      BY <1>2, <1>3, <1>7, SetEntryTable
    <2>2. DOMAIN db'[t] = DOMAIN d[t] \cup {<<i>>}
      BY <1>2, <1>3, <1>7, SetEntryTable
    <2> QED
      BY <1>6, <2>1, <2>2
  <1>8. CASE db' = DelEntry(d, t, <<i>>)
    <2>1. \A u \in DOMAIN db : u # t => db'[u] = db[u]
      BY <1>2, <1>3, <1>8, DelEntryTable
    <2>2. DOMAIN db'[t] = DOMAIN d[t] \ {<<i>>}
      BY <1>2, <1>3, <1>8, DelEntryTable
    <2> QED
      BY <1>6, <2>1, <2>2
  <1> QED
    BY <1>4, <1>5, <1>7, <1>8

\* An interface bound to a VRF or a VNET that goes takes its addresses with it.
LEMMA BoundStep ==
  ASSUME SwitchTypeOK, AddressedIsNotSwitched, NEW f, NEW v,
         \A t \in InterfaceTables : db'[t] = DelBound(db, f, v)[t]
  PROVE  AddressesAllowed
  <1>1. \A t \in InterfaceTables :
          /\ DOMAIN db'[t] \subseteq DOMAIN db[t]
          /\ \A k \in DOMAIN db[t] \ DOMAIN db'[t] : \A q \in DOMAIN db'[t] : q[1] # k[1]
    <2> SUFFICES ASSUME NEW t \in InterfaceTables
                 PROVE  /\ DOMAIN db'[t] \subseteq DOMAIN db[t]
                        /\ \A k \in DOMAIN db[t] \ DOMAIN db'[t] : \A q \in DOMAIN db'[t] : q[1] # k[1]
      OBVIOUS
    <2> DEFINE names == {k[1] : k \in {b \in DOMAIN db[t] : Field(db, t, b, f, "") = v}}
    <2>1. db'[t] = [k \in {q \in DOMAIN db[t] : q[1] \notin names} |-> db[t][k]]
      BY TableNames DEF DelBound, SwitchTypeOK
    <2> HIDE DEF names
    <2> QED
      BY <2>1
  <1>2. ASSUME NEW i \in SwitchInterfaces, IfHas(db, i), ~IfHas(db', i)
        PROVE  AddressKeys(db', i) = {}
    <2>1. get_interface_table_name(i) \in InterfaceTables
      BY InterfaceTable DEF SwitchInterfaces, Interfaces
    <2> QED
      BY <1>1, <1>2, <2>1, KeyShapes DEF IfHas, Has, AddressKeys, Keys
  <1> QED
    BY <1>1, <1>2, InterfacesGo

\* Removing a VRF or VNET removes whole interfaces, or nothing.
LEMMA VrfStep ==
  ASSUME SwitchTypeOK, AddressedIsNotSwitched, VrfCommand \/ VnetCommand
  PROVE  AddressesAllowed
  <1> USE TableNames DEF SwitchTypeOK
  <1> DEFINE Unchanged == \A t \in InterfaceTables : db'[t] = db[t]
             Unbound == \E f, v : \A t \in InterfaceTables : db'[t] = DelBound(db, f, v)[t]
  <1>1. Unchanged => AddressesAllowed
    BY AddressesKept
  <1>2. Unbound => AddressesAllowed
    BY BoundStep
  <1>3. ASSUME NEW v, add_vrf(v) PROVE Unchanged
    BY <1>3 DEF add_vrf, ModEntry, SetEntry, InterfaceTables
  <1>4. ASSUME NEW v, NEW n, add_vrf_vni_map(v, n) \/ del_vrf_vni_map(v) PROVE Unchanged
    BY <1>4 DEF add_vrf_vni_map, del_vrf_vni_map, ModEntry, InterfaceTables
  <1>5. ASSUME NEW v, del_vrf(v) PROVE Unchanged \/ Unbound
    <2>1. \/ db' = ModEntry(db, "MGMT_VRF_CONFIG", "vrf_global", [mgmtVrfEnabled |-> FALSE])
          \/ db' = DelEntry(del_interface_bind_to_vrf(db, v), "VRF", v)
      BY <1>5 DEF del_vrf
    <2>2. CASE db' = ModEntry(db, "MGMT_VRF_CONFIG", "vrf_global", [mgmtVrfEnabled |-> FALSE])
      BY <2>2 DEF ModEntry, InterfaceTables
    <2>3. CASE db' = DelEntry(del_interface_bind_to_vrf(db, v), "VRF", v)
      <3>1. DOMAIN DelBound(db, "vrf_name", v) = DOMAIN db
        BY DEF DelBound
      <3>2. \A t \in InterfaceTables : db'[t] = DelBound(db, "vrf_name", v)[t]
        BY <2>3, <3>1, DelEntryTable DEF del_interface_bind_to_vrf, InterfaceTables
      <3> QED
        BY <3>2
    <2> QED
      BY <2>1, <2>2, <2>3
  <1>6. ASSUME NEW n, NEW m, NEW x, NEW y, add_vnet(n, m, x, y) PROVE Unchanged
    BY <1>6 DEF add_vnet, SetEntry, InterfaceTables
  <1>7. ASSUME NEW n, NEW m, NEW x, add_vnet_route(n, m, x) \/ del_vnet_route(n, m) PROVE Unchanged
    BY <1>7 DEF add_vnet_route, del_vnet_route, del_route_bind_to_vnet, SetEntry, DelEntry, DelEntries, InterfaceTables
  <1>8. ASSUME NEW n, del_vnet(n) PROVE Unbound
    <2> DEFINE d == DelBound(db, "vnet_name", n)
               e == del_route_bind_to_vnet(d, n)
    <2>1. DOMAIN d = DOMAIN db
      BY DEF DelBound
    <2> HIDE DEF d
    <2>2. DOMAIN e = DOMAIN db /\ \A t \in InterfaceTables : e[t] = d[t]
      BY <2>1 DEF del_route_bind_to_vnet, DelEntries, InterfaceTables
    <2> HIDE DEF e
    <2>3. db' = DelEntry(e, "VNET", n)
      BY <1>8 DEF del_vnet, e, d, del_interface_bind_to_vnet
    <2>4. \A t \in InterfaceTables : db'[t] = d[t]
      BY <2>2, <2>3, DelEntryTable DEF InterfaceTables
    <2> QED
      BY <2>4 DEF d
  <1> HIDE DEF Unchanged, Unbound
  <1> QED
    BY <1>1, <1>2, <1>3, <1>4, <1>5, <1>6, <1>7, <1>8 DEF VrfCommand, VnetCommand

---------------------------------------------------------------------------
\* Members and VLANs are as before.
LEMMA AddressedAfter ==
  ASSUME AddressesAllowed, db'["VLAN"] = db["VLAN"], db'["VLAN_MEMBER"] = db["VLAN_MEMBER"],
         db'["PORTCHANNEL_MEMBER"] = db["PORTCHANNEL_MEMBER"]
  PROVE  AddressedIsNotSwitched'
  BY DEF AddressedIsNotSwitched, AddressesAllowed, Allowed, SwitchInterfaces, AddressKeys, IfHas, Has, Keys,
         Switched, interface_is_in_vlan, interface_is_in_portchannel, MembersOf

\* A command that writes neither interfaces nor members nor VLANs.
LEMMA AddressedElsewhere ==
  ASSUME SwitchTypeOK, AddressedIsNotSwitched, NEW T, Only(T),
         \A t \in InterfaceTables \cup {"VLAN", "VLAN_MEMBER", "PORTCHANNEL_MEMBER"} : t \notin T
  PROVE  AddressedIsNotSwitched'
  <1>1. \A t \in InterfaceTables : db'[t] = db[t]
    BY TableNames DEF Only, Same, SwitchTypeOK
  <1>2. AddressesAllowed
    BY <1>1, AddressesKept
  <1> QED
    BY <1>2, TableNames, AddressedAfter DEF Only, Same, SwitchTypeOK

\* No command makes an interface with addresses a switched one.
LEMMA AddressedStep == MembershipInv /\ AddressedIsNotSwitched /\ [SwitchingNext]_db => AddressedIsNotSwitched'
  <1> SUFFICES ASSUME MembershipInv, AddressedIsNotSwitched, [SwitchingNext]_db PROVE AddressedIsNotSwitched'
    OBVIOUS
  <1> USE TableNames DEF MembershipInv, SwitchTypeOK
  <1>a. ASSUME \A t \in InterfaceTables : db'[t] = db[t], NEW i \in SwitchInterfaces
        PROVE  AddressKeys(db', i) = AddressKeys(db, i) /\ IfHas(db', i) = IfHas(db, i)
    <2>1. get_interface_table_name(i) \in InterfaceTables
      BY InterfaceTable DEF SwitchInterfaces, Interfaces
    <2> QED
      BY <1>a, <2>1 DEF AddressKeys, Keys, IfHas, Has
  <1>1. CASE VlanCommand
    <2>1. /\ \A t \in InterfaceTables : db'[t] = db[t]
          /\ db'["VLAN_MEMBER"] = db["VLAN_MEMBER"] /\ db'["PORTCHANNEL_MEMBER"] = db["PORTCHANNEL_MEMBER"]
      BY <1>1, VlanFrame DEF Only, Same, VlanTables, InterfaceTables
    <2>2. ASSUME NEW i \in SwitchInterfaces, AddressKeys(db, i) # {} PROVE Switched(db', i) = Switched(db, i)
      BY <2>1 DEF Switched, interface_is_in_vlan, interface_is_in_portchannel, MembersOf, Keys
    <2>3. ASSUME NEW v \in Vlans, AddressKeys(db, v) # {}, Has(db, "VLAN", v) PROVE Has(db', "VLAN", v)
      <3>1. ASSUME NEW w \in Vlans, add_vlan(w) PROVE Has(db', "VLAN", v)
        <4>1. Same(db, vlan_enable_stp(db, w), {"STP_VLAN"})
          BY SameSelf, SameSet DEF vlan_enable_stp
        <4> QED
          BY <2>3, <3>1, <4>1, SetEntryTable DEF add_vlan, Same, Has
      <3>2. ASSUME NEW w \in Vlans, NEW n, del_vlan(w, n) PROVE Has(db', "VLAN", v)
        <4>1. \A k \in DOMAIN db["VLAN_INTERFACE"] : k[1] # w
          BY <3>2 DEF del_vlan, Keys
        <4>2. v # w
          BY <2>3, <4>1, KindTable DEF AddressKeys, Keys
        <4>3. ASSUME NEW d, v \in DOMAIN d["VLAN"], DOMAIN d = DOMAIN db
              PROVE  v \in DOMAIN disable_stp_on_vlan(d, w)["VLAN"]
          <5>1. Same(d, disable_stp_on_vlan(d, w), {"STP_VLAN", "STP_VLAN_PORT"})
            BY SameSelf, SameDel, SameDelOne DEF disable_stp_on_vlan
          <5> QED
            BY <4>3, <5>1 DEF Same
        <4> DEFINE d == DelEntry(db, "VLAN", w)
        <4>4. v \in DOMAIN d["VLAN"] /\ DOMAIN d = DOMAIN db
          BY <2>3, <4>2, DelEntryTable DEF Has
        <4> HIDE DEF d
        <4>5. v \in DOMAIN DelEntry(d, "DHCP_RELAY", w)["VLAN"] /\ DOMAIN DelEntry(d, "DHCP_RELAY", w) = DOMAIN db
          BY <4>4, DelEntryTable
        <4>6. db' = disable_stp_on_vlan(d, w) \/ db' = disable_stp_on_vlan(DelEntry(d, "DHCP_RELAY", w), w)
          BY <3>2 DEF del_vlan, d
        <4> QED
          BY <4>3, <4>4, <4>5, <4>6 DEF Has
      <3> QED
        BY <1>1, <3>1, <3>2 DEF VlanCommand
    <2> QED
      BY <1>a, <2>1, <2>2, <2>3, AddressedNow DEF AddressedIsNotSwitched, Allowed, SwitchInterfaces
  <1>2. CASE MemberCommand
    <2>1. /\ \A t \in InterfaceTables : db'[t] = db[t]
          /\ db'["VLAN"] = db["VLAN"] /\ db'["PORTCHANNEL_MEMBER"] = db["PORTCHANNEL_MEMBER"]
      BY <1>2, MemberFrame DEF Only, Same, MemberTables, InterfaceTables
    <2>2. ASSUME NEW i \in SwitchInterfaces, IfHas(db, i), ~Switched(db, i) PROVE ~Switched(db', i)
      <3>1. ASSUME NEW v, NEW p \in Ports \cup PortChannels, NEW u, add_vlan_member(v, p, u) PROVE ~interface_is_in_vlan(db', i)
        <4>1. Same(db, enable_stp_on_port(db, p), {"STP_PORT"})
          BY SameSelf, SameSet DEF enable_stp_on_port, interface_enable_stp
        <4>2. DOMAIN db'["VLAN_MEMBER"] = DOMAIN db["VLAN_MEMBER"] \cup {<<v, p>>}
          BY <3>1, <4>1, SetEntryTable DEF add_vlan_member, Same
        <4>3. ~IfHas(db, p)
          BY <3>1, KindTable DEF add_vlan_member, IsRouterInterface, IfHas, is_port_router_interface, is_pc_router_interface
        <4> QED
          BY <2>2, <4>2, <4>3 DEF Switched, interface_is_in_vlan, MembersOf, Keys
      <3>2. ASSUME NEW v, NEW p, del_vlan_member(v, p) PROVE ~interface_is_in_vlan(db', i)
        <4>1. Same(db, disable_stp_on_vlan_port(db, v, p), {"STP_PORT", "STP_VLAN_PORT"})
          BY SameSelf, SameDelOne DEF disable_stp_on_vlan_port
        <4>2. DOMAIN db'["VLAN_MEMBER"] \subseteq DOMAIN db["VLAN_MEMBER"]
          BY <3>2, <4>1, DelEntryTable DEF del_vlan_member, Same
        <4> QED
          BY <2>2, <4>2 DEF Switched, interface_is_in_vlan, MembersOf, Keys
      <3>3. ~interface_is_in_vlan(db', i)
        BY <1>2, <3>1, <3>2 DEF MemberCommand
      <3> QED
        BY <2>1, <2>2, <3>3 DEF Switched, interface_is_in_portchannel, MembersOf, Keys
    <2> QED
      BY <1>a, <2>1, <2>2, AddressedNow DEF AddressedIsNotSwitched, Allowed, SwitchInterfaces, Has
  <1>3. CASE PortchannelMemberCommand
    <2>1. /\ \A t \in InterfaceTables : db'[t] = db[t]
          /\ db'["VLAN"] = db["VLAN"] /\ db'["VLAN_MEMBER"] = db["VLAN_MEMBER"]
      BY <1>3, PortchannelMemberFrame DEF Only, Same, PortchannelMemberTables, InterfaceTables
    <2>2. ASSUME NEW i \in SwitchInterfaces, IfHas(db, i), ~Switched(db, i) PROVE ~Switched(db', i)
      <3>1. ASSUME NEW c, NEW p \in Ports, add_portchannel_member(c, p) PROVE ~interface_is_in_portchannel(db', i)
        <4>1. DOMAIN db'["PORTCHANNEL_MEMBER"] = DOMAIN db["PORTCHANNEL_MEMBER"] \cup {<<c, p>>}
          BY <3>1, SetEntryTable DEF add_portchannel_member
        <4>2. ~IfHas(db, p)
          BY <3>1, KindTable DEF add_portchannel_member, IfHas, is_port_router_interface
        <4> QED
          BY <2>2, <4>1, <4>2 DEF Switched, interface_is_in_portchannel, MembersOf, Keys
      <3>2. ASSUME NEW c, NEW p, del_portchannel_member(c, p) PROVE ~interface_is_in_portchannel(db', i)
        <4>1. DOMAIN db'["PORTCHANNEL_MEMBER"] \subseteq DOMAIN db["PORTCHANNEL_MEMBER"]
          BY <3>2, DelEntryTable DEF del_portchannel_member
        <4> QED
          BY <2>2, <4>1 DEF Switched, interface_is_in_portchannel, MembersOf, Keys
      <3>3. ~interface_is_in_portchannel(db', i)
        BY <1>3, <3>1, <3>2 DEF PortchannelMemberCommand
      <3> QED
        BY <2>1, <2>2, <3>3 DEF Switched, interface_is_in_vlan, MembersOf, Keys
    <2> QED
      BY <1>a, <2>1, <2>2, AddressedNow DEF AddressedIsNotSwitched, Allowed, SwitchInterfaces, Has
  <1>4. CASE AddressCommand \/ InterfaceCommand \/ BindCommand \/ VrfCommand \/ VnetCommand
    <2>1. AddressesAllowed
      BY <1>4, AddressStep, InterfaceStep, BindStep, VrfStep
    <2> QED
      BY <1>4, <2>1, AddressedAfter, AddressFrame, InterfaceFrame, BindFrame, VrfFrame, VnetFrame
         DEF Only, Same, InterfaceTables, VrfTables, VnetTables
  <1>5. CASE \/ PortchannelCommand \/ MirrorCommand \/ PortCommand \/ StpCommand \/ VrrpCommand \/ VxlanCommand
             \/ MclagCommand
    BY <1>5, AddressedElsewhere, PortchannelFrame, MirrorFrame, PortFrame, StpFrame, VrrpFrame, VxlanFrame, MclagFrame
       DEF InterfaceTables, PortchannelTables, MirrorTables, PortTables, StpTables, VrrpTables, VxlanTables, MclagTables
  <1>6. CASE \/ AclCommand \/ PbhFieldCommand \/ PbhRuleCommand \/ NatStaticCommand
             \/ NatPoolCommand \/ QuietCommand
    BY <1>6, AddressedElsewhere, AclFrame, PbhFieldFrame, PbhRuleFrame, NatStaticFrame, NatPoolFrame, QuietFrame
       DEF InterfaceTables, AclTableTables, PbhFieldTables, PbhRuleTables, NatStaticTables, NatPoolTables, QuietTables,
           StormTables, MacTables, FastLinkupTables, StpPortTables, MgmtTables, RouteTables, EvpnTables, NvgreTables,
           AclRuleTables, PbhTables, NatOtherTables
  <1>7. CASE UNCHANGED db
    BY <1>7, AddressesKept, AddressedAfter
  <1> QED
    BY <1>1, <1>2, <1>3, <1>4, <1>5, <1>6, <1>7, Commands

---------------------------------------------------------------------------
(* Bindings of interfaces.                                                 *)
BindFields == {"vrf_name", "vnet_name"}

\* The bindings of n are bindings of d.
BindingsKept(d, n) ==
  \A t \in InterfaceTables : \A k \in DOMAIN n[t] : \A f \in DOMAIN n[t][k] \cap BindFields :
     k \in DOMAIN d[t] /\ f \in DOMAIN d[t][k] /\ n[t][k][f] = d[t][k][f]

\* BoundVrfExists, field by field.
Bindable(d, f) == IF f = "vrf_name" THEN DOMAIN d["VRF"] \cup {"", "mgmt"} ELSE DOMAIN d["VNET"] \cup {""}
BoundEntries(d) ==
  \A t \in InterfaceTables : \A k \in DOMAIN d[t] : \A f \in DOMAIN d[t][k] \cap BindFields :
     d[t][k][f] \in Bindable(d, f)
\* Field by field, or as BoundVrfExists asks for them.
LEMMA BoundEntry ==
  ASSUME NEW d, NEW t, NEW k, k \in DOMAIN d[t]
  PROVE  (\A f \in DOMAIN d[t][k] \cap BindFields : d[t][k][f] \in Bindable(d, f)) <=>
           /\ Field(d, t, k, "vrf_name", "") \in Keys(d, "VRF") \cup {"", "mgmt"}
           /\ Field(d, t, k, "vnet_name", "") \in Keys(d, "VNET") \cup {""}
  <1> DEFINE A == "vrf_name" \in DOMAIN d[t][k] => d[t][k]["vrf_name"] \in Bindable(d, "vrf_name")
             B == "vnet_name" \in DOMAIN d[t][k] => d[t][k]["vnet_name"] \in Bindable(d, "vnet_name")
  <1>1. (\A f \in DOMAIN d[t][k] \cap BindFields : d[t][k][f] \in Bindable(d, f)) <=> A /\ B
    BY DEF BindFields
  <1>2. A <=> Field(d, t, k, "vrf_name", "") \in Keys(d, "VRF") \cup {"", "mgmt"}
    BY DEF Bindable, Field, Keys
  <1>3. B <=> Field(d, t, k, "vnet_name", "") \in Keys(d, "VNET") \cup {""}
    BY DEF Bindable, Field, Keys
  <1> QED
    BY <1>1, <1>2, <1>3
\* The two forms agree, before and after the step.
LEMMA BoundNow == BoundVrfExists <=> BoundEntries(db)
  BY BoundEntry DEF BoundVrfExists, BoundEntries, Keys
LEMMA BoundThen == BoundVrfExists' <=> BoundEntries(db')
  BY BoundEntry DEF BoundVrfExists, BoundEntries, Keys

\* Bindings that stay as they are; what the operations on entries keep.
LEMMA KeptSelf == \A d, n : (\A t \in InterfaceTables : n[t] = d[t]) => BindingsKept(d, n)
  BY DEF BindingsKept
LEMMA KeptSet ==
  ASSUME NEW d, NEW n, BindingsKept(d, n), InterfaceTables \subseteq DOMAIN n, NEW t \in DOMAIN n, NEW k, NEW e,
         DOMAIN e \cap BindFields = {}
  PROVE  BindingsKept(d, SetEntry(n, t, k, e))
  BY SetEntryTable DEF BindingsKept
LEMMA KeptMod ==
  ASSUME NEW d, NEW n, BindingsKept(d, n), InterfaceTables \subseteq DOMAIN n, NEW t \in DOMAIN n, NEW k, NEW e,
         DOMAIN e \cap BindFields = {}
  PROVE  BindingsKept(d, ModEntry(n, t, k, e))
  <1>1. ModEntry(n, t, k, e)[t][k] = IF k \in DOMAIN n[t] THEN Over(e, n[t][k]) ELSE e
    BY DEF ModEntry, Put
  <1> QED
    BY <1>1, ModEntryTable DEF BindingsKept, Over
LEMMA KeptDel ==
  ASSUME NEW d, NEW n, BindingsKept(d, n), InterfaceTables \subseteq DOMAIN n, NEW t \in DOMAIN n, NEW K
  PROVE  BindingsKept(d, DelEntries(n, t, K))
  BY DelEntriesTable DEF BindingsKept

\* Bindings that stay are valid when no VRF and no VNET goes.
LEMMA BindingsExist ==
  ASSUME BoundVrfExists, BindingsKept(db, db'), DOMAIN db["VRF"] \subseteq DOMAIN db'["VRF"],
         DOMAIN db["VNET"] \subseteq DOMAIN db'["VNET"]
  PROVE  BoundVrfExists'
  <1>1. \A f \in BindFields : Bindable(db, f) \subseteq Bindable(db', f)
    BY DEF Bindable
  <1>2. BoundEntries(db)
    BY BoundNow
  <1>3. BoundEntries(db')
    BY <1>1, <1>2 DEF BoundEntries, BindingsKept
  <1> QED
    BY <1>3, BoundThen

\* A name goes that nothing is bound to any more.
LEMMA UnboundGone ==
  ASSUME BoundVrfExists, NEW v, NEW g \in BindFields,
         \A t \in InterfaceTables :
           /\ DOMAIN db'[t] \subseteq DOMAIN db[t]
           /\ \A k \in DOMAIN db'[t] :
                 db'[t][k] = db[t][k] /\ (g \in DOMAIN db[t][k] => db[t][k][g] # v),
         \A f \in BindFields : \A x \in Bindable(db, f) : x \in Bindable(db', f) \/ (f = g /\ x = v)
  PROVE  BoundVrfExists'
  <1>1. BoundEntries(db)
    BY BoundNow
  <1>2. BoundEntries(db')
    <2> SUFFICES ASSUME NEW t \in InterfaceTables, NEW k, k \in DOMAIN db'[t],
                        NEW f, f \in DOMAIN db'[t][k] \cap BindFields
                 PROVE  db'[t][k][f] \in Bindable(db', f)
      BY DEF BoundEntries
    <2>1. db'[t][k][f] = db[t][k][f] /\ db[t][k][f] \in Bindable(db, f) /\ (f = g => db[t][k][f] # v)
      BY <1>1 DEF BoundEntries
    <2> QED
      BY <2>1
  <1> QED
    BY <1>2, BoundThen

\* The interface commands bind nothing.
LEMMA BindingsInterfaces ==
  ASSUME SwitchTypeOK, AddressCommand \/ InterfaceCommand PROVE BindingsKept(db, db')
  <1>0. BindingsKept(db, db) /\ InterfaceTables \subseteq DOMAIN db
    BY KeptSelf, TableNames DEF SwitchTypeOK
  <1> USE <1>0 DEF SwitchTypeOK, BindFields
  <1>1. ASSUME NEW i \in Interfaces, NEW e, DOMAIN e \cap BindFields = {},
               db' = SetIf(db, i, e) \/ db' = ModIf(db, i, e)
        PROVE  BindingsKept(db, db')
    BY <1>1, InterfaceTable, KeptSet, KeptMod DEF SetIf, ModIf
  <1>2. ASSUME NEW i \in Interfaces, NEW x,
               \/ loopback_action(i, x) \/ mpls(i, x)
               \/ add_nat_interface(i, x) \/ remove_nat_interface(i)
        PROVE  BindingsKept(db, db')
    BY <1>2, <1>1 DEF loopback_action, mpls, add_nat_interface, remove_nat_interface
  <1>3. ASSUME NEW v \in Vlans, NEW m, config_proxy_arp(v, m) \/ enable_vlan_sag(v) \/ disable_vlan_sag(v)
        PROVE  BindingsKept(db, db')
    BY <1>3, KeptMod DEF config_proxy_arp, enable_vlan_sag, disable_vlan_sag, InterfaceTables
  <1>4. ASSUME NEW i \in Interfaces, NEW mode, use_link_local_only(i, mode) PROVE BindingsKept(db, db')
    <2>1. \/ db' = db \/ db' = ModIf(db, i, [ipv6_use_link_local_only |-> mode])
          \/ db' = DelEntry(db, get_interface_table_name(i), <<i>>)
      BY <1>4 DEF use_link_local_only, set_ipv6_link_local_only_on_interface
    <2> QED
      BY <1>1, <2>1, InterfaceTable, KeptDel DEF DelEntry
  <1>5. CASE enable_link_local
    BY <1>5 DEF enable_link_local, BindingsKept, Over, Has, NoEntries
  <1>6. CASE disable_link_local
    <2>1. \A t \in InterfaceTables : db'[t] \in {LinkLocalOff(db, t), db[t]}
      BY <1>6 DEF disable_link_local
    <2>2. ASSUME NEW t \in InterfaceTables, NEW k \in DOMAIN LinkLocalOff(db, t),
                 NEW f \in DOMAIN LinkLocalOff(db, t)[k] \cap BindFields
          PROVE  k \in DOMAIN db[t] /\ f \in DOMAIN db[t][k] /\ LinkLocalOff(db, t)[k][f] = db[t][k][f]
      BY <2>2 DEF LinkLocalOff
    <2> QED
      BY <2>1, <2>2 DEF BindingsKept
  <1>7. ASSUME NEW l \in Loopbacks, add_loopback(l) PROVE BindingsKept(db, db')
    BY <1>7, <1>1 DEF add_loopback, NoEntries, Interfaces
  <1>8. ASSUME NEW l \in Loopbacks, del_loopback(l) PROVE BindingsKept(db, db')
    <2>1. BindingsKept(db, RemoveAddresses(db, l)) /\ DOMAIN RemoveAddresses(db, l) = DOMAIN db
      BY InterfaceTable, KeptDel, DelEntriesTable DEF RemoveAddresses, Interfaces
    <2> QED
      BY <1>8, <2>1, KeptDel DEF del_loopback, DelEntry, InterfaceTables
  <1>9. ASSUME NEW s \in SubInterfaces, NEW n, add_subinterface(s, n) PROVE BindingsKept(db, db')
    BY <1>9, <1>1 DEF add_subinterface, Interfaces
  <1>10. ASSUME NEW s \in SubInterfaces, del_subinterface(s) PROVE BindingsKept(db, db')
    <2>1. BindingsKept(db, RemoveAddresses(db, s)) /\ DOMAIN RemoveAddresses(db, s) = DOMAIN db
      BY InterfaceTable, KeptDel, DelEntriesTable DEF RemoveAddresses, Interfaces
    <2> QED
      BY <1>10, <2>1, KeptDel DEF del_subinterface, DelEntry, InterfaceTables
  <1>11. CASE remove_interfaces
    BY <1>11 DEF remove_interfaces, BindingsKept
  <1>12. ASSUME NEW i \in Interfaces, NEW a, NEW s, add_interface_ip(i, a, s) PROVE BindingsKept(db, db')
    <2> DEFINE t == get_interface_table_name(i)
               e == IF i \in SubInterfaces THEN [admin_status |-> "up"] ELSE NoEntries
               d == IF IfHas(db, i) THEN db ELSE SetIf(db, i, e)
    <2>1. t \in DOMAIN db
      BY InterfaceTable
    <2>2. DOMAIN e \cap BindFields = {}
      BY DEF NoEntries
    <2> HIDE DEF e
    <2>3. BindingsKept(db, d) /\ DOMAIN d = DOMAIN db
      BY <2>1, <2>2, KeptSet, SetEntryTable DEF SetIf
    <2>4. \/ db' = d \/ db' = SetEntry(d, t, <<i, a>>, NoEntries)
          \/ db' = SetEntry(d, t, <<i, a>>, [secondary |-> TRUE])
      BY <1>12 DEF add_interface_ip, e
    <2> HIDE DEF d, t
    <2> QED
      BY <2>1, <2>3, <2>4, KeptSet DEF NoEntries
  <1>13. ASSUME NEW i \in Interfaces, NEW a, remove_interface_ip(i, a) PROVE BindingsKept(db, db')
    <2> DEFINE t == get_interface_table_name(i)
               d == DelEntry(db, t, <<i, a>>)
    <2>1. t \in DOMAIN db
      BY InterfaceTable
    <2>2. BindingsKept(db, d) /\ DOMAIN d = DOMAIN db
      <3>1. BindingsKept(db, d)
        BY <2>1, KeptDel DEF DelEntry
      <3>2. DOMAIN d = DOMAIN db
        BY <2>1, DelEntryTable
      <3> QED
        BY <3>1, <3>2
    <2>3. db' = d \/ db' = DelEntry(d, t, <<i>>)
      <3> DEFINE gone == /\ get_interface_ipaddresses(d, i) = {}
                         /\ ~is_interface_bind_to_vrf(d, i)
                         /\ get_intf_ipv6_link_local_mode(d, i) # "enable"
                         /\ i \notin SubInterfaces
      <3>1. db' = IF gone THEN DelEntry(d, t, <<i>>) ELSE d
        BY <1>13, Zenon DEF remove_interface_ip
      <3> QED
        BY <3>1, Zenon
    <2> HIDE DEF d, t
    <2> QED
      BY <2>1, <2>2, <2>3, KeptDel DEF DelEntry
  <1> QED
    BY <1>2, <1>3, <1>4, <1>5, <1>6, <1>7, <1>8, <1>9, <1>10, <1>11, <1>12, <1>13
       DEF InterfaceCommand, AddressCommand, Interfaces

\* No command leaves an interface bound to a VRF or VNET that is gone.
LEMMA BoundStepVrf == SwitchTypeOK /\ BoundVrfExists /\ [SwitchingNext]_db => BoundVrfExists'
  <1> SUFFICES ASSUME SwitchTypeOK, BoundVrfExists, [SwitchingNext]_db PROVE BoundVrfExists'
    OBVIOUS
  <1> USE TableNames DEF SwitchTypeOK
  <1>1. ASSUME \A t \in InterfaceTables : db'[t] = db[t], DOMAIN db["VRF"] \subseteq DOMAIN db'["VRF"],
               DOMAIN db["VNET"] \subseteq DOMAIN db'["VNET"]
        PROVE  BoundVrfExists'
    BY <1>1, KeptSelf, BindingsExist
  <1>2. ASSUME NEW T, Only(T), \A t \in InterfaceTables \cup {"VRF", "VNET"} : t \notin T PROVE BoundVrfExists'
    BY <1>1, <1>2 DEF Only, Same
  <1>3. CASE AddressCommand \/ InterfaceCommand
    BY <1>3, BindingsInterfaces, BindingsExist, AddressFrame, InterfaceFrame DEF Only, Same, InterfaceTables
  <1>4. CASE BindCommand
    <2>1. db'["VRF"] = db["VRF"] /\ db'["VNET"] = db["VNET"]
      BY <1>4, BindFrame DEF Only, Same, InterfaceTables
    <2>2. PICK i \in Interfaces : unbind(i) \/ \E v : bind(i, v)
      BY <1>4 DEF BindCommand
    <2> DEFINE t == get_interface_table_name(i)
               d == RemoveAddresses(db, i)
    <2>3. t \in InterfaceTables /\ t \in DOMAIN db
      BY InterfaceTable
    <2>4. /\ BindingsKept(db, d) /\ DOMAIN d = DOMAIN db
          /\ \A u \in DOMAIN db : u # t => d[u] = db[u]
      <3>1. BindingsKept(db, db) /\ InterfaceTables \subseteq DOMAIN db
        BY KeptSelf
      <3>2. BindingsKept(db, d)
        BY <2>3, <3>1, KeptDel DEF RemoveAddresses
      <3> QED
        BY <2>3, <3>2, DelEntriesTable DEF RemoveAddresses
    <2> HIDE DEF d, t
    <2>5. CASE unbind(i)
      <3>1. \/ db' = DelEntry(d, t, <<i>>)
            \/ \E f : db' = WithoutField(d, "VLAN_SUB_INTERFACE", <<i>>, f)
        BY <2>5 DEF unbind, d, t
      <3>2. CASE db' = DelEntry(d, t, <<i>>)
        BY <2>1, <2>3, <2>4, <3>2, KeptDel, BindingsExist DEF DelEntry
      <3>3. CASE \E f : db' = WithoutField(d, "VLAN_SUB_INTERFACE", <<i>>, f)
        <4>1. BindingsKept(db, db')
          BY <2>4, <3>3 DEF WithoutField, BindingsKept
        <4> QED
          BY <2>1, <4>1, BindingsExist
      <3> QED
        BY <3>1, <3>2, <3>3
    <2>6. ASSUME NEW v, bind(i, v) PROVE BoundVrfExists'
      <3> DEFINE old == IF i \in SubInterfaces /\ IfHas(db, i) THEN db[t][<<i>>] ELSE NoEntries
                 e == Put(old, BindField(v), v)
      <3>1. db' = SetEntry(d, t, <<i>>, e)
        BY <2>6 DEF bind, SetIf, d, t
      <3>2. /\ DOMAIN db'[t] = DOMAIN d[t] \cup {<<i>>} /\ db'[t][<<i>>] = e
            /\ \A k \in DOMAIN d[t] : k # <<i>> => db'[t][k] = d[t][k]
            /\ \A u \in DOMAIN db : u # t => db'[u] = d[u]
        BY <2>3, <2>4, <3>1, SetEntryTable
      <3>3. \/ BindField(v) = "vrf_name" /\ v \in DOMAIN db["VRF"] \cup {"mgmt"}
            \/ BindField(v) = "vnet_name" /\ v \in DOMAIN db["VNET"]
        BY <2>6 DEF bind, BindField, is_vnet_exists, is_vrf_exists, Has
      <3>4. \A f \in DOMAIN old : IfHas(db, i) /\ f \in DOMAIN db[t][<<i>>] /\ old[f] = db[t][<<i>>][f]
        BY DEF NoEntries
      <3>5. ASSUME NEW f \in DOMAIN e
            PROVE  \/ f = BindField(v) /\ e[f] = v
                   \/ <<i>> \in DOMAIN db[t] /\ f \in DOMAIN db[t][<<i>>] /\ e[f] = db[t][<<i>>][f]
        BY <3>4 DEF Put, IfHas, Has, t
      <3> HIDE DEF e
      <3>6. ASSUME NEW u \in InterfaceTables, NEW k, k \in DOMAIN db'[u], NEW f \in DOMAIN db'[u][k] \cap BindFields
            PROVE  \/ f = BindField(v) /\ db'[u][k][f] = v
                   \/ k \in DOMAIN db[u] /\ f \in DOMAIN db[u][k] /\ db'[u][k][f] = db[u][k][f]
        <4>1. CASE u = t /\ k = <<i>>
          BY <3>2, <3>5, <3>6, <4>1
        <4>2. CASE ~(u = t /\ k = <<i>>)
          <5>1. k \in DOMAIN d[u] /\ db'[u][k] = d[u][k]
            BY <3>2, <3>6, <4>2
          <5> QED
            BY <2>4, <3>6, <5>1 DEF BindingsKept
        <4> QED
          BY <4>1, <4>2
      <3> QED
        <4>1. \A f \in BindFields : Bindable(db', f) = Bindable(db, f)
          BY <2>1 DEF Bindable
        <4>2. v \in Bindable(db, BindField(v))
          BY <3>3 DEF Bindable
        <4>3. BoundEntries(db)
          BY BoundNow
        <4>4. BoundEntries(db')
          BY <3>6, <4>1, <4>2, <4>3 DEF BoundEntries
        <4> QED
          BY <4>4, BoundThen
    <2> QED
      BY <2>2, <2>5, <2>6
  <1>5. CASE VrfCommand
    <2>1. db'["VNET"] = db["VNET"]
      BY <1>5, VrfFrame DEF Only, Same, VrfTables, InterfaceTables
    <2>2. ASSUME NEW v, NEW n, add_vrf(v) \/ add_vrf_vni_map(v, n) \/ del_vrf_vni_map(v) PROVE BoundVrfExists'
      <3>1. /\ \A t \in InterfaceTables : db'[t] = db[t]
            /\ DOMAIN db["VRF"] \subseteq DOMAIN db'["VRF"]
        BY <2>2 DEF add_vrf, add_vrf_vni_map, del_vrf_vni_map, SetEntry, ModEntry, Put, InterfaceTables
      <3> QED
        BY <1>1, <2>1, <3>1
    <2>3. ASSUME NEW v, del_vrf(v) PROVE BoundVrfExists'
      <3>1. \/ db' = ModEntry(db, "MGMT_VRF_CONFIG", "vrf_global", [mgmtVrfEnabled |-> FALSE])
            \/ db' = DelEntry(del_interface_bind_to_vrf(db, v), "VRF", v)
        BY <2>3 DEF del_vrf
      <3>2. CASE db' = ModEntry(db, "MGMT_VRF_CONFIG", "vrf_global", [mgmtVrfEnabled |-> FALSE])
        BY <1>1, <2>1, <3>2 DEF ModEntry, InterfaceTables
      <3>3. CASE db' = DelEntry(del_interface_bind_to_vrf(db, v), "VRF", v)
        <4> DEFINE d == DelBound(db, "vrf_name", v)
        <4>1. /\ DOMAIN d = DOMAIN db /\ d["VRF"] = db["VRF"]
              /\ \A t \in InterfaceTables :
                   /\ DOMAIN d[t] \subseteq DOMAIN db[t]
                   /\ \A k \in DOMAIN d[t] : d[t][k] = db[t][k] /\ ("vrf_name" \in DOMAIN db[t][k] => db[t][k]["vrf_name"] # v)
          BY DEF DelBound, Field, InterfaceTables
        <4> HIDE DEF d
        <4>2. /\ DOMAIN db'["VRF"] = DOMAIN db["VRF"] \ {v}
              /\ \A t \in InterfaceTables : db'[t] = d[t]
          BY <3>3, <4>1, DelEntryTable DEF del_interface_bind_to_vrf, d, InterfaceTables
        <4> QED
          <5>1. \A f \in BindFields : \A x \in Bindable(db, f) : x \in Bindable(db', f) \/ (f = "vrf_name" /\ x = v)
            BY <2>1, <4>2 DEF Bindable, BindFields
          <5> QED
            BY <4>1, <4>2, <5>1, UnboundGone DEF BindFields
      <3> QED
        BY <3>1, <3>2, <3>3
    <2> QED
      BY <1>5, <2>2, <2>3 DEF VrfCommand
  <1>6. CASE VnetCommand
    <2>1. db'["VRF"] = db["VRF"]
      BY <1>6, VnetFrame DEF Only, Same, VnetTables, InterfaceTables
    <2>2. ASSUME NEW n, NEW x, NEW y, NEW z, add_vnet(n, x, y, z) \/ add_vnet_route(n, x, y) \/ del_vnet_route(n, x)
          PROVE  BoundVrfExists'
      <3>1. /\ \A t \in InterfaceTables : db'[t] = db[t]
            /\ DOMAIN db["VNET"] \subseteq DOMAIN db'["VNET"]
        <4>1. CASE add_vnet(n, x, y, z)
          BY <4>1 DEF add_vnet, SetEntry, Put, InterfaceTables
        <4>2. CASE add_vnet_route(n, x, y)
          BY <4>2 DEF add_vnet_route, SetEntry, InterfaceTables
        <4>3. CASE del_vnet_route(n, x)
          BY <4>3 DEF del_vnet_route, del_route_bind_to_vnet, DelEntry, DelEntries, InterfaceTables
        <4> QED
          BY <2>2, <4>1, <4>2, <4>3
      <3> QED
        BY <1>1, <2>1, <3>1
    <2>3. ASSUME NEW n, del_vnet(n) PROVE BoundVrfExists'
      <3> DEFINE d == DelBound(db, "vnet_name", n)
                 e == del_route_bind_to_vnet(d, n)
      <3>1. /\ DOMAIN d = DOMAIN db /\ d["VNET"] = db["VNET"]
            /\ \A t \in InterfaceTables :
                 /\ DOMAIN d[t] \subseteq DOMAIN db[t]
                 /\ \A k \in DOMAIN d[t] : d[t][k] = db[t][k] /\ ("vnet_name" \in DOMAIN db[t][k] => db[t][k]["vnet_name"] # n)
        BY DEF DelBound, Field, InterfaceTables
      <3> HIDE DEF d
      <3>2. DOMAIN e = DOMAIN db /\ e["VNET"] = db["VNET"] /\ \A t \in InterfaceTables : e[t] = d[t]
        BY <3>1 DEF del_route_bind_to_vnet, DelEntries, InterfaceTables
      <3> HIDE DEF e
      <3>3. db' = DelEntry(e, "VNET", n)
        BY <2>3 DEF del_vnet, e, d, del_interface_bind_to_vnet
      <3>4. /\ DOMAIN db'["VNET"] = DOMAIN db["VNET"] \ {n}
            /\ \A t \in InterfaceTables : db'[t] = d[t]
        BY <3>2, <3>3, DelEntryTable DEF InterfaceTables
      <3> QED
        <4>1. \A f \in BindFields : \A x \in Bindable(db, f) : x \in Bindable(db', f) \/ (f = "vnet_name" /\ x = n)
          BY <2>1, <3>4 DEF Bindable, BindFields
        <4> QED
          BY <3>1, <3>4, <4>1, UnboundGone DEF BindFields
    <2> QED
      BY <1>6, <2>2, <2>3 DEF VnetCommand
  <1>7. CASE \/ VlanCommand \/ MemberCommand \/ PortchannelCommand \/ PortchannelMemberCommand \/ MirrorCommand
             \/ PortCommand \/ StpCommand \/ VrrpCommand \/ VxlanCommand \/ MclagCommand
    BY <1>2, <1>7, VlanFrame, MemberFrame, PortchannelFrame, PortchannelMemberFrame, MirrorFrame, PortFrame, StpFrame,
       VrrpFrame, VxlanFrame, MclagFrame
       DEF InterfaceTables, VlanTables, MemberTables, PortchannelTables, PortchannelMemberTables, MirrorTables,
           PortTables, StpTables, VrrpTables, VxlanTables, MclagTables
  <1>8. CASE \/ AclCommand \/ PbhFieldCommand \/ PbhRuleCommand \/ NatStaticCommand
             \/ NatPoolCommand \/ QuietCommand
    BY <1>2, <1>8, AclFrame, PbhFieldFrame, PbhRuleFrame, NatStaticFrame, NatPoolFrame, QuietFrame
       DEF InterfaceTables, AclTableTables, PbhFieldTables, PbhRuleTables, NatStaticTables, NatPoolTables, QuietTables,
           StormTables, MacTables, FastLinkupTables, StpPortTables, MgmtTables, RouteTables, EvpnTables, NvgreTables,
           AclRuleTables, PbhTables, NatOtherTables
  <1>9. CASE UNCHANGED db
    BY <1>1, <1>9
  <1> QED
    BY <1>3, <1>4, <1>5, <1>6, <1>7, <1>8, <1>9, Commands

---------------------------------------------------------------------------
(* NAT.                                                                    *)
NatTouched == {"STATIC_NAT", "STATIC_NAPT", "NAT_POOL"}

\* No entry of d without ports overlaps one with ports or a pool.
Disjoint(d) ==
  \A k \in DOMAIN d["STATIC_NAT"] :
    /\ \A q \in DOMAIN d["STATIC_NAPT"] : Translated(d, "STATIC_NAPT", q) # Translated(d, "STATIC_NAT", k)
    /\ \A p \in DOMAIN d["NAT_POOL"] :
         Translated(d, "STATIC_NAT", k) \notin d["NAT_POOL"][p].lo .. d["NAT_POOL"][p].hi
\* The two forms agree, before and after the step.
LEMMA DisjointNow == NatDisjoint <=> Disjoint(db)
  BY DEF NatDisjoint, Disjoint, isIpOverlappingWithAnyStaticEntry, isOverlappingWithAnyDynamicEntry, Keys
LEMMA DisjointThen == NatDisjoint' <=> Disjoint(db')
  BY DEF NatDisjoint, Disjoint, isIpOverlappingWithAnyStaticEntry, isOverlappingWithAnyDynamicEntry, Keys

\* Entries may go.
LEMMA DisjointFewer ==
  ASSUME NatDisjoint,
         \A t \in NatTouched : /\ DOMAIN db'[t] \subseteq DOMAIN db[t]
                               /\ \A k \in DOMAIN db'[t] : db'[t][k] = db[t][k]
  PROVE  NatDisjoint'
  <1>1. ASSUME NEW t \in {"STATIC_NAT", "STATIC_NAPT"}, NEW k, k \in DOMAIN db'[t]
        PROVE  Translated(db', t, k) = Translated(db, t, k)
    BY <1>1 DEF Translated, NatTouched
  <1>2. Disjoint(db)
    BY DisjointNow
  <1>3. Disjoint(db')
    BY <1>1, <1>2 DEF Disjoint, NatTouched
  <1> QED
    BY <1>3, DisjointThen

\* No command adds an entry or a pool that overlaps another.
LEMMA NatStep == SwitchTypeOK /\ NatDisjoint /\ [SwitchingNext]_db => NatDisjoint'
  <1> SUFFICES ASSUME SwitchTypeOK, NatDisjoint, [SwitchingNext]_db PROVE NatDisjoint'
    OBVIOUS
  <1> USE TableNames DEF SwitchTypeOK
  <1>0. Disjoint(db)
    BY DisjointNow
  <1>1. CASE NatStaticCommand
    <2>1. db'["NAT_POOL"] = db["NAT_POOL"] /\ DOMAIN db' = DOMAIN db
      BY <1>1, NatStaticFrame DEF Only, Same, NatStaticTables
    <2>2. ASSUME NEW g, NEW l, NEW x, NEW id, add_basic(g, l, x, id) PROVE NatDisjoint'
      <3> DEFINE k == <<g>>
                 e == StaticEntry(l, 0, x, id)
      <3>1. /\ DOMAIN db'["STATIC_NAT"] = DOMAIN db["STATIC_NAT"] \cup {k} /\ db'["STATIC_NAT"][k] = e
            /\ \A j \in DOMAIN db["STATIC_NAT"] : j # k => db'["STATIC_NAT"][j] = db["STATIC_NAT"][j]
            /\ db'["STATIC_NAPT"] = db["STATIC_NAPT"]
        BY <2>2, SetEntryTable DEF add_basic
      <3>2. Translated(db', "STATIC_NAT", k) = ToTranslate(g, l, x)
        BY <3>1 DEF Translated, ToTranslate, StaticEntry
      <3>3. \A j \in DOMAIN db'["STATIC_NAT"] : j # k => Translated(db', "STATIC_NAT", j) = Translated(db, "STATIC_NAT", j)
        BY <3>1 DEF Translated
      <3>4. \A q \in DOMAIN db["STATIC_NAPT"] : Translated(db', "STATIC_NAPT", q) = Translated(db, "STATIC_NAPT", q)
        BY <3>1 DEF Translated
      <3>5. /\ \A q \in DOMAIN db["STATIC_NAPT"] : Translated(db, "STATIC_NAPT", q) # ToTranslate(g, l, x)
            /\ \A p \in DOMAIN db["NAT_POOL"] :
                 ToTranslate(g, l, x) \notin db["NAT_POOL"][p].lo .. db["NAT_POOL"][p].hi
        BY <2>2 DEF add_basic, isIpOverlappingWithAnyStaticEntry, isOverlappingWithAnyDynamicEntry, Keys
      <3> HIDE DEF k, e
      <3>6. Disjoint(db')
        BY <1>0, <2>1, <3>1, <3>2, <3>3, <3>4, <3>5 DEF Disjoint
      <3> QED
        BY <3>6, DisjointThen
    <2>3. ASSUME NEW proto, NEW g, NEW gp, NEW l, NEW lp, NEW x, NEW id, AddNapt(proto, g, gp, l, lp, x, id)
          PROVE  NatDisjoint'
      <3> DEFINE k == <<g, proto, gp>>
                 e == StaticEntry(l, lp, x, id)
      <3>1. /\ DOMAIN db'["STATIC_NAPT"] = DOMAIN db["STATIC_NAPT"] \cup {k} /\ db'["STATIC_NAPT"][k] = e
            /\ \A j \in DOMAIN db["STATIC_NAPT"] : j # k => db'["STATIC_NAPT"][j] = db["STATIC_NAPT"][j]
            /\ db'["STATIC_NAT"] = db["STATIC_NAT"]
        BY <2>3, SetEntryTable DEF AddNapt
      <3>2. Translated(db', "STATIC_NAPT", k) = ToTranslate(g, l, x)
        BY <3>1 DEF Translated, ToTranslate, StaticEntry
      <3>3. \A j \in DOMAIN db'["STATIC_NAPT"] : j # k => Translated(db', "STATIC_NAPT", j) = Translated(db, "STATIC_NAPT", j)
        BY <3>1 DEF Translated
      <3>4. \A q \in DOMAIN db["STATIC_NAT"] : Translated(db', "STATIC_NAT", q) = Translated(db, "STATIC_NAT", q)
        BY <3>1 DEF Translated
      <3>5. \A q \in DOMAIN db["STATIC_NAT"] : Translated(db, "STATIC_NAT", q) # ToTranslate(g, l, x)
        BY <2>3 DEF AddNapt, isIpOverlappingWithAnyStaticEntry, Keys
      <3> HIDE DEF k, e
      <3>6. Disjoint(db')
        BY <1>0, <2>1, <3>1, <3>2, <3>3, <3>4, <3>5 DEF Disjoint
      <3> QED
        BY <3>6, DisjointThen
    <2>4. ASSUME NEW t \in {"STATIC_NAT", "STATIC_NAPT"}, NEW k, NEW l, NEW lp, RemoveStatic(t, k, l, lp)
          PROVE  NatDisjoint'
      BY <2>4, DisjointFewer DEF RemoveStatic, DelEntry, DelEntries, NatTouched
    <2>5. CASE remove_static_all
      BY <2>5, DisjointFewer DEF remove_static_all, DelTable, NatTouched, NoEntries
    <2> QED
      BY <1>1, <2>2, <2>3, <2>4, <2>5
         DEF NatStaticCommand, add_tcp, add_udp, remove_basic, remove_tcp, remove_udp
  <1>2. CASE NatPoolCommand
    <2>1. db'["STATIC_NAT"] = db["STATIC_NAT"] /\ db'["STATIC_NAPT"] = db["STATIC_NAPT"]
      BY <1>2, NatPoolFrame DEF Only, Same, NatPoolTables
    <2>2. ASSUME NEW p, NEW lo, NEW hi, add_pool(p, lo, hi) PROVE NatDisjoint'
      <3>1. /\ DOMAIN db'["NAT_POOL"] = DOMAIN db["NAT_POOL"] \cup {p}
            /\ db'["NAT_POOL"][p] = [lo |-> lo, hi |-> hi]
            /\ \A j \in DOMAIN db["NAT_POOL"] : j # p => db'["NAT_POOL"][j] = db["NAT_POOL"][j]
        BY <2>2, SetEntryTable DEF add_pool
      <3>2. \A k \in DOMAIN db["STATIC_NAT"] :
              /\ Translated(db', "STATIC_NAT", k) = Translated(db, "STATIC_NAT", k)
              /\ Translated(db, "STATIC_NAT", k) \notin lo..hi
        BY <2>1, <2>2 DEF Translated, add_pool, Keys
      <3>3. \A q \in DOMAIN db["STATIC_NAPT"] : Translated(db', "STATIC_NAPT", q) = Translated(db, "STATIC_NAPT", q)
        BY <2>1 DEF Translated
      <3>4. Disjoint(db')
        BY <1>0, <2>1, <3>1, <3>2, <3>3 DEF Disjoint
      <3> QED
        BY <3>4, DisjointThen
    <2>3. ASSUME NEW K, db' = DelEntries(db, "NAT_POOL", K) PROVE NatDisjoint'
      BY <2>3, DisjointFewer DEF DelEntries, NatTouched
    <2> QED
      BY <1>2, <2>2, <2>3 DEF NatPoolCommand, remove_pool, remove_pools, DelEntry
  <1>3. ASSUME NEW T, Only(T), \A t \in NatTouched : t \notin T PROVE NatDisjoint'
    BY <1>3, DisjointFewer DEF Only, Same, NatTouched
  <1>4. CASE \/ VlanCommand \/ MemberCommand \/ PortchannelCommand \/ PortchannelMemberCommand \/ MirrorCommand
             \/ PortCommand \/ StpCommand \/ AddressCommand \/ InterfaceCommand \/ BindCommand
    BY <1>3, <1>4, VlanFrame, MemberFrame, PortchannelFrame, PortchannelMemberFrame, MirrorFrame, PortFrame, StpFrame,
       AddressFrame, InterfaceFrame, BindFrame
       DEF NatTouched, InterfaceTables, VlanTables, MemberTables, PortchannelTables, PortchannelMemberTables,
           MirrorTables, PortTables, StpTables
  <1>5. CASE \/ VrfCommand \/ VnetCommand \/ VrrpCommand \/ VxlanCommand \/ MclagCommand
             \/ AclCommand \/ PbhFieldCommand \/ PbhRuleCommand \/ QuietCommand
    BY <1>3, <1>5, VrfFrame, VnetFrame, VrrpFrame, VxlanFrame, MclagFrame, AclFrame, PbhFieldFrame, PbhRuleFrame, QuietFrame
       DEF NatTouched, InterfaceTables, VrfTables, VnetTables, VrrpTables, VxlanTables, MclagTables, AclTableTables,
           PbhFieldTables, PbhRuleTables, QuietTables, StormTables, MacTables, FastLinkupTables, StpPortTables,
           MgmtTables, RouteTables, EvpnTables, NvgreTables, AclRuleTables, PbhTables, NatOtherTables
  <1>6. CASE UNCHANGED db
    BY <1>6, DisjointFewer
  <1> QED
    BY <1>1, <1>2, <1>4, <1>5, <1>6, Commands

---------------------------------------------------------------------------
(* acl-loader: what the two updates leave in ACL_RULE.                     *)
LEMMA PutRulesTable ==
  ASSUME NEW d, "ACL_RULE" \in DOMAIN d, NEW r, NEW K
  PROVE  /\ DOMAIN PutRules(d, r, K)["ACL_RULE"] = DOMAIN d["ACL_RULE"] \cup K
         /\ \A k \in K : PutRules(d, r, K)["ACL_RULE"][k] = r[k]
         /\ \A k \in DOMAIN d["ACL_RULE"] \ K : PutRules(d, r, K)["ACL_RULE"][k] = d["ACL_RULE"][k]
         /\ DOMAIN PutRules(d, r, K) = DOMAIN d
  BY DEF PutRules, Over

\* The incremental update is the full one in every state with these tables.
LEMMA IncrementalStep == SwitchTypeOK => IncrementalIsFull
  <1> SUFFICES ASSUME SwitchTypeOK, NEW file
               PROVE  IncrementalUpdate(db, file)["ACL_RULE"] = FullUpdate(db, file, "")["ACL_RULE"]
    BY DEF IncrementalIsFull
  <1> DEFINE rules == convert_rules(db, file, "")
             cur == DOMAIN db["ACL_RULE"]
             old == db["ACL_RULE"]
             new == DOMAIN rules
             control(k) == is_table_control_plane(db["ACL_TABLE"][k[1]].type)
             C == {k \in new : control(k)}
             D == {k \in cur : control(k)}
             N == new \ C
             A == C \ D
             R == D \ C
             M == {k \in new \cap D : rules[k] # old[k]}
             d1 == DelEntries(db, "ACL_RULE", cur \ D)
             d2 == PutRules(d1, rules, N)
             d3 == PutRules(d2, rules, A)
             d4 == DelEntries(d3, "ACL_RULE", R)
             d5 == PutRules(d4, rules, M)
             full == FullUpdate(db, file, "")["ACL_RULE"]
  <1>1. "ACL_RULE" \in DOMAIN db
    BY TableNames DEF SwitchTypeOK
  <1>2. IncrementalUpdate(db, file) = d5
    BY DEF IncrementalUpdate, Keys
  <1>3. DOMAIN full = new /\ (\A k \in new : full[k] = rules[k]) /\ full = [k \in new |-> full[k]]
    <2> HIDE DEF rules
    <2>1. full = Over(rules, [k \in cur \ {q \in cur : "" \in {"", q[1]}} |-> old[k]])
      BY <1>1 DEF FullUpdate, Keys, rules
    <2> QED
      BY <2>1 DEF Over
  <1>4. /\ N \subseteq new /\ C = new \ N /\ A = C \ D /\ R = D \ C /\ D \subseteq cur /\ D \cap new \subseteq C
        /\ \A k : k \in M <=> k \in new /\ k \in D /\ rules[k] # old[k]
    OBVIOUS
  <1> HIDE DEF rules, full, cur, new, N, C, A, R, D, M
  <1>5. DOMAIN d1 = DOMAIN db /\ DOMAIN d1["ACL_RULE"] = D /\ \A k \in D : d1["ACL_RULE"][k] = old[k]
    <2>1. DOMAIN d1 = DOMAIN db /\ DOMAIN d1["ACL_RULE"] = cur \ (cur \ D)
      BY <1>1, DelEntriesTable DEF cur
    <2>2. \A k \in cur \ (cur \ D) : d1["ACL_RULE"][k] = old[k]
      BY <1>1, DelEntriesTable DEF cur
    <2>3. cur \ (cur \ D) = D
      BY <1>4
    <2> HIDE DEF d1
    <2> QED
      BY <2>1, <2>2, <2>3
  <1> HIDE DEF d1
  <1>6. /\ DOMAIN d2 = DOMAIN db /\ DOMAIN d2["ACL_RULE"] = D \cup N
        /\ \A k \in N : d2["ACL_RULE"][k] = rules[k]
        /\ \A k \in D \ N : d2["ACL_RULE"][k] = old[k]
    <2>1. DOMAIN d2 = DOMAIN d1 /\ DOMAIN d2["ACL_RULE"] = DOMAIN d1["ACL_RULE"] \cup N
      BY <1>1, <1>5, PutRulesTable
    <2>2. \A k \in N : d2["ACL_RULE"][k] = rules[k]
      BY <1>1, <1>5, PutRulesTable
    <2>3. \A k \in DOMAIN d1["ACL_RULE"] \ N : d2["ACL_RULE"][k] = d1["ACL_RULE"][k]
      BY <1>1, <1>5, PutRulesTable
    <2> HIDE DEF d2
    <2> QED
      BY <1>5, <2>1, <2>2, <2>3
  <1> HIDE DEF d2
  <1>7. /\ DOMAIN d3 = DOMAIN db /\ DOMAIN d3["ACL_RULE"] = D \cup N \cup A
        /\ \A k \in N \cup A : d3["ACL_RULE"][k] = rules[k]
        /\ \A k \in D \ (N \cup A) : d3["ACL_RULE"][k] = old[k]
    BY <1>1, <1>6, PutRulesTable
  <1> HIDE DEF d3
  <1>8. /\ DOMAIN d4 = DOMAIN db /\ DOMAIN d4["ACL_RULE"] = new
        /\ \A k \in new \ D : d4["ACL_RULE"][k] = rules[k]
        /\ \A k \in new \cap D : d4["ACL_RULE"][k] = old[k]
    <2>1. (D \cup N \cup A) \ R = new /\ new \ D \subseteq N \cup A /\ new \cap D \subseteq D \ (N \cup A)
      BY <1>4
    <2> QED
      <3>1. DOMAIN d4 = DOMAIN db /\ DOMAIN d4["ACL_RULE"] = (D \cup N \cup A) \ R
        BY <1>1, <1>7, DelEntriesTable
      <3>2. \A k \in (D \cup N \cup A) \ R : d4["ACL_RULE"][k] = d3["ACL_RULE"][k]
        BY <1>1, <1>7, DelEntriesTable
      <3> HIDE DEF d4
      <3> QED
        BY <1>7, <2>1, <3>1, <3>2
  <1> HIDE DEF d4
  <1>9. /\ DOMAIN d5["ACL_RULE"] = new
        /\ \A k \in new : d5["ACL_RULE"][k] = rules[k]
        /\ d5["ACL_RULE"] = [k \in new |-> d5["ACL_RULE"][k]]
    <2>1. M \subseteq new
      BY <1>4
    <2>2. DOMAIN d5["ACL_RULE"] = new /\ d5["ACL_RULE"] = [k \in new |-> d5["ACL_RULE"][k]]
      <3>1. DOMAIN d5["ACL_RULE"] = new
        <4>1. DOMAIN d5["ACL_RULE"] = DOMAIN d4["ACL_RULE"] \cup M
          BY <1>1, <1>8, PutRulesTable
        <4> HIDE DEF d5
        <4> QED
          BY <1>8, <2>1, <4>1
      <3>2. d5["ACL_RULE"] = [k \in DOMAIN d5["ACL_RULE"] |-> d5["ACL_RULE"][k]]
        BY <1>1, <1>8 DEF PutRules, Over
      <3> QED
        BY <3>1, <3>2
    <2>3. ASSUME NEW k \in new PROVE d5["ACL_RULE"][k] = rules[k]
      <3>1. CASE k \in M
        BY <1>1, <1>8, <3>1, PutRulesTable
      <3>2. CASE k \notin M
        <4>1. d5["ACL_RULE"][k] = d4["ACL_RULE"][k]
          BY <1>1, <1>8, <3>2, PutRulesTable
        <4> QED
          BY <1>4, <1>8, <3>2, <4>1
      <3> QED
        BY <3>1, <3>2
    <2> QED
      BY <2>2, <2>3
  <1> HIDE DEF d5
  <1>10. full = d5["ACL_RULE"]
    <2> HIDE DEF full
    <2> QED
      BY <1>3, <1>9
  <1> QED
    BY <1>2, <1>10 DEF full

---------------------------------------------------------------------------
(* Policy based hashing.                                                   *)
PbhTouched == {"PBH_RULE", "PBH_HASH_FIELD", "PBH_COUNTERS"}
RulesMatch == \A k \in Keys(db, "PBH_RULE") : MatchesIn(db["PBH_RULE"][k]) # {}
MasksFit ==
  \A n \in Keys(db, "PBH_HASH_FIELD") :
    hash_field_to_ip_mask_correspondence_validator(Stored(n, "hash_field"), Stored(n, "ip_mask"))
CountersCount ==
  \A k \in Keys(db, "PBH_COUNTERS") : Field(db, "PBH_RULE", k, "flow_counter", "") = "ENABLED"

\* The options of a hash field that are given, and only they, are fields.
LEMMA HashFieldOptions ==
  ASSUME NEW f, NEW m
  PROVE  /\ "hash_field" \in DOMAIN HashField(f, m) <=> f # ""
         /\ "ip_mask" \in DOMAIN HashField(f, m) <=> m # ""
         /\ f # "" => HashField(f, m)["hash_field"] = f
         /\ m # "" => HashField(f, m)["ip_mask"] = m
  BY DEF HashField, Option, Over, One, NoEntries

\* A mask fits its hash field, also when one of the two is updated.
LEMMA HashFieldStep ==
  ASSUME SwitchTypeOK, MasksFit, PbhFieldCommand
  PROVE  MasksFit'
  <1> DEFINE T == "PBH_HASH_FIELD"
             fit(f, m) == hash_field_to_ip_mask_correspondence_validator(f, m)
  <1> USE TableNames DEF SwitchTypeOK
  <1>1. T \in DOMAIN db
    OBVIOUS
  <1>2. ASSUME NEW n, NEW f, NEW m, f # "", PBH_HASH_FIELD_add(n, f, m) PROVE MasksFit'
    <2>1. fit(f, m) /\ db' = SetEntry(db, T, n, HashField(f, m))
      BY <1>2 DEF PBH_HASH_FIELD_add, add_entry
    <2>2. /\ DOMAIN db'[T] = DOMAIN db[T] \cup {n} /\ db'[T][n] = HashField(f, m)
          /\ \A j \in DOMAIN db[T] : j # n => db'[T][j] = db[T][j]
      BY <1>1, <2>1, SetEntryTable
    <2> DEFINE h == HashField(f, m)
    <2>h. /\ "hash_field" \in DOMAIN h /\ h["hash_field"] = f
          /\ IF m = "" THEN "ip_mask" \notin DOMAIN h ELSE "ip_mask" \in DOMAIN h /\ h["ip_mask"] = m
      BY <1>2, HashFieldOptions
    <2> HIDE DEF h
    <2>i. n \in DOMAIN db'[T] /\ db'[T][n] = h
      BY <2>2 DEF h
    <2>3. Stored(n, "hash_field")' = f /\ Stored(n, "ip_mask")' = m
      BY <2>h, <2>i DEF Stored, Field
    <2>4. \A j \in DOMAIN db[T] : j # n => Stored(j, "hash_field")' = Stored(j, "hash_field")
                                           /\ Stored(j, "ip_mask")' = Stored(j, "ip_mask")
      BY <2>2 DEF Stored, Field
    <2> QED
      BY <2>1, <2>2, <2>3, <2>4 DEF MasksFit, Keys
  <1>3. ASSUME NEW n, NEW f, NEW m, PBH_HASH_FIELD_update(n, f, m) PROVE MasksFit'
    <2>1. /\ n \in DOMAIN db[T] /\ DOMAIN HashField(f, m) # {}
          /\ hash_field_to_ip_mask_validator(n, f, m)
          /\ db' = ModEntry(db, T, n, HashField(f, m))
      BY <1>3 DEF PBH_HASH_FIELD_update, update_entry, Has
    <2>2. DOMAIN db'[T] = DOMAIN db[T] /\ \A j \in DOMAIN db[T] : j # n => db'[T][j] = db[T][j]
      <3>1. DOMAIN db'[T] = DOMAIN db[T] \cup {n} /\ \A j \in DOMAIN db[T] : j # n => db'[T][j] = db[T][j]
        BY <1>1, <2>1, ModEntryTable
      <3> QED
        BY <2>1, <3>1
    <2>3. /\ Stored(n, "hash_field")' = IF f = "" THEN Stored(n, "hash_field") ELSE f
          /\ Stored(n, "ip_mask")' = IF m = "" THEN Stored(n, "ip_mask") ELSE m
      <3> DEFINE h == HashField(f, m)
      <3>1. /\ IF f = "" THEN "hash_field" \notin DOMAIN h ELSE "hash_field" \in DOMAIN h /\ h["hash_field"] = f
            /\ IF m = "" THEN "ip_mask" \notin DOMAIN h ELSE "ip_mask" \in DOMAIN h /\ h["ip_mask"] = m
        BY HashFieldOptions
      <3>2. db' = ModEntry(db, T, n, h)
        BY <2>1
      <3> HIDE DEF h
      <3>3. db'[T][n] = Over(h, db[T][n]) /\ n \in DOMAIN db'[T]
        BY <1>1, <2>1, <2>2, <3>2 DEF ModEntry, Put
      <3> QED
        BY <2>1, <3>1, <3>3 DEF Stored, Field, Over
    <2>4. f # "" \/ m # ""
      BY <2>1 DEF HashField, Option, Over, NoEntries
    <2>5. fit(Stored(n, "hash_field")', Stored(n, "ip_mask")')
      BY <2>1, <2>3, <2>4 DEF hash_field_to_ip_mask_validator
    <2>6. \A j \in DOMAIN db[T] : j # n => Stored(j, "hash_field")' = Stored(j, "hash_field")
                                           /\ Stored(j, "ip_mask")' = Stored(j, "ip_mask")
      BY <2>2 DEF Stored, Field
    <2> QED
      BY <2>2, <2>5, <2>6 DEF MasksFit, Keys
  <1>4. ASSUME NEW n, PBH_HASH_FIELD_delete(n) PROVE MasksFit'
    <2>1. DOMAIN db'[T] \subseteq DOMAIN db[T] /\ \A j \in DOMAIN db'[T] : db'[T][j] = db[T][j]
      BY <1>4, <1>1, DelEntryTable DEF PBH_HASH_FIELD_delete, del_entry
    <2>2. \A j \in DOMAIN db'[T] : /\ Stored(j, "hash_field")' = Stored(j, "hash_field")
                                   /\ Stored(j, "ip_mask")' = Stored(j, "ip_mask")
      BY <2>1 DEF Stored, Field
    <2> QED
      BY <2>1, <2>2 DEF MasksFit, Keys
  <1> QED
    BY <1>2, <1>3, <1>4 DEF PbhFieldCommand, HashFields

\* Entries with the field flow_counter of a rule that counts.
Counts(d, k) ==
  k \in DOMAIN d["PBH_RULE"] /\ "flow_counter" \in DOMAIN d["PBH_RULE"][k]
  /\ d["PBH_RULE"][k]["flow_counter"] = "ENABLED"
\* The two forms agree, before and after the step.
LEMMA CountsNow == CountersCount <=> \A k \in DOMAIN db["PBH_COUNTERS"] : Counts(db, k)
  BY DEF CountersCount, Counts, Field, Keys
LEMMA CountsThen == CountersCount' <=> \A k \in DOMAIN db'["PBH_COUNTERS"] : Counts(db', k)
  BY DEF CountersCount, Counts, Field, Keys

\* Fewer fields are removed than a rule matches by: one is left.
LEMMA MatchLeft ==
  ASSUME NEW e, NEW F, Cardinality(MatchesIn(e) \cap F) < Cardinality(MatchesIn(e))
  PROVE  MatchesIn(e) \ F # {}
  <1>1. IsFiniteSet(MatchesIn(e))
    BY PbhMatchesAssumption, FS_Subset DEF MatchesIn
  <1>2. Cardinality(MatchesIn(e)) \in Nat
    BY <1>1, FS_CardinalityType
  <1>3. MatchesIn(e) \ F = {} => MatchesIn(e) \cap F = MatchesIn(e)
    OBVIOUS
  <1> QED
    BY <1>2, <1>3

\* One rule changes to e and keeps a field to match by; its counters go, or it counts.
LEMMA RuleChanged ==
  ASSUME RulesMatch, CountersCount, NEW k, NEW e,
         MatchesIn(e) # {},
         DOMAIN db'["PBH_RULE"] = DOMAIN db["PBH_RULE"] \cup {k}, db'["PBH_RULE"][k] = e,
         \A j \in DOMAIN db["PBH_RULE"] : j # k => db'["PBH_RULE"][j] = db["PBH_RULE"][j],
         DOMAIN db'["PBH_COUNTERS"] \subseteq DOMAIN db["PBH_COUNTERS"],
         k \in DOMAIN db'["PBH_COUNTERS"] => "flow_counter" \in DOMAIN e /\ e["flow_counter"] = "ENABLED"
  PROVE  RulesMatch' /\ CountersCount'
  <1>1. RulesMatch'
    BY DEF RulesMatch, Keys, MatchesIn
  <1>2. \A j \in DOMAIN db["PBH_COUNTERS"] : Counts(db, j)
    BY CountsNow
  <1>3. \A j \in DOMAIN db'["PBH_COUNTERS"] : Counts(db', j)
    BY <1>2 DEF Counts
  <1> QED
    BY <1>1, <1>3, CountsThen

\* Rules keep a match, and saved counters their rule.
LEMMA RuleStep ==
  ASSUME SwitchTypeOK, RulesMatch, CountersCount, PbhRuleCommand
  PROVE  RulesMatch' /\ CountersCount'
  <1> USE TableNames DEF SwitchTypeOK
  <1>0. /\ "PBH_RULE" \in DOMAIN db /\ "PBH_COUNTERS" \in DOMAIN db
        /\ \A k \in DOMAIN db["PBH_COUNTERS"] : Counts(db, k)
    BY CountsNow
  <1>1. ASSUME NEW t, NEW r, NEW data, PBH_RULE_add(t, r, data) PROVE RulesMatch' /\ CountersCount'
    <2> DEFINE k == <<t, r>>
    <2>1. /\ MatchesIn(data) # {} /\ k \notin DOMAIN db["PBH_RULE"]
          /\ db' = SetEntry(db, "PBH_RULE", k, data)
      BY <1>1 DEF PBH_RULE_add, add_entry, Has
    <2> HIDE DEF k
    <2>2. /\ DOMAIN db'["PBH_RULE"] = DOMAIN db["PBH_RULE"] \cup {k} /\ db'["PBH_RULE"][k] = data
          /\ \A j \in DOMAIN db["PBH_RULE"] : j # k => db'["PBH_RULE"][j] = db["PBH_RULE"][j]
          /\ db'["PBH_COUNTERS"] = db["PBH_COUNTERS"]
      BY <1>0, <2>1, SetEntryTable
    <2>3. k \notin DOMAIN db["PBH_COUNTERS"]
      BY <1>0, <2>1 DEF Counts
    <2> QED
      BY <2>1, <2>2, <2>3, RuleChanged
  <1>2. ASSUME NEW t, NEW r, NEW data \in PbhRules, PBH_RULE_update_field_set(t, r, data)
        PROVE  RulesMatch' /\ CountersCount'
    <2> DEFINE k == <<t, r>>
               d == ModEntry(db, "PBH_RULE", k, data)
               e == Over(data, db["PBH_RULE"][k])
               off == Field(d, "PBH_RULE", k, "flow_counter", "") = "DISABLED" /\ "flow_counter" \in DOMAIN data
    <2>1. k \in DOMAIN db["PBH_RULE"] /\ db' = IF off THEN DropCounters(d, t, r) ELSE d
      BY <1>2 DEF PBH_RULE_update_field_set, Has
    <2>2. /\ d["PBH_RULE"][k] = e /\ DOMAIN d = DOMAIN db /\ DOMAIN d["PBH_RULE"] = DOMAIN db["PBH_RULE"] \cup {k}
          /\ \A j \in DOMAIN db["PBH_RULE"] : j # k => d["PBH_RULE"][j] = db["PBH_RULE"][j]
          /\ d["PBH_COUNTERS"] = db["PBH_COUNTERS"]
      BY <1>0, <2>1 DEF ModEntry, Put
    <2>3. MatchesIn(e) # {}
      BY <2>1 DEF RulesMatch, Keys, MatchesIn, Over
    <2>4. ASSUME k \in DOMAIN db["PBH_COUNTERS"], ~off
          PROVE  "flow_counter" \in DOMAIN e /\ e["flow_counter"] = "ENABLED"
      <3>1. /\ "flow_counter" \in DOMAIN db["PBH_RULE"][k] /\ db["PBH_RULE"][k]["flow_counter"] = "ENABLED"
            /\ "flow_counter" \in DOMAIN data => data["flow_counter"] \in {"ENABLED", "DISABLED"}
        BY <1>0, <2>4 DEF Counts, PbhRules
      <3>2. "flow_counter" \in DOMAIN data => e["flow_counter"] # "DISABLED"
        BY <2>2, <2>4 DEF Field, Over
      <3> HIDE DEF off, d
      <3> QED
        BY <3>1, <3>2 DEF Over
    <2> HIDE DEF e, off, d
    <2>5. CASE off
      <3>1. db' = DelEntry(d, "PBH_COUNTERS", k)
        BY <2>1, <2>5 DEF DropCounters
      <3> HIDE DEF k
      <3>2. db'["PBH_RULE"] = d["PBH_RULE"] /\ DOMAIN db'["PBH_COUNTERS"] = DOMAIN db["PBH_COUNTERS"] \ {k}
        BY <1>0, <2>2, <3>1, DelEntryTable
      <3> QED
        BY <2>2, <2>3, <3>2, RuleChanged
    <2>6. CASE ~off
      <3>1. db' = d
        BY <2>1, <2>6
      <3> HIDE DEF k
      <3> QED
        BY <2>2, <2>3, <2>4, <2>6, <3>1, RuleChanged
    <2> QED
      BY <2>5, <2>6
  <1>3. ASSUME NEW t, NEW r, NEW F, PBH_RULE_update_field_del(t, r, F) PROVE RulesMatch' /\ CountersCount'
    <2> DEFINE k == <<t, r>>
               d == RemoveFields(db, "PBH_RULE", k, F)
               old == db["PBH_RULE"][k]
               e == [f \in DOMAIN old \ F |-> old[f]]
    <2>1. /\ k \in DOMAIN db["PBH_RULE"]
          /\ Cardinality(MatchesIn(old) \cap F) < Cardinality(MatchesIn(old))
          /\ db' = IF "flow_counter" \in F THEN DropCounters(d, t, r) ELSE d
      BY <1>3 DEF PBH_RULE_update_field_del, pbh_match_count, Has
    <2>2. /\ d["PBH_RULE"][k] = e /\ DOMAIN d = DOMAIN db /\ DOMAIN d["PBH_RULE"] = DOMAIN db["PBH_RULE"] \cup {k}
          /\ \A j \in DOMAIN db["PBH_RULE"] : j # k => d["PBH_RULE"][j] = db["PBH_RULE"][j]
          /\ d["PBH_COUNTERS"] = db["PBH_COUNTERS"]
      BY <1>0, <2>1 DEF RemoveFields
    <2>3. MatchesIn(e) # {}
      <3>1. MatchesIn(old) \ F # {}
        BY <2>1, MatchLeft
      <3> QED
        BY <3>1 DEF MatchesIn
    <2>4. ASSUME k \in DOMAIN db["PBH_COUNTERS"], "flow_counter" \notin F
          PROVE  "flow_counter" \in DOMAIN e /\ e["flow_counter"] = "ENABLED"
      BY <1>0, <2>4 DEF Counts
    <2> HIDE DEF e, d, old
    <2>5. CASE "flow_counter" \in F
      <3>1. db' = DelEntry(d, "PBH_COUNTERS", k)
        BY <2>1, <2>5 DEF DropCounters
      <3> HIDE DEF k
      <3>2. db'["PBH_RULE"] = d["PBH_RULE"] /\ DOMAIN db'["PBH_COUNTERS"] = DOMAIN db["PBH_COUNTERS"] \ {k}
        BY <1>0, <2>2, <3>1, DelEntryTable
      <3> QED
        BY <2>2, <2>3, <3>2, RuleChanged
    <2>6. CASE "flow_counter" \notin F
      <3>1. db' = d
        BY <2>1, <2>6
      <3> HIDE DEF k
      <3> QED
        BY <2>2, <2>3, <2>4, <2>6, <3>1, RuleChanged
    <2> QED
      BY <2>5, <2>6
  <1>4. ASSUME NEW t, NEW r, PBH_RULE_delete(t, r) PROVE RulesMatch' /\ CountersCount'
    <2> DEFINE k == <<t, r>>
               d == DelEntry(db, "PBH_RULE", k)
    <2>1. /\ DOMAIN d = DOMAIN db /\ DOMAIN d["PBH_RULE"] = DOMAIN db["PBH_RULE"] \ {k}
          /\ \A j \in DOMAIN db["PBH_RULE"] \ {k} : d["PBH_RULE"][j] = db["PBH_RULE"][j]
          /\ d["PBH_COUNTERS"] = db["PBH_COUNTERS"]
      BY <1>0, DelEntryTable
    <2> HIDE DEF d
    <2>2. db' = DelEntry(d, "PBH_COUNTERS", k)
      BY <1>4 DEF PBH_RULE_delete, DropCounters, d
    <2> HIDE DEF k
    <2>3. db'["PBH_RULE"] = d["PBH_RULE"] /\ DOMAIN db'["PBH_COUNTERS"] = DOMAIN db["PBH_COUNTERS"] \ {k}
      BY <1>0, <2>1, <2>2, DelEntryTable
    <2>4. RulesMatch'
      BY <2>1, <2>3 DEF RulesMatch, Keys
    <2>5. \A j \in DOMAIN db'["PBH_COUNTERS"] : Counts(db', j)
      BY <1>0, <2>1, <2>3 DEF Counts
    <2> QED
      BY <2>4, <2>5, CountsThen
  <1>5. CASE clear_pbh_counters
    <2>1. /\ db'["PBH_RULE"] = db["PBH_RULE"]
          /\ \A k \in DOMAIN db'["PBH_COUNTERS"] :
               k \in DOMAIN db["PBH_RULE"] /\ Field(db, "PBH_RULE", k, "flow_counter", "") = "ENABLED"
      BY <1>0, <1>5 DEF clear_pbh_counters, Keys
    <2>2. RulesMatch'
      BY <2>1 DEF RulesMatch, Keys
    <2>3. CountersCount'
      BY <2>1 DEF CountersCount, Field, Keys
    <2> QED
      BY <2>2, <2>3
  <1> QED
    BY <1>1, <1>2, <1>3, <1>4, <1>5 DEF PbhRuleCommand

\* No command leaves policy based hashing inconsistent.
LEMMA PbhStep == SwitchTypeOK /\ PbhConsistent /\ [SwitchingNext]_db => PbhConsistent'
  <1> SUFFICES ASSUME SwitchTypeOK, PbhConsistent, [SwitchingNext]_db PROVE PbhConsistent'
    OBVIOUS
  <1>1. /\ PbhConsistent <=> RulesMatch /\ MasksFit /\ CountersCount
        /\ PbhConsistent' <=> RulesMatch' /\ MasksFit' /\ CountersCount'
    BY DEF PbhConsistent, RulesMatch, MasksFit, CountersCount
  <1>2. ASSUME db'["PBH_HASH_FIELD"] = db["PBH_HASH_FIELD"] PROVE MasksFit'
    BY <1>1, <1>2 DEF MasksFit, Stored, Field, Keys
  <1>3. ASSUME db'["PBH_RULE"] = db["PBH_RULE"], db'["PBH_COUNTERS"] = db["PBH_COUNTERS"]
        PROVE  RulesMatch' /\ CountersCount'
    BY <1>1, <1>3 DEF RulesMatch, CountersCount, Field, Keys
  <1> USE TableNames DEF SwitchTypeOK
  <1>4. CASE PbhFieldCommand
    BY <1>1, <1>3, <1>4, HashFieldStep, PbhFieldFrame DEF Only, Same, PbhFieldTables
  <1>5. CASE PbhRuleCommand
    BY <1>1, <1>2, <1>5, RuleStep, PbhRuleFrame DEF Only, Same, PbhRuleTables
  <1>6. ASSUME NEW T, Only(T), \A t \in PbhTouched : t \notin T PROVE PbhConsistent'
    BY <1>1, <1>2, <1>3, <1>6 DEF Only, Same, PbhTouched
  <1>7. CASE \/ VlanCommand \/ MemberCommand \/ PortchannelCommand \/ PortchannelMemberCommand
             \/ MirrorCommand \/ PortCommand \/ StpCommand \/ AddressCommand \/ InterfaceCommand
             \/ BindCommand
    BY <1>6, <1>7, VlanFrame, MemberFrame, PortchannelFrame, PortchannelMemberFrame, MirrorFrame, PortFrame,
       StpFrame, AddressFrame, InterfaceFrame, BindFrame
       DEF PbhTouched, VlanTables, MemberTables, PortchannelTables, PortchannelMemberTables, MirrorTables,
           PortTables, StpTables, InterfaceTables
  <1>8. CASE \/ VrfCommand \/ VrrpCommand \/ VxlanCommand \/ VnetCommand \/ MclagCommand \/ AclCommand
             \/ NatStaticCommand \/ NatPoolCommand \/ QuietCommand
    BY <1>6, <1>8, VrfFrame, VrrpFrame, VxlanFrame, VnetFrame, MclagFrame, AclFrame, NatStaticFrame,
       NatPoolFrame, QuietFrame
       DEF PbhTouched, VrfTables, InterfaceTables, VrrpTables, VxlanTables, VnetTables, MclagTables,
           AclTableTables, NatStaticTables, NatPoolTables, QuietTables, StormTables, MacTables,
           FastLinkupTables, StpPortTables, MgmtTables, RouteTables, EvpnTables, NvgreTables, AclRuleTables,
           PbhTables, NatOtherTables
  <1>9. CASE UNCHANGED db
    BY <1>1, <1>2, <1>3, <1>9
  <1> QED
    BY <1>4, <1>5, <1>7, <1>8, <1>9, Commands

---------------------------------------------------------------------------
(* Roles of ports.                                                         *)
RoleTables == {"PORT", "VLAN_MEMBER", "PORTCHANNEL_MEMBER", "MIRROR_SESSION", "ACL_TABLE"}
Untagged(d, k) == d["VLAN_MEMBER"][k].tagging_mode = "untagged"

\* What OneRole says, with uniqueness for the cardinalities; every ACL table
\* has the field ports.
Roles(d) ==
  /\ \A p \in DOMAIN d["PORT"] :
       /\ is_port_mirror_dst_port(d, p) => ~interface_is_in_vlan(d, p) /\ ~interface_is_in_portchannel(d, p)
       /\ interface_is_in_portchannel(d, p) => ~interface_is_in_vlan(d, p)
  /\ \A j, k \in DOMAIN d["PORTCHANNEL_MEMBER"] : j[2] = k[2] => j = k
  /\ \A j, k \in DOMAIN d["VLAN_MEMBER"] : j[2] = k[2] /\ Untagged(d, j) /\ Untagged(d, k) => j = k
  /\ \A t \in DOMAIN d["ACL_TABLE"] : /\ "ports" \in DOMAIN d["ACL_TABLE"][t]
                                      /\ \A p \in d["ACL_TABLE"][t]["ports"] : ~interface_is_in_portchannel(d, p)

\* Uniqueness and cardinality.
LEMMA AtMostOne ==
  ASSUME NEW S, \A x, y \in S : x = y
  PROVE  Cardinality(S) <= 1
  <1>1. CASE S = {}
    BY <1>1, FS_EmptySet
  <1>2. CASE S # {}
    <2>1. PICK x : S = {x}
      BY <1>2
    <2> QED
      BY <2>1, FS_Singleton
  <1> QED
    BY <1>1, <1>2

\* The strengthened form says what OneRole says.
LEMMA RolesHold == Roles(db) => OneRole
  <1> SUFFICES ASSUME Roles(db) PROVE OneRole
    OBVIOUS
  <1>1. AclPortsNotInPortchannel
    BY DEF Roles, AclPortsNotInPortchannel, Keys
  <1>2. ASSUME NEW p
        PROVE  /\ Cardinality(MembersOf(db, "PORTCHANNEL_MEMBER", p)) <= 1
               /\ Cardinality({k \in MembersOf(db, "VLAN_MEMBER", p) :
                                 db["VLAN_MEMBER"][k].tagging_mode = "untagged"}) <= 1
    <2>1. \A j, k \in MembersOf(db, "PORTCHANNEL_MEMBER", p) : j = k
      BY DEF Roles, MembersOf, Keys
    <2>2. \A j, k \in {q \in MembersOf(db, "VLAN_MEMBER", p) :
                          db["VLAN_MEMBER"][q].tagging_mode = "untagged"} : j = k
      BY DEF Roles, MembersOf, Keys, Untagged
    <2> QED
      BY <2>1, <2>2, AtMostOne
  <1>3. OneRolePerPort
    BY <1>2 DEF Roles, OneRolePerPort, Keys
  <1> QED
    BY <1>1, <1>3 DEF OneRole

\* A command that writes none of these tables, or fields of ports only.
LEMMA RolesSame ==
  ASSUME Roles(db), DOMAIN db'["PORT"] = DOMAIN db["PORT"], \A t \in RoleTables \ {"PORT"} : db'[t] = db[t]
  PROVE  Roles(db')
  <1>1. /\ db'["VLAN_MEMBER"] = db["VLAN_MEMBER"] /\ db'["PORTCHANNEL_MEMBER"] = db["PORTCHANNEL_MEMBER"]
        /\ db'["MIRROR_SESSION"] = db["MIRROR_SESSION"] /\ db'["ACL_TABLE"] = db["ACL_TABLE"]
    BY DEF RoleTables
  <1>2. \A p : /\ is_port_mirror_dst_port(db', p) <=> is_port_mirror_dst_port(db, p)
               /\ interface_is_in_vlan(db', p) <=> interface_is_in_vlan(db, p)
               /\ interface_is_in_portchannel(db', p) <=> interface_is_in_portchannel(db, p)
    BY <1>1 DEF is_port_mirror_dst_port, interface_is_in_vlan, interface_is_in_portchannel, MembersOf,
                Keys, Field
  <1>3. \A j : Untagged(db', j) <=> Untagged(db, j)
    BY <1>1 DEF Untagged
  <1> QED
    BY <1>1, <1>2, <1>3 DEF Roles

\* config vlan member refuses mirror destinations and members of port channels.
LEMMA MemberRole ==
  ASSUME MembershipInv, Roles(db), MemberCommand
  PROVE  Roles(db')
  <1> USE TableNames DEF MembershipInv, SwitchTypeOK
  <1>1. /\ db'["PORT"] = db["PORT"] /\ db'["PORTCHANNEL_MEMBER"] = db["PORTCHANNEL_MEMBER"]
        /\ db'["MIRROR_SESSION"] = db["MIRROR_SESSION"] /\ db'["ACL_TABLE"] = db["ACL_TABLE"]
    BY MemberFrame DEF Only, Same, MemberTables
  <1>2. \A p : /\ is_port_mirror_dst_port(db', p) <=> is_port_mirror_dst_port(db, p)
               /\ interface_is_in_portchannel(db', p) <=> interface_is_in_portchannel(db, p)
    BY <1>1 DEF is_port_mirror_dst_port, interface_is_in_portchannel, MembersOf, Keys, Field
  <1>3. ASSUME NEW v, NEW q, NEW u \in BOOLEAN, add_vlan_member(v, q, u) PROVE Roles(db')
    <2> DEFINE k == <<v, q>>
               e == [tagging_mode |-> IF u THEN "untagged" ELSE "tagged"]
    <2>1. Same(db, enable_stp_on_port(db, q), {"STP_PORT"})
      BY SameSelf, SameSet DEF enable_stp_on_port, interface_enable_stp
    <2>2. db' = SetEntry(enable_stp_on_port(db, q), "VLAN_MEMBER", k, e)
      BY <1>3 DEF add_vlan_member
    <2>3. k[2] = q
      OBVIOUS
    <2>3a. e.tagging_mode = "untagged" => u
      OBVIOUS
    <2> HIDE DEF k, e
    <2>4. /\ DOMAIN db'["VLAN_MEMBER"] = DOMAIN db["VLAN_MEMBER"] \cup {k}
          /\ db'["VLAN_MEMBER"][k] = e
          /\ \A j \in DOMAIN db["VLAN_MEMBER"] : j # k => db'["VLAN_MEMBER"][j] = db["VLAN_MEMBER"][j]
      BY <2>1, <2>2, SetEntryTable DEF Same
    <2>5. /\ ~is_port_mirror_dst_port(db, q) /\ (q \in Ports => ~interface_is_in_portchannel(db, q))
          /\ u => \A j \in DOMAIN db["VLAN_MEMBER"] : j[2] = q => ~Untagged(db, j)
      BY <1>3 DEF add_vlan_member, interface_is_untagged_member, MembersOf, Keys, Untagged
    <2>6. \A p : p # q => (interface_is_in_vlan(db', p) <=> interface_is_in_vlan(db, p))
      BY <2>3, <2>4 DEF interface_is_in_vlan, MembersOf, Keys
    <2>7. \A p \in DOMAIN db'["PORT"] :
            /\ is_port_mirror_dst_port(db', p) => ~interface_is_in_vlan(db', p) /\ ~interface_is_in_portchannel(db', p)
            /\ interface_is_in_portchannel(db', p) => ~interface_is_in_vlan(db', p)
      BY <1>1, <1>2, <2>5, <2>6 DEF Roles
    <2>8. ASSUME NEW j, j \in DOMAIN db'["VLAN_MEMBER"], NEW i, i \in DOMAIN db'["VLAN_MEMBER"],
                 j[2] = i[2], Untagged(db', j), Untagged(db', i)
          PROVE  j = i
      <3>1. ASSUME NEW x, x \in DOMAIN db'["VLAN_MEMBER"], x # k, Untagged(db', x)
            PROVE  x \in DOMAIN db["VLAN_MEMBER"] /\ Untagged(db, x)
        BY <2>4, <3>1 DEF Untagged
      <3>2. Untagged(db', k) => u
        BY <2>3a, <2>4 DEF Untagged
      <3>3. CASE j # k /\ i # k
        BY <2>8, <3>1, <3>3 DEF Roles
      <3>4. CASE j = k \/ i = k
        BY <2>3, <2>5, <2>8, <3>1, <3>2, <3>4
      <3> QED
        BY <3>3, <3>4
    <2> QED
      BY <1>1, <1>2, <2>7, <2>8 DEF Roles
  <1>4. ASSUME NEW v, NEW q, del_vlan_member(v, q) PROVE Roles(db')
    <2>1. Same(db, disable_stp_on_vlan_port(db, v, q), {"STP_PORT", "STP_VLAN_PORT"})
      BY SameSelf, SameDelOne DEF disable_stp_on_vlan_port
    <2>2. /\ DOMAIN db'["VLAN_MEMBER"] \subseteq DOMAIN db["VLAN_MEMBER"]
          /\ \A j \in DOMAIN db'["VLAN_MEMBER"] : db'["VLAN_MEMBER"][j] = db["VLAN_MEMBER"][j]
      BY <1>4, <2>1, DelEntryTable DEF del_vlan_member, Same
    <2>3. /\ \A p : interface_is_in_vlan(db', p) => interface_is_in_vlan(db, p)
          /\ \A j \in DOMAIN db'["VLAN_MEMBER"] : Untagged(db', j) <=> Untagged(db, j)
      BY <2>2 DEF interface_is_in_vlan, MembersOf, Keys, Untagged
    <2> QED
      BY <1>1, <1>2, <2>2, <2>3 DEF Roles
  <1> QED
    BY <1>3, <1>4 DEF MemberCommand

\* config portchannel member refuses ports with any other role.
LEMMA PortchannelMemberRole ==
  ASSUME MembershipInv, Roles(db), PortchannelMemberCommand
  PROVE  Roles(db')
  <1> USE TableNames DEF MembershipInv, SwitchTypeOK
  <1>1. /\ db'["PORT"] = db["PORT"] /\ db'["VLAN_MEMBER"] = db["VLAN_MEMBER"]
        /\ db'["MIRROR_SESSION"] = db["MIRROR_SESSION"] /\ db'["ACL_TABLE"] = db["ACL_TABLE"]
    BY PortchannelMemberFrame DEF Only, Same, PortchannelMemberTables
  <1>2. /\ \A p : /\ is_port_mirror_dst_port(db', p) <=> is_port_mirror_dst_port(db, p)
                  /\ interface_is_in_vlan(db', p) <=> interface_is_in_vlan(db, p)
        /\ \A j \in DOMAIN db["VLAN_MEMBER"] : Untagged(db', j) <=> Untagged(db, j)
    BY <1>1 DEF is_port_mirror_dst_port, interface_is_in_vlan, MembersOf, Keys, Field, Untagged
  <1>3. ASSUME NEW c, NEW q, add_portchannel_member(c, q) PROVE Roles(db')
    <2> DEFINE k == <<c, q>>
    <2>1. DOMAIN db'["PORTCHANNEL_MEMBER"] = DOMAIN db["PORTCHANNEL_MEMBER"] \cup {k}
      BY <1>3, SetEntryTable DEF add_portchannel_member
    <2>2. k[2] = q
      OBVIOUS
    <2> HIDE DEF k
    <2>3. /\ ~is_port_mirror_dst_port(db, q) /\ ~interface_is_in_vlan(db, q)
          /\ \A j \in DOMAIN db["PORTCHANNEL_MEMBER"] : j[2] # q
          /\ BoundTables(db, "ACL_TABLE", "ports", q) = {}
      BY <1>3 DEF add_portchannel_member, interface_is_in_portchannel, MembersOf, Keys
    <2>4. \A p : p # q => (interface_is_in_portchannel(db', p) <=> interface_is_in_portchannel(db, p))
      BY <2>1, <2>2 DEF interface_is_in_portchannel, MembersOf, Keys
    <2>5. \A t \in DOMAIN db["ACL_TABLE"] : q \notin db["ACL_TABLE"][t]["ports"]
      BY <2>3 DEF Roles, BoundTables, Field, Keys
    <2> QED
      BY <1>1, <1>2, <2>1, <2>2, <2>3, <2>4, <2>5 DEF Roles
  <1>4. ASSUME NEW c, NEW q, del_portchannel_member(c, q) PROVE Roles(db')
    <2>1. DOMAIN db'["PORTCHANNEL_MEMBER"] \subseteq DOMAIN db["PORTCHANNEL_MEMBER"]
      BY <1>4, DelEntryTable DEF del_portchannel_member
    <2>2. \A p : interface_is_in_portchannel(db', p) => interface_is_in_portchannel(db, p)
      BY <2>1 DEF interface_is_in_portchannel, MembersOf, Keys
    <2> QED
      BY <1>1, <1>2, <2>1, <2>2 DEF Roles
  <1> QED
    BY <1>3, <1>4 DEF PortchannelMemberCommand

\* config mirror_session refuses a destination that switches traffic.
LEMMA MirrorRole ==
  ASSUME MembershipInv, Roles(db), MirrorCommand
  PROVE  Roles(db')
  <1> USE TableNames DEF MembershipInv, SwitchTypeOK
  <1> DEFINE T == "MIRROR_SESSION"
  <1>1. /\ db'["PORT"] = db["PORT"] /\ db'["VLAN_MEMBER"] = db["VLAN_MEMBER"]
        /\ db'["PORTCHANNEL_MEMBER"] = db["PORTCHANNEL_MEMBER"] /\ db'["ACL_TABLE"] = db["ACL_TABLE"]
    BY MirrorFrame DEF Only, Same, MirrorTables
  <1>2. /\ \A p : /\ interface_is_in_portchannel(db', p) <=> interface_is_in_portchannel(db, p)
                  /\ interface_is_in_vlan(db', p) <=> interface_is_in_vlan(db, p)
        /\ \A j \in DOMAIN db["VLAN_MEMBER"] : Untagged(db', j) <=> Untagged(db, j)
    BY <1>1 DEF interface_is_in_portchannel, interface_is_in_vlan, MembersOf, Keys, Untagged
  <1>3. ASSUME \A p \in Ports : is_port_mirror_dst_port(db', p) =>
                 \/ is_port_mirror_dst_port(db, p)
                 \/ ~interface_is_in_vlan(db, p) /\ ~interface_is_in_portchannel(db, p)
        PROVE  Roles(db')
    BY <1>1, <1>2, <1>3 DEF Roles
  <1>4. ASSUME NEW s, NEW e, db' = SetEntry(db, T, s, e), NEW p \in Ports, is_port_mirror_dst_port(db', p)
        PROVE  is_port_mirror_dst_port(db, p) \/ ("dst_port" \in DOMAIN e /\ e["dst_port"] = p)
    <2>1. DOMAIN db'[T] = DOMAIN db[T] \cup {s} /\ db'[T][s] = e /\ \A j \in DOMAIN db[T] : j # s => db'[T][j] = db[T][j]
      BY <1>4, SetEntryTable
    <2>2. PICK x \in DOMAIN db'[T] : Field(db', T, x, "dst_port", "") = p
      BY <1>4 DEF is_port_mirror_dst_port, Keys
    <2>3. "dst_port" \in DOMAIN db'[T][x] /\ db'[T][x]["dst_port"] = p
      BY <2>2, InterfaceNames DEF Field
    <2>4. CASE x = s
      BY <2>1, <2>3, <2>4
    <2>5. CASE x # s
      <3>1. x \in DOMAIN db[T] /\ Field(db, T, x, "dst_port", "") = p
        BY <2>1, <2>3, <2>5 DEF Field
      <3> QED
        BY <3>1 DEF is_port_mirror_dst_port, Keys
    <2> QED
      BY <2>4, <2>5
  <1>5. ASSUME NEW s, NEW src, NEW x, add_erspan(s, src, x) PROVE Roles(db')
    <2> DEFINE e == Over([type |-> "ERSPAN"], gather_session_info(src, x))
    <2>1. "dst_port" \notin DOMAIN e
      BY DEF Over, gather_session_info, NoEntries
    <2>2. db' = SetEntry(db, T, s, e)
      BY <1>5 DEF add_erspan
    <2> HIDE DEF e
    <2> QED
      BY <1>3, <1>4, <2>1, <2>2
  <1>6. ASSUME NEW s, NEW q \in Ports, NEW src, NEW x, add_span(s, q, src, x) PROVE Roles(db')
    <2> DEFINE e == Over([type |-> "SPAN", dst_port |-> q], gather_session_info(src, x))
    <2>1. "dst_port" \in DOMAIN e /\ e["dst_port"] = q
      BY DEF Over, gather_session_info, NoEntries
    <2>2. db' = SetEntry(db, T, s, e)
      BY <1>6 DEF add_span
    <2>3. ~interface_is_in_vlan(db, q) /\ ~interface_is_in_portchannel(db, q)
      BY <1>6, InterfaceNames DEF add_span, validate_mirror_session_config
    <2> HIDE DEF e
    <2> QED
      BY <1>3, <1>4, <2>1, <2>2, <2>3
  <1>7. ASSUME NEW s, remove_mirror_session(s) PROVE Roles(db')
    <2>1. DOMAIN db'[T] \subseteq DOMAIN db[T] /\ \A j \in DOMAIN db'[T] : db'[T][j] = db[T][j]
      BY <1>7, DelEntryTable DEF remove_mirror_session
    <2>2. \A p \in Ports : is_port_mirror_dst_port(db', p) => is_port_mirror_dst_port(db, p)
      BY <2>1 DEF is_port_mirror_dst_port, Field, Keys
    <2> QED
      BY <1>3, <2>2
  <1> QED
    BY <1>5, <1>6, <1>7 DEF MirrorCommand

\* config acl add table takes no member of a port channel.
LEMMA AclRole ==
  ASSUME MembershipInv, Roles(db), AclCommand
  PROVE  Roles(db')
  <1> USE TableNames DEF MembershipInv, SwitchTypeOK
  <1>1. /\ db'["PORT"] = db["PORT"] /\ db'["VLAN_MEMBER"] = db["VLAN_MEMBER"]
        /\ db'["PORTCHANNEL_MEMBER"] = db["PORTCHANNEL_MEMBER"] /\ db'["MIRROR_SESSION"] = db["MIRROR_SESSION"]
    BY AclFrame DEF Only, Same, AclTableTables
  <1>2. /\ \A p : /\ interface_is_in_portchannel(db', p) <=> interface_is_in_portchannel(db, p)
                  /\ interface_is_in_vlan(db', p) <=> interface_is_in_vlan(db, p)
                  /\ is_port_mirror_dst_port(db', p) <=> is_port_mirror_dst_port(db, p)
        /\ \A j \in DOMAIN db["VLAN_MEMBER"] : Untagged(db', j) <=> Untagged(db, j)
    BY <1>1 DEF interface_is_in_portchannel, interface_is_in_vlan, is_port_mirror_dst_port, MembersOf, Keys,
                Untagged, Field
  <1>3. ASSUME NEW t, NEW y, NEW P, NEW g, add_table(t, y, P, g) PROVE Roles(db')
    <2> DEFINE Q == parse_acl_table_info(db, P)
               e == [type |-> y, ports |-> Q, stage |-> g]
    <2>1. Q \subseteq get_acl_bound_ports(db)
      BY <1>3 DEF add_table
    <2>2. db' = SetEntry(db, "ACL_TABLE", t, e)
      BY <1>3 DEF add_table
    <2> HIDE DEF Q
    <2>3. ASSUME NEW p \in Q, interface_is_in_portchannel(db, p) PROVE FALSE
      <3>1. PICK k \in DOMAIN db["PORTCHANNEL_MEMBER"] : k[2] = p
        BY <2>3 DEF interface_is_in_portchannel, MembersOf, Keys
      <3>2. p \in DOMAIN db["PORT"] /\ p \notin DOMAIN db["PORTCHANNEL"]
        BY <3>1, InterfaceNames DEF MembersExist, Keys, is_valid_port, Has
      <3>3. p \in get_acl_bound_ports(db)
        BY <2>1
      <3>4. PICK j \in DOMAIN db["PORTCHANNEL_MEMBER"] : j[1] = p
        BY <3>1, <3>3 DEF get_acl_bound_ports, Keys
      <3> QED
        BY <3>2, <3>4 DEF MembersExist, Keys, is_valid_portchannel, Has
    <2>4. "ports" \in DOMAIN e /\ e["ports"] = Q
      OBVIOUS
    <2> HIDE DEF e
    <2>5. /\ DOMAIN db'["ACL_TABLE"] = DOMAIN db["ACL_TABLE"] \cup {t} /\ db'["ACL_TABLE"][t] = e
          /\ \A j \in DOMAIN db["ACL_TABLE"] : j # t => db'["ACL_TABLE"][j] = db["ACL_TABLE"][j]
      BY <2>2, SetEntryTable
    <2> QED
      BY <1>1, <1>2, <2>3, <2>4, <2>5 DEF Roles
  <1>4. ASSUME NEW t, remove_table(t) PROVE Roles(db')
    <2>1. /\ DOMAIN db'["ACL_TABLE"] \subseteq DOMAIN db["ACL_TABLE"]
          /\ \A j \in DOMAIN db'["ACL_TABLE"] : db'["ACL_TABLE"][j] = db["ACL_TABLE"][j]
      BY <1>4, DelEntryTable DEF remove_table
    <2> QED
      BY <1>1, <1>2, <2>1 DEF Roles
  <1> QED
    BY <1>3, <1>4 DEF AclCommand

\* No command gives a port a second role.
LEMMA RoleStep == MembershipInv /\ Roles(db) /\ [SwitchingNext]_db => Roles(db')
  <1> SUFFICES ASSUME MembershipInv, Roles(db), [SwitchingNext]_db PROVE Roles(db')
    OBVIOUS
  <1> USE TableNames DEF MembershipInv, SwitchTypeOK
  <1>1. CASE MemberCommand \/ PortchannelMemberCommand \/ MirrorCommand \/ AclCommand
    BY <1>1, MemberRole, PortchannelMemberRole, MirrorRole, AclRole
  <1>2. CASE PortCommand
    BY <1>2, PortKeys, PortFrame, RolesSame DEF Only, Same, PortTables, RoleTables
  <1>3. ASSUME NEW T, Only(T), \A t \in RoleTables : t \notin T PROVE Roles(db')
    BY <1>3, RolesSame DEF Only, Same, RoleTables
  <1>4. CASE \/ VlanCommand \/ PortchannelCommand \/ StpCommand \/ AddressCommand \/ InterfaceCommand
             \/ BindCommand \/ VrfCommand \/ VrrpCommand
    BY <1>3, <1>4, VlanFrame, PortchannelFrame, StpFrame, AddressFrame, InterfaceFrame, BindFrame, VrfFrame,
       VrrpFrame
       DEF RoleTables, VlanTables, PortchannelTables, StpTables, InterfaceTables, VrfTables, VrrpTables
  <1>5. CASE \/ VxlanCommand \/ VnetCommand \/ MclagCommand \/ PbhFieldCommand \/ PbhRuleCommand
             \/ NatStaticCommand \/ NatPoolCommand \/ QuietCommand
    BY <1>3, <1>5, VxlanFrame, VnetFrame, MclagFrame, PbhFieldFrame, PbhRuleFrame, NatStaticFrame,
       NatPoolFrame, QuietFrame
       DEF RoleTables, VxlanTables, VnetTables, InterfaceTables, MclagTables, PbhFieldTables, PbhRuleTables,
           NatStaticTables, NatPoolTables, QuietTables, StormTables, MacTables, FastLinkupTables,
           StpPortTables, MgmtTables, RouteTables, EvpnTables, NvgreTables, AclRuleTables, PbhTables,
           NatOtherTables
  <1>6. CASE UNCHANGED db
    BY <1>6, RolesSame
  <1> QED
    BY <1>1, <1>2, <1>4, <1>5, <1>6, Commands

---------------------------------------------------------------------------
(* MTU and TPID of the ports of a port channel.                            *)
MatchTables == {"PORT", "PORTCHANNEL", "PORTCHANNEL_MEMBER"}

\* Every port channel keeps the MTU it is created with: the command that
\* sets an MTU takes ports only.
Matching(d) ==
  /\ \A c \in DOMAIN d["PORTCHANNEL"] :
       "mtu" \in DOMAIN d["PORTCHANNEL"][c] /\ d["PORTCHANNEL"][c]["mtu"] = DefaultMtu
  /\ \A k \in DOMAIN d["PORTCHANNEL_MEMBER"] :
       /\ "mtu" \in DOMAIN d["PORT"][k[2]] => d["PORT"][k[2]]["mtu"] = DefaultMtu
       /\ "tpid" \in DOMAIN d["PORT"][k[2]] => d["PORT"][k[2]]["tpid"] = "0x8100"

\* The entry n has the field f as e has it.
Keeps(e, n, f) == (f \in DOMAIN n <=> f \in DOMAIN e) /\ (f \in DOMAIN e => n[f] = e[f])

\* The strengthened form says what MembersMatchPortchannel says.
LEMMA MatchingHolds == MembershipInv /\ Matching(db) => MembersMatchPortchannel
  BY DEF MembershipInv, MembersExist, Matching, MembersMatchPortchannel, Keys, Field, Has,
         is_valid_port, is_valid_portchannel

\* A command that writes none of these tables.
LEMMA MatchingSame ==
  ASSUME Matching(db), \A t \in MatchTables : db'[t] = db[t]
  PROVE  Matching(db')
  <1>1. /\ db'["PORT"] = db["PORT"] /\ db'["PORTCHANNEL"] = db["PORTCHANNEL"]
        /\ db'["PORTCHANNEL_MEMBER"] = db["PORTCHANNEL_MEMBER"]
    BY DEF MatchTables
  <1> QED
    BY <1>1 DEF Matching

\* mod_entry keeps the fields it does not name.
LEMMA ModEntryKeeps ==
  ASSUME NEW d, NEW t \in DOMAIN d, NEW k \in DOMAIN d[t], NEW e, NEW f, f \notin DOMAIN e
  PROVE  Keeps(d[t][k], ModEntry(d, t, k, e)[t][k], f)
  BY DEF ModEntry, Put, Over, Keeps

\* The commands on ports leave MTU and TPID of members alone, and the MTU
\* of port channels.
LEMMA PortFields ==
  ASSUME MembershipInv, PortCommand
  PROVE  /\ \A c \in DOMAIN db["PORTCHANNEL"] : Keeps(db["PORTCHANNEL"][c], db'["PORTCHANNEL"][c], "mtu")
         /\ \A p \in DOMAIN db["PORT"] : interface_is_in_portchannel(db, p) =>
              /\ Keeps(db["PORT"][p], db'["PORT"][p], "mtu")
              /\ Keeps(db["PORT"][p], db'["PORT"][p], "tpid")
  <1> DEFINE Kept ==
        /\ \A c \in DOMAIN db["PORTCHANNEL"] : Keeps(db["PORTCHANNEL"][c], db'["PORTCHANNEL"][c], "mtu")
        /\ \A p \in DOMAIN db["PORT"] : interface_is_in_portchannel(db, p) =>
              /\ Keeps(db["PORT"][p], db'["PORT"][p], "mtu")
              /\ Keeps(db["PORT"][p], db'["PORT"][p], "tpid")
  <1> USE TableNames DEF MembershipInv, SwitchTypeOK, Has, is_valid_port, is_valid_portchannel
  <1>0. \A e, n, f : n = e => Keeps(e, n, f)
    BY DEF Keeps
  <1>1. ASSUME NEW p, p \in DOMAIN db["PORT"], NEW e, db' = ModEntry(db, "PORT", p, e),
               interface_is_in_portchannel(db, p) => "mtu" \notin DOMAIN e /\ "tpid" \notin DOMAIN e
        PROVE  Kept
    <2>1. /\ db'["PORTCHANNEL"] = db["PORTCHANNEL"]
          /\ \A j \in DOMAIN db["PORT"] : j # p => db'["PORT"][j] = db["PORT"][j]
      BY <1>1, ModEntryTable
    <2>2. interface_is_in_portchannel(db, p) => /\ Keeps(db["PORT"][p], db'["PORT"][p], "mtu")
                                                /\ Keeps(db["PORT"][p], db'["PORT"][p], "tpid")
      BY <1>1, ModEntryKeeps
    <2> QED
      BY <1>0, <2>1, <2>2
  <1>2. ASSUME NEW c, c \in DOMAIN db["PORTCHANNEL"], NEW e, db' = ModEntry(db, "PORTCHANNEL", c, e),
               "mtu" \notin DOMAIN e
        PROVE  Kept
    <2>1. /\ db'["PORT"] = db["PORT"]
          /\ \A j \in DOMAIN db["PORTCHANNEL"] : j # c => db'["PORTCHANNEL"][j] = db["PORTCHANNEL"][j]
      BY <1>2, ModEntryTable
    <2>2. Keeps(db["PORTCHANNEL"][c], db'["PORTCHANNEL"][c], "mtu")
      BY <1>2, ModEntryKeeps
    <2> QED
      BY <1>0, <2>1, <2>2
  <1>3. ASSUME NEW p \in Ports, NEW f, NEW x, SetPort(p, f, x),
               interface_is_in_portchannel(db, p) => f # "mtu" /\ f # "tpid"
        PROVE  Kept
    BY <1>1, <1>3 DEF SetPort, One
  <1>4. ASSUME NEW p \in Ports \cup PortChannels, NEW y, switchport_mode(y, p) PROVE Kept
    <2> DEFINE e == [mode |-> y]
    <2>1. /\ p \in DOMAIN db["PORT"] \/ p \in DOMAIN db["PORTCHANNEL"]
          /\ db' = ModEntry(db, PortTable(p), p, e)
      BY <1>4 DEF switchport_mode
    <2>2. "mtu" \notin DOMAIN e /\ "tpid" \notin DOMAIN e
      OBVIOUS
    <2> HIDE DEF e, Kept
    <2>3. CASE p \in Ports
      BY <1>1, <2>1, <2>2, <2>3 DEF PortTable
    <2>4. CASE p \notin Ports
      BY <1>2, <2>1, <2>2, <2>4 DEF PortTable
    <2> QED
      BY <2>3, <2>4
  <1>5. ASSUME NEW p \in Ports, NEW n, add_dhcp_mitigation_rate(p, n) \/ del_dhcp_mitigation_rate(p, n)
        PROVE  Kept
    BY <1>1, <1>5 DEF add_dhcp_mitigation_rate, del_dhcp_mitigation_rate
  <1>6. ASSUME NEW p \in Ports \cup PortChannels, NEW x, tpid(p, x) PROVE Kept
    <2> DEFINE e == [tpid |-> x]
    <2>1. /\ IF p \in Ports THEN ~interface_is_in_portchannel(db, p) ELSE p \in DOMAIN db["PORTCHANNEL"]
          /\ db' = ModEntry(db, PortTable(p), p, e)
      BY <1>6 DEF tpid
    <2>2. "mtu" \notin DOMAIN e
      OBVIOUS
    <2> HIDE DEF e, Kept
    <2>3. CASE p \in Ports
      BY <1>1, <2>1, <2>3 DEF PortTable
    <2>4. CASE p \notin Ports
      BY <1>2, <2>1, <2>2, <2>4 DEF PortTable
    <2> QED
      BY <2>3, <2>4
  <1>7. ASSUME NEW N, NEW x, SetAdminStatus(N, x) PROVE Kept
    <2>1. \A e : /\ Keeps(e, Put(e, "admin_status", x), "mtu")
                 /\ Keeps(e, Put(e, "admin_status", x), "tpid")
      BY DEF Keeps, Put
    <2>2. \A t \in {"PORT", "PORTCHANNEL"} : \A p \in DOMAIN db[t] :
            db'[t][p] = IF p \in N THEN Put(db[t][p], "admin_status", x) ELSE db[t][p]
      BY <1>7 DEF SetAdminStatus
    <2> QED
      BY <1>0, <2>1, <2>2
  <1>8. ASSUME NEW c, NEW m, add_pc_sys_id_mac(c, m) PROVE Kept
    BY <1>2, <1>8 DEF add_pc_sys_id_mac
  <1>9. ASSUME NEW c, NEW m, del_pc_sys_id_mac(c, m) PROVE Kept
    <2>1. db'["PORT"] = db["PORT"]
      BY <1>9 DEF del_pc_sys_id_mac, WithoutField
    <2>2. \A j \in DOMAIN db["PORTCHANNEL"] : Keeps(db["PORTCHANNEL"][j], db'["PORTCHANNEL"][j], "mtu")
      BY <1>9 DEF del_pc_sys_id_mac, WithoutField, Keeps
    <2> QED
      BY <1>0, <2>1, <2>2
  <1>10. ASSUME NEW p \in Ports, NEW x,
                \/ speed(p, x) \/ mtu(p, x) \/ fec(p, x) \/ interface_type(p, x) \/ dom(p, x)
                \/ fast_linkup(p, x) \/ advertised_speeds(p, x) \/ advertised_types(p, x)
                \/ frequency(p, x) \/ tx_power(p, x) \/ link_training(p, x) \/ autoneg(p, x)
         PROVE  Kept
    <2>1. \E f, y : SetPort(p, f, y) /\ (interface_is_in_portchannel(db, p) => f # "mtu" /\ f # "tpid")
      BY <1>10 DEF speed, mtu, fec, interface_type, dom, fast_linkup, advertised_speeds, advertised_types,
                   frequency, tx_power, link_training, autoneg
    <2> QED
      BY <1>3, <2>1
  <1>11. ASSUME NEW x, startup(x) \/ shutdown(x) PROVE Kept
    BY <1>7, <1>11 DEF startup, shutdown
  <1> QED
    BY <1>4, <1>5, <1>6, <1>8, <1>9, <1>10, <1>11 DEF PortCommand

\* No command makes a member differ from its port channel.
LEMMA MatchStep == MembershipInv /\ Matching(db) /\ [SwitchingNext]_db => Matching(db')
  <1> SUFFICES ASSUME MembershipInv, Matching(db), [SwitchingNext]_db PROVE Matching(db')
    OBVIOUS
  <1> USE TableNames DEF MembershipInv, SwitchTypeOK
  <1>1. CASE PortCommand
    <2>1. db'["PORTCHANNEL_MEMBER"] = db["PORTCHANNEL_MEMBER"]
      BY <1>1, PortFrame DEF Only, Same, PortTables
    <2>2. \A k \in DOMAIN db["PORTCHANNEL_MEMBER"] : k[2] \in DOMAIN db["PORT"] /\ interface_is_in_portchannel(db, k[2])
      BY DEF interface_is_in_portchannel, MembersOf, Keys, MembersExist, is_valid_port, Has
    <2> QED
      BY <1>1, <2>1, <2>2, PortFields, PortKeys DEF Keeps, Matching
  <1>2. CASE PortchannelCommand
    <2>1. db'["PORTCHANNEL_MEMBER"] = db["PORTCHANNEL_MEMBER"] /\ db'["PORT"] = db["PORT"]
      BY <1>2, PortchannelFrame DEF Only, Same, PortchannelTables
    <2>2. ASSUME NEW c, NEW n, NEW f, NEW r, add_portchannel(c, n, f, r) PROVE Matching(db')
      <3> DEFINE e == [admin_status |-> "up", mtu |-> DefaultMtu, lacp_key |-> "auto", fast_rate |-> r,
                       min_links |-> n, fallback |-> f]
      <3>1. db' = SetEntry(db, "PORTCHANNEL", c, e)
        BY <2>2 DEF add_portchannel
      <3>2. "mtu" \in DOMAIN e /\ e["mtu"] = DefaultMtu
        OBVIOUS
      <3> HIDE DEF e
      <3>3. /\ DOMAIN db'["PORTCHANNEL"] = DOMAIN db["PORTCHANNEL"] \cup {c} /\ db'["PORTCHANNEL"][c] = e
            /\ \A j \in DOMAIN db["PORTCHANNEL"] : j # c => db'["PORTCHANNEL"][j] = db["PORTCHANNEL"][j]
        BY <3>1, SetEntryTable
      <3> QED
        BY <2>1, <3>2, <3>3 DEF Matching
    <2>3. ASSUME NEW c, remove_portchannel(c) PROVE Matching(db')
      <3>1. /\ DOMAIN db'["PORTCHANNEL"] \subseteq DOMAIN db["PORTCHANNEL"]
            /\ \A j \in DOMAIN db'["PORTCHANNEL"] : db'["PORTCHANNEL"][j] = db["PORTCHANNEL"][j]
        BY <2>3, DelEntryTable DEF remove_portchannel
      <3> QED
        BY <2>1, <3>1 DEF Matching
    <2> QED
      BY <1>2, <2>2, <2>3 DEF PortchannelCommand
  <1>3. CASE PortchannelMemberCommand
    <2>1. db'["PORTCHANNEL"] = db["PORTCHANNEL"] /\ db'["PORT"] = db["PORT"]
      BY <1>3, PortchannelMemberFrame DEF Only, Same, PortchannelMemberTables
    <2>2. ASSUME NEW c, NEW p, add_portchannel_member(c, p) PROVE Matching(db')
      <3> DEFINE k == <<c, p>>
      <3>1. db' = SetEntry(db, "PORTCHANNEL_MEMBER", k, NoEntries)
        BY <2>2 DEF add_portchannel_member
      <3>2. k[2] = p
        OBVIOUS
      <3> HIDE DEF k
      <3>3. DOMAIN db'["PORTCHANNEL_MEMBER"] = DOMAIN db["PORTCHANNEL_MEMBER"] \cup {k}
        BY <3>1, SetEntryTable
      <3>4. /\ c \in DOMAIN db["PORTCHANNEL"] /\ p \in DOMAIN db["PORT"]
            /\ "mtu" \in DOMAIN db["PORTCHANNEL"][c] /\ "mtu" \in DOMAIN db["PORT"][p] =>
                 db["PORTCHANNEL"][c]["mtu"] = db["PORT"][p]["mtu"]
            /\ "tpid" \in DOMAIN db["PORT"][p] => db["PORT"][p]["tpid"] = "0x8100"
        BY <2>2 DEF add_portchannel_member, Field, is_valid_port, is_valid_portchannel, Has
      <3> QED
        BY <2>1, <3>2, <3>3, <3>4 DEF Matching
    <2>3. ASSUME NEW c, NEW p, del_portchannel_member(c, p) PROVE Matching(db')
      <3>1. DOMAIN db'["PORTCHANNEL_MEMBER"] \subseteq DOMAIN db["PORTCHANNEL_MEMBER"]
        BY <2>3, DelEntryTable DEF del_portchannel_member
      <3> QED
        BY <2>1, <3>1 DEF Matching
    <2> QED
      BY <1>3, <2>2, <2>3 DEF PortchannelMemberCommand
  <1>4. ASSUME NEW T, Only(T), \A t \in MatchTables : t \notin T PROVE Matching(db')
    BY <1>4, MatchingSame DEF Only, Same, MatchTables
  <1>5. CASE \/ VlanCommand \/ MemberCommand \/ MirrorCommand \/ StpCommand \/ AddressCommand
             \/ InterfaceCommand \/ BindCommand \/ VrfCommand \/ VrrpCommand
    BY <1>4, <1>5, VlanFrame, MemberFrame, MirrorFrame, StpFrame, AddressFrame, InterfaceFrame, BindFrame,
       VrfFrame, VrrpFrame
       DEF MatchTables, VlanTables, MemberTables, MirrorTables, StpTables, InterfaceTables, VrfTables,
           VrrpTables
  <1>6. CASE \/ VxlanCommand \/ VnetCommand \/ MclagCommand \/ AclCommand \/ PbhFieldCommand
             \/ PbhRuleCommand \/ NatStaticCommand \/ NatPoolCommand \/ QuietCommand
    BY <1>4, <1>6, VxlanFrame, VnetFrame, MclagFrame, AclFrame, PbhFieldFrame, PbhRuleFrame, NatStaticFrame,
       NatPoolFrame, QuietFrame
       DEF MatchTables, VxlanTables, VnetTables, InterfaceTables, MclagTables, AclTableTables, PbhFieldTables,
           PbhRuleTables, NatStaticTables, NatPoolTables, QuietTables, StormTables, MacTables,
           FastLinkupTables, StpPortTables, MgmtTables, RouteTables, EvpnTables, NvgreTables, AclRuleTables,
           PbhTables, NatOtherTables
  <1>7. CASE UNCHANGED db
    BY <1>7, MatchingSame
  <1> QED
    BY <1>1, <1>2, <1>3, <1>5, <1>6, <1>7, Commands

---------------------------------------------------------------------------
(* Maps of VLANs to VNIs.                                                  *)
VniTables == {"VXLAN_TUNNEL", "VXLAN_TUNNEL_MAP", "VLAN", "VRF"}
MapEntries(d) == d["VXLAN_TUNNEL_MAP"]

\* The name of a map says what its fields say; the VNI of a VRF, if it has
\* one, is mapped.
Mapping(d) ==
  /\ \A k \in DOMAIN MapEntries(d) : MapEntries(d)[k].vni = k[2] /\ MapEntries(d)[k].vlan = k[3]
  /\ \A j, k \in DOMAIN MapEntries(d) : (j[2] = k[2] \/ j[3] = k[3]) => j = k
  /\ \A k \in DOMAIN MapEntries(d) : k[1] \in DOMAIN d["VXLAN_TUNNEL"] /\ k[3] \in DOMAIN d["VLAN"]
VrfVni(d, v) == "vni" \in DOMAIN d["VRF"][v] /\ d["VRF"][v]["vni"] # 0
VrfsMapped(d) ==
  \A v \in DOMAIN d["VRF"] : VrfVni(d, v) => \E k \in DOMAIN MapEntries(d) : k[2] = d["VRF"][v]["vni"]
VniInv(d) == Mapping(d) /\ VrfsMapped(d)

\* The strengthened form says what VniMapsConsistent says.
LEMMA VniHolds == VniInv(db) => VniMapsConsistent
  BY DEF VniInv, Mapping, VrfsMapped, VrfVni, MapEntries, VniMapsConsistent, Keys, Has, Field

\* A command that writes none of these tables.
LEMMA VniSame ==
  ASSUME VniInv(db), db'["VXLAN_TUNNEL"] = db["VXLAN_TUNNEL"], db'["VLAN"] = db["VLAN"],
         db'["VRF"] = db["VRF"], db'["VXLAN_TUNNEL_MAP"] = db["VXLAN_TUNNEL_MAP"]
  PROVE  VniInv(db')
  BY DEF VniInv, Mapping, VrfsMapped, VrfVni, MapEntries

\* Maps may go when no VRF has their VNI.
LEMMA VniFewer ==
  ASSUME VniInv(db), db'["VXLAN_TUNNEL"] = db["VXLAN_TUNNEL"], db'["VLAN"] = db["VLAN"],
         db'["VRF"] = db["VRF"],
         DOMAIN MapEntries(db') \subseteq DOMAIN MapEntries(db),
         \A k \in DOMAIN MapEntries(db') : MapEntries(db')[k] = MapEntries(db)[k],
         \A k \in DOMAIN MapEntries(db) \ DOMAIN MapEntries(db') : ~is_vni_vrf_mapped(db, k[2])
  PROVE  VniInv(db')
  <1>1. Mapping(db')
    BY DEF VniInv, Mapping
  <1>2. \A v \in DOMAIN db["VRF"] : VrfVni(db, v) => is_vni_vrf_mapped(db, db["VRF"][v]["vni"])
    BY DEF is_vni_vrf_mapped, VrfVni, Field, Keys
  <1>3. VrfsMapped(db')
    BY <1>2 DEF VniInv, VrfsMapped, VrfVni
  <1> QED
    BY <1>1, <1>3 DEF VniInv

\* New maps take VLANs and VNIs that no other has.
LEMMA VniMore ==
  ASSUME VniInv(db), db'["VXLAN_TUNNEL"] = db["VXLAN_TUNNEL"], db'["VLAN"] = db["VLAN"],
         db'["VRF"] = db["VRF"], NEW K,
         DOMAIN MapEntries(db') = DOMAIN MapEntries(db) \cup K,
         \A k \in DOMAIN MapEntries(db) \ K : MapEntries(db')[k] = MapEntries(db)[k],
         \A k \in K : /\ MapEntries(db')[k].vni = k[2] /\ MapEntries(db')[k].vlan = k[3]
                      /\ k[1] \in DOMAIN db["VXLAN_TUNNEL"] /\ k[3] \in DOMAIN db["VLAN"]
                      /\ ~Mapped(db, k[3], k[2]),
         \A j, k \in K : (j[2] = k[2] \/ j[3] = k[3]) => j = k
  PROVE  VniInv(db')
  <1>1. \A k \in K, j \in DOMAIN MapEntries(db) : j[2] # k[2] /\ j[3] # k[3]
    BY DEF Mapped, Keys, VniInv, Mapping, MapEntries
  <1>2. \A k \in DOMAIN MapEntries(db') : MapEntries(db')[k].vni = k[2] /\ MapEntries(db')[k].vlan = k[3]
    BY DEF VniInv, Mapping
  <1>3. \A j, k \in DOMAIN MapEntries(db') : (j[2] = k[2] \/ j[3] = k[3]) => j = k
    BY <1>1 DEF VniInv, Mapping
  <1>4. \A k \in DOMAIN MapEntries(db') : k[1] \in DOMAIN db'["VXLAN_TUNNEL"] /\ k[3] \in DOMAIN db'["VLAN"]
    BY DEF VniInv, Mapping
  <1>5. VrfsMapped(db')
    BY DEF VniInv, VrfsMapped, VrfVni
  <1> QED
    BY <1>2, <1>3, <1>4, <1>5 DEF VniInv, Mapping

\* config vxlan, single maps and ranges.
LEMMA VxlanVni ==
  ASSUME SwitchTypeOK, VniInv(db), VxlanCommand
  PROVE  VniInv(db')
  <1> USE TableNames DEF SwitchTypeOK
  <1>1. db'["VLAN"] = db["VLAN"] /\ db'["VRF"] = db["VRF"]
    BY VxlanFrame DEF Only, Same, VxlanTables
  <1>2. ASSUME NEW t, add_vxlan(t) PROVE VniInv(db')
    <2>1. /\ DOMAIN db["VXLAN_TUNNEL"] \subseteq DOMAIN db'["VXLAN_TUNNEL"]
          /\ MapEntries(db') = MapEntries(db)
      BY <1>2 DEF add_vxlan, SetEntry, Put, MapEntries
    <2> QED
      BY <1>1, <2>1 DEF VniInv, Mapping, VrfsMapped, VrfVni
  <1>3. ASSUME NEW t, del_vxlan(t) PROVE VniInv(db')
    <2>1. DOMAIN MapEntries(db) = {} /\ MapEntries(db') = MapEntries(db)
      BY <1>3 DEF del_vxlan, Keys, DelEntry, DelEntries, MapEntries
    <2> QED
      BY <1>1, <2>1 DEF VniInv, Mapping, VrfsMapped, VrfVni
  <1>4. ASSUME NEW n, NEW t, add_vxlan_evpn_nvo(n, t) \/ del_vxlan_evpn_nvo(n) PROVE VniInv(db')
    <2>1. db'["VXLAN_TUNNEL"] = db["VXLAN_TUNNEL"] /\ db'["VXLAN_TUNNEL_MAP"] = db["VXLAN_TUNNEL_MAP"]
      BY <1>4 DEF add_vxlan_evpn_nvo, del_vxlan_evpn_nvo, SetEntry, DelEntry, DelEntries
    <2> QED
      BY <1>1, <2>1, VniSame
  <1>5. ASSUME NEW t, NEW v, NEW n, add_vxlan_map(t, v, n) PROVE VniInv(db')
    <2> DEFINE k == <<t, n, v>>
               e == [vni |-> n, vlan |-> v]
    <2>1. /\ t \in DOMAIN db["VXLAN_TUNNEL"] /\ v \in DOMAIN db["VLAN"] /\ ~Mapped(db, v, n)
          /\ db' = SetEntry(db, "VXLAN_TUNNEL_MAP", k, e)
      BY <1>5 DEF add_vxlan_map, Has, MapKey
    <2>2. k[1] = t /\ k[2] = n /\ k[3] = v /\ e.vni = n /\ e.vlan = v
      OBVIOUS
    <2> HIDE DEF k, e
    <2>3. /\ DOMAIN MapEntries(db') = DOMAIN MapEntries(db) \cup {k} /\ MapEntries(db')[k] = e
          /\ \A j \in DOMAIN MapEntries(db) \ {k} : MapEntries(db')[j] = MapEntries(db)[j]
          /\ db'["VXLAN_TUNNEL"] = db["VXLAN_TUNNEL"]
      BY <2>1, SetEntryTable DEF MapEntries
    <2>4. \A j \in {k} : /\ MapEntries(db')[j].vni = j[2] /\ MapEntries(db')[j].vlan = j[3]
                         /\ j[1] \in DOMAIN db["VXLAN_TUNNEL"] /\ j[3] \in DOMAIN db["VLAN"]
                         /\ ~Mapped(db, j[3], j[2])
      BY <2>1, <2>2, <2>3
    <2>5. \A i, j \in {k} : i = j
      OBVIOUS
    <2> QED
      BY <1>1, <2>3, <2>4, <2>5, VniMore
  <1>6. ASSUME NEW t, NEW v, NEW n, del_vxlan_map(t, v, n) PROVE VniInv(db')
    <2> DEFINE k == <<t, n, v>>
    <2>1. ~is_vni_vrf_mapped(db, n) /\ db' = DelEntry(db, "VXLAN_TUNNEL_MAP", k)
      BY <1>6 DEF del_vxlan_map, MapKey
    <2>2. k[2] = n
      OBVIOUS
    <2> HIDE DEF k
    <2>3. /\ DOMAIN MapEntries(db') = DOMAIN MapEntries(db) \ {k}
          /\ \A j \in DOMAIN MapEntries(db) \ {k} : MapEntries(db')[j] = MapEntries(db)[j]
          /\ db'["VXLAN_TUNNEL"] = db["VXLAN_TUNNEL"]
      BY <2>1, DelEntryTable DEF MapEntries
    <2> QED
      BY <1>1, <2>1, <2>2, <2>3, VniFewer
  <1>7. ASSUME NEW t, NEW a \in Nat, NEW z \in Nat, NEW n \in Vnis, add_vxlan_map_range(t, a, z, n)
        PROVE  VniInv(db')
    <2> DEFINE vni(v) == n + VlanNumber[v] - a
               new == {v \in InVlanRange(a, z) : Has(db, "VLAN", v) /\ ~Mapped(db, v, vni(v))}
               K == {MapKey(t, v, vni(v)) : v \in new}
               E == [k \in K |-> [vni |-> k[2], vlan |-> k[3]]]
    <2>1. t \in DOMAIN db["VXLAN_TUNNEL"] /\ db' = [db EXCEPT !["VXLAN_TUNNEL_MAP"] = Over(E, @)]
      BY <1>7 DEF add_vxlan_map_range, Has
    <2>2. \A v, w \in new : vni(v) = vni(w) => v = w
      <3>1. ASSUME NEW v \in Vlans, NEW w \in Vlans, vni(v) = vni(w) PROVE v = w
        BY <3>1, VlanNumberAssumption, VniAssumption
      <3> QED
        BY <3>1 DEF InVlanRange
    <2>3. \A v \in new : v \in DOMAIN db["VLAN"] /\ ~Mapped(db, v, vni(v))
      BY DEF Has
    <2> HIDE DEF vni, new
    <2>4. \A k \in K : \E v \in new : k[1] = t /\ k[2] = vni(v) /\ k[3] = v /\ k = MapKey(t, v, vni(v))
      BY DEF MapKey
    <2>5. DOMAIN E = K /\ \A k \in K : E[k].vni = k[2] /\ E[k].vlan = k[3]
      OBVIOUS
    <2> HIDE DEF K, E
    <2>6. /\ DOMAIN MapEntries(db') = DOMAIN MapEntries(db) \cup K
          /\ \A k \in K : MapEntries(db')[k] = E[k]
          /\ \A j \in DOMAIN MapEntries(db) \ K : MapEntries(db')[j] = MapEntries(db)[j]
          /\ db'["VXLAN_TUNNEL"] = db["VXLAN_TUNNEL"]
      BY <2>1, <2>5 DEF MapEntries, Over
    <2>7. \A k \in K : /\ MapEntries(db')[k].vni = k[2] /\ MapEntries(db')[k].vlan = k[3]
                       /\ k[1] \in DOMAIN db["VXLAN_TUNNEL"] /\ k[3] \in DOMAIN db["VLAN"]
                       /\ ~Mapped(db, k[3], k[2])
      <3>1. ASSUME NEW k \in K
            PROVE  k[1] \in DOMAIN db["VXLAN_TUNNEL"] /\ k[3] \in DOMAIN db["VLAN"] /\ ~Mapped(db, k[3], k[2])
        BY <2>1, <2>3, <2>4
      <3>2. ASSUME NEW k \in K PROVE MapEntries(db')[k].vni = k[2] /\ MapEntries(db')[k].vlan = k[3]
        BY <2>5, <2>6
      <3> QED
        BY <3>1, <3>2
    <2>8. \A j, k \in K : (j[2] = k[2] \/ j[3] = k[3]) => j = k
      BY <2>2, <2>4
    <2> QED
      BY <1>1, <2>6, <2>7, <2>8, VniMore
  <1>8. ASSUME NEW t, NEW a, NEW z, NEW n, del_vxlan_map_range(t, a, z, n) PROVE VniInv(db')
    <2> DEFINE vni(v) == n + VlanNumber[v] - a
               old == {v \in InVlanRange(a, z) : ~is_vni_vrf_mapped(db, vni(v))}
               K == {MapKey(t, v, vni(v)) : v \in old}
    <2>1. db' = DelEntries(db, "VXLAN_TUNNEL_MAP", K)
      BY <1>8 DEF del_vxlan_map_range
    <2>2. \A v \in old : ~is_vni_vrf_mapped(db, vni(v))
      OBVIOUS
    <2> HIDE DEF vni, old
    <2>3. \A k \in K : ~is_vni_vrf_mapped(db, k[2])
      BY <2>2 DEF MapKey
    <2> HIDE DEF K
    <2>4. /\ DOMAIN MapEntries(db') = DOMAIN MapEntries(db) \ K
          /\ \A j \in DOMAIN MapEntries(db) \ K : MapEntries(db')[j] = MapEntries(db)[j]
          /\ db'["VXLAN_TUNNEL"] = db["VXLAN_TUNNEL"]
      BY <2>1, DelEntriesTable DEF MapEntries
    <2> QED
      BY <1>1, <2>3, <2>4, VniFewer
  <1> QED
    BY <1>2, <1>3, <1>4, <1>5, <1>6, <1>7, <1>8 DEF VxlanCommand

\* No command breaks the maps, removing a VLAN or a VRF included.
LEMMA VniStep == SwitchTypeOK /\ VniInv(db) /\ [SwitchingNext]_db => VniInv(db')
  <1> SUFFICES ASSUME SwitchTypeOK, VniInv(db), [SwitchingNext]_db PROVE VniInv(db')
    OBVIOUS
  <1> USE TableNames DEF SwitchTypeOK
  <1>1. CASE VxlanCommand
    BY <1>1, VxlanVni
  <1>2. CASE VlanCommand
    <2>1. /\ db'["VXLAN_TUNNEL"] = db["VXLAN_TUNNEL"] /\ db'["VRF"] = db["VRF"]
          /\ MapEntries(db') = MapEntries(db)
      BY <1>2, VlanFrame DEF Only, Same, VlanTables, MapEntries
    <2>2. \A k \in DOMAIN MapEntries(db) : k[3] \in DOMAIN db'["VLAN"]
      <3>1. ASSUME NEW v, add_vlan(v) PROVE DOMAIN db["VLAN"] \subseteq DOMAIN db'["VLAN"]
        <4>1. Same(db, vlan_enable_stp(db, v), {"STP_VLAN"})
          BY SameSelf, SameSet DEF vlan_enable_stp
        <4> QED
          BY <3>1, <4>1, SetEntryTable DEF add_vlan, Same
      <3>2. ASSUME NEW v, NEW n, del_vlan(v, n)
            PROVE  /\ DOMAIN db'["VLAN"] = DOMAIN db["VLAN"] \ {v}
                   /\ \A k \in DOMAIN MapEntries(db) : MapEntries(db)[k].vlan # v
        BY <3>2, DelVlanKeys DEF del_vlan, MapEntries, Keys
      <3> QED
        BY <1>2, <3>1, <3>2 DEF VlanCommand, VniInv, Mapping
    <2> QED
      BY <2>1, <2>2 DEF VniInv, Mapping, VrfsMapped, VrfVni
  <1>3. CASE VrfCommand
    <2>1. /\ db'["VXLAN_TUNNEL"] = db["VXLAN_TUNNEL"] /\ db'["VLAN"] = db["VLAN"]
          /\ MapEntries(db') = MapEntries(db)
      BY <1>3, VrfFrame DEF Only, Same, VrfTables, InterfaceTables, MapEntries
    <2>2. VrfsMapped(db')
      <3>1. ASSUME NEW v, add_vrf(v) PROVE VrfsMapped(db')
        <4>1. CASE v = "mgmt"
          <5>1. db'["VRF"] = db["VRF"]
            BY <3>1, <4>1 DEF add_vrf, ModEntry
          <5> QED
            BY <2>1, <5>1 DEF VniInv, VrfsMapped, VrfVni
        <4>2. CASE v # "mgmt"
          <5>1. db' = SetEntry(db, "VRF", v, NoEntries)
            BY <3>1, <4>2 DEF add_vrf
          <5>2. /\ DOMAIN db'["VRF"] = DOMAIN db["VRF"] \cup {v} /\ db'["VRF"][v] = NoEntries
                /\ \A w \in DOMAIN db["VRF"] : w # v => db'["VRF"][w] = db["VRF"][w]
            BY <5>1, SetEntryTable
          <5>3. "vni" \notin DOMAIN NoEntries
            BY DEF NoEntries
          <5> QED
            BY <2>1, <5>2, <5>3 DEF VniInv, VrfsMapped, VrfVni
        <4> QED
          BY <4>1, <4>2
      <3>2. ASSUME NEW v, del_vrf(v) PROVE VrfsMapped(db')
        <4> DEFINE d == DelBound(db, "vrf_name", v)
        <4>1. DOMAIN d = DOMAIN db /\ d["VRF"] = db["VRF"]
          BY DEF DelBound, InterfaceTables
        <4> HIDE DEF d
        <4>2. db'["VRF"] = db["VRF"] \/ db' = DelEntry(d, "VRF", v)
          <5>1. CASE v = "mgmt"
            BY <3>2, <5>1 DEF del_vrf, ModEntry
          <5>2. CASE v # "mgmt"
            BY <3>2, <5>2 DEF del_vrf, del_interface_bind_to_vrf, d
          <5> QED
            BY <5>1, <5>2
        <4>3. /\ DOMAIN db'["VRF"] \subseteq DOMAIN db["VRF"]
              /\ \A w \in DOMAIN db'["VRF"] : db'["VRF"][w] = db["VRF"][w]
          BY <4>1, <4>2, DelEntryTable
        <4> QED
          BY <2>1, <4>3 DEF VniInv, VrfsMapped, VrfVni
      <3>3. ASSUME NEW v, v \in DOMAIN db["VRF"], NEW n, db' = ModEntry(db, "VRF", v, [vni |-> n]),
                   n # 0 => \E k \in DOMAIN MapEntries(db) : k[2] = n
            PROVE  VrfsMapped(db')
        <4> DEFINE e == [vni |-> n]
        <4>1. "vni" \in DOMAIN e /\ e["vni"] = n
          OBVIOUS
        <4>2. db' = ModEntry(db, "VRF", v, e)
          BY <3>3
        <4> HIDE DEF e
        <4>3. /\ DOMAIN db'["VRF"] = DOMAIN db["VRF"] \cup {v}
              /\ \A w \in DOMAIN db["VRF"] : w # v => db'["VRF"][w] = db["VRF"][w]
          BY <4>2, ModEntryTable
        <4>4. db'["VRF"][v]["vni"] = n
          BY <3>3, <4>1, <4>2 DEF ModEntry, Put, Over
        <4> QED
          BY <2>1, <3>3, <4>3, <4>4 DEF VniInv, VrfsMapped, VrfVni
      <3>4. ASSUME NEW v, NEW n, add_vrf_vni_map(v, n) PROVE VrfsMapped(db')
        <4>1. \E k \in DOMAIN MapEntries(db) : k[2] = n
          BY <3>4 DEF add_vrf_vni_map, Keys, MapEntries, VniInv, Mapping
        <4> QED
          BY <3>3, <3>4, <4>1 DEF add_vrf_vni_map, Has
      <3>5. ASSUME NEW v, del_vrf_vni_map(v) PROVE VrfsMapped(db')
        BY <3>3, <3>5 DEF del_vrf_vni_map, Has
      <3> QED
        BY <1>3, <3>1, <3>2, <3>4, <3>5 DEF VrfCommand
    <2> QED
      BY <2>1, <2>2 DEF VniInv, Mapping
  <1>4. ASSUME NEW T, Only(T), \A t \in VniTables : t \notin T PROVE VniInv(db')
    BY <1>4, VniSame DEF Only, Same, VniTables
  <1>5. CASE \/ MemberCommand \/ PortchannelCommand \/ PortchannelMemberCommand \/ MirrorCommand
             \/ PortCommand \/ StpCommand \/ AddressCommand \/ InterfaceCommand \/ BindCommand
    BY <1>4, <1>5, MemberFrame, PortchannelFrame, PortchannelMemberFrame, MirrorFrame, PortFrame, StpFrame,
       AddressFrame, InterfaceFrame, BindFrame
       DEF VniTables, MemberTables, PortchannelTables, PortchannelMemberTables, MirrorTables, PortTables,
           StpTables, InterfaceTables
  <1>6. CASE \/ VrrpCommand \/ VnetCommand \/ MclagCommand \/ AclCommand \/ PbhFieldCommand \/ PbhRuleCommand
             \/ NatStaticCommand \/ NatPoolCommand \/ QuietCommand
    BY <1>4, <1>6, VrrpFrame, VnetFrame, MclagFrame, AclFrame, PbhFieldFrame, PbhRuleFrame, NatStaticFrame,
       NatPoolFrame, QuietFrame
       DEF VniTables, VrrpTables, VnetTables, InterfaceTables, MclagTables, AclTableTables, PbhFieldTables,
           PbhRuleTables, NatStaticTables, NatPoolTables, QuietTables, StormTables, MacTables,
           FastLinkupTables, StpPortTables, MgmtTables, RouteTables, EvpnTables, NvgreTables, AclRuleTables,
           PbhTables, NatOtherTables
  <1>7. CASE UNCHANGED db
    BY <1>7, VniSame
  <1> QED
    BY <1>1, <1>2, <1>3, <1>5, <1>6, <1>7, Commands

---------------------------------------------------------------------------
(* The three timers of spanning tree.                                      *)
TimerFields == {"forward_delay", "hello_time", "max_age"}

\* The global entry of PVST has the three fields, and they fit together.
Timers(E) ==
  "GLOBAL" \in DOMAIN E /\ "mode" \in DOMAIN E["GLOBAL"] /\ E["GLOBAL"]["mode"] = "pvst" =>
    /\ TimerFields \subseteq DOMAIN E["GLOBAL"]
    /\ validate_params(E["GLOBAL"]["forward_delay"], E["GLOBAL"]["max_age"], E["GLOBAL"]["hello_time"])

\* The strengthened form says what PvstTimersValid says.
LEMMA TimersHold == Timers(db["STP"]) => PvstTimersValid
  BY DEF Timers, TimerFields, PvstTimersValid, get_global_stp_mode, GlobalTimer, Field

\* A field that is written over an entry, or set in it.
LEMMA OverOne == \A e, f, x : Over(One(f, x), e) = Put(e, f, x)
  BY DEF Over, One, Put

\* A timer is stored only if it fits the two others.
LEMMA StpTimers ==
  ASSUME SwitchTypeOK, Timers(db["STP"]), StpCommand
  PROVE  Timers(db'["STP"])
  <1> USE TableNames DEF SwitchTypeOK
  <1>1. ASSUME NEW T, Only(T), "STP" \notin T PROVE Timers(db'["STP"])
    BY <1>1 DEF Only, Same
  <1>2. ASSUME NEW o, NEW m, spanning_tree_enable(m, o) PROVE Timers(db'["STP"])
    <2> DEFINE e == [mode |-> "pvst", rootguard_timeout |-> 30, forward_delay |-> 15, hello_time |-> 2,
                     max_age |-> 20, priority |-> STP_DEFAULT_BRIDGE_PRIORITY]
               g == [mode |-> "mst"]
    <2>1. CASE m = "pvst"
      <3> DEFINE d == SetEntry(db, "STP", "GLOBAL", e)
      <3>1. Same(d, db', {"STP_VLAN", "STP_PORT"})
        BY <1>2, <2>1, SameSelf, SameSetAll DEF spanning_tree_enable, enable_stp_for_vlans, enable_stp_for_interfaces
      <3>2. /\ TimerFields \subseteq DOMAIN e /\ validate_params(15, 20, 2)
            /\ e["forward_delay"] = 15 /\ e["max_age"] = 20 /\ e["hello_time"] = 2
        BY DEF TimerFields, validate_params
      <3> HIDE DEF e
      <3>3. d["STP"]["GLOBAL"] = e /\ DOMAIN d = DOMAIN db
        BY SetEntryTable
      <3> HIDE DEF d
      <3>4. db'["STP"]["GLOBAL"] = e
        BY <3>1, <3>3 DEF Same
      <3> QED
        BY <3>2, <3>4 DEF Timers
    <2>2. CASE m # "pvst"
      <3> DEFINE d == SetEntry(db, "STP", "GLOBAL", g)
      <3>1. Same(d, db', {"STP_MST_INST", "STP_MST_PORT", "STP_PORT"})
        BY <1>2, <2>2, SameSelf, SameSet, SameSetAll
           DEF spanning_tree_enable, enable_mst_instance0, enable_mst_for_interfaces
      <3>2. g["mode"] # "pvst"
        OBVIOUS
      <3> HIDE DEF g
      <3>3. d["STP"]["GLOBAL"] = g /\ DOMAIN d = DOMAIN db
        BY SetEntryTable
      <3> HIDE DEF d
      <3>4. db'["STP"]["GLOBAL"] = g
        BY <3>1, <3>3 DEF Same
      <3> QED
        BY <3>2, <3>4 DEF Timers
    <2> QED
      BY <2>1, <2>2
  <1>3. ASSUME NEW m, stp_disable(m) PROVE Timers(db'["STP"])
    <2> DEFINE d == DelEntry(db, "STP", "GLOBAL")
    <2>1. Same(d, db', {"STP_VLAN", "STP_PORT", "STP_VLAN_PORT", "STP_MST", "STP_MST_INST", "STP_MST_PORT"})
      BY <1>3, SameSelf, SameDelTable DEF stp_disable, disable_global_pvst, disable_global_mst
    <2>2. "GLOBAL" \notin DOMAIN d["STP"] /\ DOMAIN d = DOMAIN db
      BY DelEntryTable
    <2> HIDE DEF d
    <2>3. "GLOBAL" \notin DOMAIN db'["STP"]
      BY <2>1, <2>2 DEF Same
    <2> QED
      BY <2>3 DEF Timers
  <1>4. ASSUME NEW d, Same(db, d, {"STP_VLAN"}), NEW e, db' = ModEntry(d, "STP", "GLOBAL", e),
               get_global_stp_mode(db) = "pvst"
        PROVE  /\ "GLOBAL" \in DOMAIN db["STP"] /\ db["STP"]["GLOBAL"]["mode"] = "pvst"
               /\ "mode" \in DOMAIN db["STP"]["GLOBAL"]
               /\ db'["STP"]["GLOBAL"] = Over(e, db["STP"]["GLOBAL"])
    <2>1. "STP" \in DOMAIN d /\ d["STP"] = db["STP"] /\ "STP" \in DOMAIN db
      BY <1>4 DEF Same
    <2>2. /\ "GLOBAL" \in DOMAIN db["STP"] /\ "mode" \in DOMAIN db["STP"]["GLOBAL"]
          /\ db["STP"]["GLOBAL"]["mode"] = "pvst"
      BY <1>4 DEF get_global_stp_mode, Field
    <2> QED
      BY <1>4, <2>1, <2>2 DEF ModEntry, Put
  <1>5. ASSUME NEW f \in TimerFields, NEW x, SetGlobalTimer(f, x) PROVE Timers(db'["STP"])
    <2>1. CASE get_global_stp_mode(db) = "pvst"
      <3> DEFINE d == update_stp_vlan_parameter(db, f, x)
                 g == db["STP"]["GLOBAL"]
                 h == Put(g, f, x)
      <3>1. Same(db, d, {"STP_VLAN"})
        BY DEF Same, update_stp_vlan_parameter
      <3>2. db' = ModEntry(d, "STP", "GLOBAL", One(f, x)) /\ ValidTimers(g, f, x)
        BY <1>5, <2>1 DEF SetGlobalTimer
      <3> HIDE DEF d
      <3>3. db'["STP"]["GLOBAL"] = h
        BY <1>4, <2>1, <3>1, <3>2, OverOne
      <3>4. validate_params(h.forward_delay, h.max_age, h.hello_time)
        BY <3>2 DEF ValidTimers
      <3>5. TimerFields \subseteq DOMAIN h
        BY <1>4, <2>1, <3>1, <3>2 DEF Timers, Put
      <3> HIDE DEF h
      <3> QED
        BY <3>3, <3>4, <3>5 DEF Timers
    <2>2. CASE get_global_stp_mode(db) # "pvst"
      <3>1. db' = ModEntry(db, "STP_MST", "GLOBAL", One(f, x))
        BY <1>5, <2>2 DEF SetGlobalTimer
      <3> QED
        BY <1>1, <3>1, SameSelf, SameMod DEF Only
    <2> QED
      BY <2>1, <2>2
  <1>6. ASSUME NEW d, Same(db, d, {"STP_VLAN"}), NEW e, db' = ModEntry(d, "STP", "GLOBAL", e),
               get_global_stp_mode(db) = "pvst", \A f \in TimerFields : f \notin DOMAIN e
        PROVE  Timers(db'["STP"])
    <2> DEFINE g == db["STP"]["GLOBAL"]
               h == Over(e, g)
    <2>1. db'["STP"]["GLOBAL"] = h /\ TimerFields \subseteq DOMAIN g
      BY <1>4, <1>6 DEF Timers
    <2>2. \A f \in TimerFields : f \in DOMAIN h /\ h[f] = g[f]
      BY <1>6, <2>1 DEF Over
    <2>3. validate_params(g["forward_delay"], g["max_age"], g["hello_time"])
      BY <1>4, <1>6 DEF Timers
    <2> HIDE DEF h, g
    <2> QED
      BY <2>1, <2>2, <2>3 DEF Timers, TimerFields
  <1>7. ASSUME NEW n, stp_global_root_guard_timeout(n) PROVE Timers(db'["STP"])
    <2> DEFINE e == [rootguard_timeout |-> n]
    <2>1. db' = ModEntry(db, "STP", "GLOBAL", e) /\ get_global_stp_mode(db) = "pvst"
      BY <1>7 DEF stp_global_root_guard_timeout
    <2>2. \A f \in TimerFields : f \notin DOMAIN e
      BY DEF TimerFields
    <2> HIDE DEF e
    <2> QED
      BY <1>6, <2>1, <2>2, SameSelf
  <1>8. ASSUME NEW n, stp_global_priority(n) PROVE Timers(db'["STP"])
    <2> DEFINE e == [priority |-> n]
               d == update_stp_vlan_parameter(db, "priority", n)
    <2>1. db' = ModEntry(d, "STP", "GLOBAL", e) /\ get_global_stp_mode(db) = "pvst"
      BY <1>8 DEF stp_global_priority
    <2>2. \A f \in TimerFields : f \notin DOMAIN e
      BY DEF TimerFields
    <2>3. Same(db, d, {"STP_VLAN"})
      BY DEF Same, update_stp_vlan_parameter
    <2> HIDE DEF d, e
    <2> QED
      BY <1>6, <2>1, <2>2, <2>3
  <1>9. ASSUME NEW f, NEW x, MstGlobal(f, x) PROVE Timers(db'["STP"])
    BY <1>1, <1>9, SameSelf, SameMod DEF MstGlobal, Only
  <1>10. ASSUME NEW v, stp_vlan_enable(v) \/ stp_vlan_disable(v) PROVE Timers(db'["STP"])
    <2>1. Only({"STP_VLAN"})
      BY <1>10, SameSelf, SameMod, SameSet DEF stp_vlan_enable, stp_vlan_disable, Only
    <2> QED
      BY <1>1, <2>1
  <1>11. ASSUME NEW v, NEW f, NEW x, SetVlanTimer(v, f, x) PROVE Timers(db'["STP"])
    BY <1>1, <1>11, SameSelf, SameMod DEF SetVlanTimer, Only
  <1>12. ASSUME NEW v, NEW p, NEW e, SetVlanPort(v, p, e) PROVE Timers(db'["STP"])
    BY <1>1, <1>12, SameSelf, SameMod DEF SetVlanPort, Only
  <1>13. ASSUME NEW n, stp_global_max_hops(n) PROVE Timers(db'["STP"])
    BY <1>9, <1>13 DEF stp_global_max_hops
  <1>13a. ASSUME NEW n, stp_global_revision(n) PROVE Timers(db'["STP"])
    BY <1>9, <1>13a DEF stp_global_revision
  <1>13b. ASSUME NEW n, stp_mst_region_name(n) PROVE Timers(db'["STP"])
    BY <1>9, <1>13b DEF stp_mst_region_name
  <1>14. ASSUME NEW v, NEW p, NEW n, stp_vlan_interface_priority(v, p, n) \/ stp_vlan_interface_cost(v, p, n)
         PROVE  Timers(db'["STP"])
    BY <1>12, <1>14 DEF stp_vlan_interface_priority, stp_vlan_interface_cost
  <1>15. ASSUME NEW n, stp_global_forward_delay(n) \/ stp_global_hello_interval(n) \/ stp_global_max_age(n)
         PROVE  Timers(db'["STP"])
    BY <1>5, <1>15 DEF stp_global_forward_delay, stp_global_hello_interval, stp_global_max_age, TimerFields
  <1> QED
    BY <1>2, <1>3, <1>7, <1>8, <1>10, <1>11, <1>13, <1>13a, <1>13b, <1>14, <1>15
       DEF StpCommand, stp_vlan_forward_delay, stp_vlan_hello_interval, stp_vlan_max_age, stp_vlan_priority

\* No other command writes the global entry.
LEMMA TimersStep == SwitchTypeOK /\ Timers(db["STP"]) /\ [SwitchingNext]_db => Timers(db'["STP"])
  <1> SUFFICES ASSUME SwitchTypeOK, Timers(db["STP"]), [SwitchingNext]_db PROVE Timers(db'["STP"])
    OBVIOUS
  <1> USE TableNames DEF SwitchTypeOK
  <1>1. CASE StpCommand
    BY <1>1, StpTimers
  <1>2. ASSUME NEW T, Only(T), "STP" \notin T PROVE Timers(db'["STP"])
    BY <1>2 DEF Only, Same
  <1>3. CASE \/ VlanCommand \/ MemberCommand \/ PortchannelCommand \/ PortchannelMemberCommand
             \/ MirrorCommand \/ PortCommand \/ AddressCommand \/ InterfaceCommand \/ BindCommand
             \/ VrfCommand
    BY <1>2, <1>3, VlanFrame, MemberFrame, PortchannelFrame, PortchannelMemberFrame, MirrorFrame, PortFrame,
       AddressFrame, InterfaceFrame, BindFrame, VrfFrame
       DEF StpTables, VlanTables, MemberTables, PortchannelTables, PortchannelMemberTables, MirrorTables,
           PortTables, InterfaceTables, VrfTables
  <1>4. CASE \/ VrrpCommand \/ VxlanCommand \/ VnetCommand \/ MclagCommand \/ AclCommand \/ PbhFieldCommand
             \/ PbhRuleCommand \/ NatStaticCommand \/ NatPoolCommand \/ QuietCommand
    BY <1>2, <1>4, VrrpFrame, VxlanFrame, VnetFrame, MclagFrame, AclFrame, PbhFieldFrame, PbhRuleFrame,
       NatStaticFrame, NatPoolFrame, QuietFrame
       DEF StpTables, VrrpTables, VxlanTables, VnetTables, InterfaceTables, MclagTables, AclTableTables,
           PbhFieldTables, PbhRuleTables, NatStaticTables, NatPoolTables, QuietTables, StormTables, MacTables,
           FastLinkupTables, StpPortTables, MgmtTables, RouteTables, EvpnTables, NvgreTables, AclRuleTables,
           PbhTables, NatOtherTables
  <1>5. CASE UNCHANGED db
    BY <1>5
  <1> QED
    BY <1>1, <1>3, <1>4, <1>5, Commands

---------------------------------------------------------------------------
(* The timers of MCLAG.                                                    *)
KeepAliveOf(e) == IF "keepalive_interval" \in DOMAIN e THEN e["keepalive_interval"] ELSE 1
SessionTimeoutOf(e) == IF "session_timeout" \in DOMAIN e THEN e["session_timeout"] ELSE 15
MclagTimers(E) ==
  \A k \in DOMAIN E : mclag_ka_session_dep_check(KeepAliveOf(E[k]), SessionTimeoutOf(E[k]))

\* The form over entries says what MclagTimersValid says.
LEMMA MclagTimersHold == MclagTimers(db["MCLAG_DOMAIN"]) => MclagTimersValid
  BY DEF MclagTimers, MclagTimersValid, KeepAliveOf, SessionTimeoutOf, KeepAlive, SessionTimeout, Field, Keys

\* Either timer is stored only if it fits the other, stored or default.
LEMMA MclagTimersStep ==
  SwitchTypeOK /\ MclagTimers(db["MCLAG_DOMAIN"]) /\ [SwitchingNext]_db => MclagTimers(db'["MCLAG_DOMAIN"])
  <1> SUFFICES ASSUME SwitchTypeOK, MclagTimers(db["MCLAG_DOMAIN"]), [SwitchingNext]_db
               PROVE  MclagTimers(db'["MCLAG_DOMAIN"])
    OBVIOUS
  <1> USE TableNames DEF SwitchTypeOK
  <1>1. ASSUME NEW T, Only(T), "MCLAG_DOMAIN" \notin T PROVE MclagTimers(db'["MCLAG_DOMAIN"])
    BY <1>1 DEF Only, Same
  <1>2. ASSUME NEW k, NEW e, db' = ModEntry(db, "MCLAG_DOMAIN", k, e),
               LET n == IF k \in DOMAIN db["MCLAG_DOMAIN"] THEN Over(e, db["MCLAG_DOMAIN"][k]) ELSE e
               IN  mclag_ka_session_dep_check(KeepAliveOf(n), SessionTimeoutOf(n))
        PROVE  MclagTimers(db'["MCLAG_DOMAIN"])
    <2> DEFINE n == IF k \in DOMAIN db["MCLAG_DOMAIN"] THEN Over(e, db["MCLAG_DOMAIN"][k]) ELSE e
    <2>1. /\ DOMAIN db'["MCLAG_DOMAIN"] = DOMAIN db["MCLAG_DOMAIN"] \cup {k}
          /\ \A j \in DOMAIN db["MCLAG_DOMAIN"] : j # k => db'["MCLAG_DOMAIN"][j] = db["MCLAG_DOMAIN"][j]
      BY <1>2, ModEntryTable
    <2>2. db'["MCLAG_DOMAIN"][k] = n
      BY <1>2 DEF ModEntry, Put
    <2>3. mclag_ka_session_dep_check(KeepAliveOf(n), SessionTimeoutOf(n))
      BY <1>2
    <2> HIDE DEF n
    <2> QED
      BY <2>1, <2>2, <2>3 DEF MclagTimers
  <1>3. ASSUME NEW k, NEW p, add_mclag_domain(k, p) PROVE MclagTimers(db'["MCLAG_DOMAIN"])
    <2> DEFINE e == [peer_link |-> p]
               n == IF k \in DOMAIN db["MCLAG_DOMAIN"] THEN Over(e, db["MCLAG_DOMAIN"][k]) ELSE e
    <2>1. db' = ModEntry(db, "MCLAG_DOMAIN", k, e)
      BY <1>3 DEF add_mclag_domain
    <2>2. "keepalive_interval" \notin DOMAIN e /\ "session_timeout" \notin DOMAIN e
      OBVIOUS
    <2> HIDE DEF e
    <2>3. CASE k \in DOMAIN db["MCLAG_DOMAIN"]
      <3>1. /\ KeepAliveOf(Over(e, db["MCLAG_DOMAIN"][k])) = KeepAliveOf(db["MCLAG_DOMAIN"][k])
            /\ SessionTimeoutOf(Over(e, db["MCLAG_DOMAIN"][k])) = SessionTimeoutOf(db["MCLAG_DOMAIN"][k])
        BY <2>2 DEF Over, KeepAliveOf, SessionTimeoutOf
      <3> QED
        BY <1>2, <2>1, <2>3, <3>1 DEF MclagTimers
    <2>4. CASE k \notin DOMAIN db["MCLAG_DOMAIN"]
      <3>1. mclag_ka_session_dep_check(1, 15)
        BY DEF mclag_ka_session_dep_check
      <3> QED
        BY <1>2, <2>1, <2>2, <2>4, <3>1 DEF KeepAliveOf, SessionTimeoutOf
    <2> QED
      BY <2>3, <2>4
  <1>4. ASSUME NEW k, del_mclag_domain(k) PROVE MclagTimers(db'["MCLAG_DOMAIN"])
    <2> DEFINE d == DelEntries(db, "MCLAG_INTERFACE", {j \in Keys(db, "MCLAG_INTERFACE") : j[1] = k})
    <2>1. db' = DelEntry(d, "MCLAG_DOMAIN", k)
      BY <1>4 DEF del_mclag_domain
    <2>2. d["MCLAG_DOMAIN"] = db["MCLAG_DOMAIN"] /\ DOMAIN d = DOMAIN db
      BY DEF DelEntries
    <2> HIDE DEF d
    <2>3. /\ DOMAIN db'["MCLAG_DOMAIN"] \subseteq DOMAIN db["MCLAG_DOMAIN"]
          /\ \A j \in DOMAIN db'["MCLAG_DOMAIN"] : db'["MCLAG_DOMAIN"][j] = db["MCLAG_DOMAIN"][j]
      BY <2>1, <2>2, DelEntryTable
    <2> QED
      BY <2>3 DEF MclagTimers
  <1>5. ASSUME NEW k, NEW s, config_mclag_keepalive_timer(k, s) PROVE MclagTimers(db'["MCLAG_DOMAIN"])
    <2> DEFINE e == [keepalive_interval |-> s]
               o == db["MCLAG_DOMAIN"][k]
    <2>1. /\ db' = ModEntry(db, "MCLAG_DOMAIN", k, e) /\ k \in DOMAIN db["MCLAG_DOMAIN"]
          /\ mclag_ka_session_dep_check(s, SessionTimeoutOf(o))
      BY <1>5 DEF config_mclag_keepalive_timer, Has, SessionTimeout, SessionTimeoutOf, Field
    <2>2. "keepalive_interval" \in DOMAIN e /\ e["keepalive_interval"] = s /\ "session_timeout" \notin DOMAIN e
      OBVIOUS
    <2> HIDE DEF e
    <2>3. KeepAliveOf(Over(e, o)) = s /\ SessionTimeoutOf(Over(e, o)) = SessionTimeoutOf(o)
      BY <2>2 DEF Over, KeepAliveOf, SessionTimeoutOf
    <2> QED
      BY <1>2, <2>1, <2>3
  <1>6. ASSUME NEW k, NEW s, config_mclag_session_timeout(k, s) PROVE MclagTimers(db'["MCLAG_DOMAIN"])
    <2> DEFINE e == [session_timeout |-> s]
               o == db["MCLAG_DOMAIN"][k]
    <2>1. /\ db' = ModEntry(db, "MCLAG_DOMAIN", k, e) /\ k \in DOMAIN db["MCLAG_DOMAIN"]
          /\ mclag_ka_session_dep_check(KeepAliveOf(o), s)
      BY <1>6 DEF config_mclag_session_timeout, Has, KeepAlive, KeepAliveOf, Field
    <2>2. "session_timeout" \in DOMAIN e /\ e["session_timeout"] = s /\ "keepalive_interval" \notin DOMAIN e
      OBVIOUS
    <2> HIDE DEF e
    <2>3. SessionTimeoutOf(Over(e, o)) = s /\ KeepAliveOf(Over(e, o)) = KeepAliveOf(o)
      BY <2>2 DEF Over, KeepAliveOf, SessionTimeoutOf
    <2> QED
      BY <1>2, <2>1, <2>3
  <1>7. ASSUME NEW k, NEW c, \/ add_mclag_member(k, c) \/ del_mclag_member(k, c)
                             \/ add_mclag_unique_ip(c) \/ del_mclag_unique_ip(c)
        PROVE  MclagTimers(db'["MCLAG_DOMAIN"])
    <2>1. Only({"MCLAG_INTERFACE", "MCLAG_UNIQUE_IP"})
      BY <1>7, SameSelf, SameSet, SameDelOne DEF add_mclag_member, del_mclag_member, add_mclag_unique_ip,
         del_mclag_unique_ip, Only
    <2> QED
      BY <1>1, <2>1
  <1>8. CASE MclagCommand
    BY <1>3, <1>4, <1>5, <1>6, <1>7, <1>8 DEF MclagCommand
  <1>9. CASE \/ VlanCommand \/ MemberCommand \/ PortchannelCommand \/ PortchannelMemberCommand
             \/ MirrorCommand \/ PortCommand \/ StpCommand \/ AddressCommand \/ InterfaceCommand
             \/ BindCommand
    BY <1>1, <1>9, VlanFrame, MemberFrame, PortchannelFrame, PortchannelMemberFrame, MirrorFrame, PortFrame,
       StpFrame, AddressFrame, InterfaceFrame, BindFrame
       DEF StpTables, VlanTables, MemberTables, PortchannelTables, PortchannelMemberTables, MirrorTables,
           PortTables, InterfaceTables
  <1>10. CASE \/ VrfCommand \/ VrrpCommand \/ VxlanCommand \/ VnetCommand \/ AclCommand \/ PbhFieldCommand
              \/ PbhRuleCommand \/ NatStaticCommand \/ NatPoolCommand \/ QuietCommand
    BY <1>1, <1>10, VrfFrame, VrrpFrame, VxlanFrame, VnetFrame, AclFrame, PbhFieldFrame, PbhRuleFrame,
       NatStaticFrame, NatPoolFrame, QuietFrame
       DEF StpTables, VrfTables, InterfaceTables, VrrpTables, VxlanTables, VnetTables, AclTableTables,
           PbhFieldTables, PbhRuleTables, NatStaticTables, NatPoolTables, QuietTables, StormTables, MacTables,
           FastLinkupTables, StpPortTables, MgmtTables, RouteTables, EvpnTables, NvgreTables, AclRuleTables,
           PbhTables, NatOtherTables
  <1>11. CASE UNCHANGED db
    BY <1>11
  <1> QED
    BY <1>8, <1>9, <1>10, <1>11, Commands

---------------------------------------------------------------------------
(* VRRP instances.                                                         *)
VipsOf(e) == IF "vip" \in DOMAIN e THEN e["vip"] ELSE {}

\* One table of instances, own being the addresses of its family.
Instances(E, own) ==
  /\ \A j, k \in DOMAIN E : j[2] = k[2] => j = k
  /\ \A j, k \in DOMAIN E : \A a \in own : a \in VipsOf(E[j]) /\ a \in VipsOf(E[k]) => j = k
  /\ \A k \in DOMAIN E : IsFiniteSet(VipsOf(E[k])) /\ Cardinality(VipsOf(E[k])) <= VipsPerInstance
VrrpTypes == {"VRRP", "VRRP6"}
VrrpInv(d) == \A t \in VrrpTypes : Instances(d[t], OwnFamily(t))

\* The form over one table at a time says what VrrpUnique says.
LEMMA VrrpHolds == VrrpInv(db) => VrrpUnique
  <1> SUFFICES ASSUME VrrpInv(db), NEW t \in VrrpTypes, NEW j \in DOMAIN db[t], NEW k \in DOMAIN db[t]
               PROVE  /\ j[2] = k[2] => j = k
                      /\ Field(db, t, j, "vip", {}) \cap Field(db, t, k, "vip", {}) \cap OwnFamily(t) = {} \/ j = k
                      /\ Cardinality(Field(db, t, k, "vip", {})) <= VipsPerInstance
    BY DEF VrrpUnique, VrrpTypes, Keys
  <1>1. Field(db, t, j, "vip", {}) = VipsOf(db[t][j]) /\ Field(db, t, k, "vip", {}) = VipsOf(db[t][k])
    BY DEF Field, VipsOf
  <1>2. Instances(db[t], OwnFamily(t))
    BY DEF VrrpInv
  <1> QED
    BY <1>1, <1>2 DEF Instances

\* An instance may be written when its number is its own and its addresses
\* were its own already or nobody's.
LEMMA InstancesPut ==
  ASSUME NEW E, NEW F, NEW own, NEW k, NEW V, Instances(E, own),
         DOMAIN F = DOMAIN E \cup {k}, VipsOf(F[k]) = V,
         \A j \in DOMAIN E : j # k => F[j] = E[j],
         k \in DOMAIN E \/ \A j \in DOMAIN E : j[2] # k[2],
         \A a \in V \cap own : \A j \in DOMAIN E : a \in VipsOf(E[j]) => j = k,
         IsFiniteSet(V), Cardinality(V) <= VipsPerInstance
  PROVE  Instances(F, own)
  <1>1. \A i, j \in DOMAIN F : i[2] = j[2] => i = j
    BY DEF Instances
  <1>2. \A i, j \in DOMAIN F : \A a \in own : a \in VipsOf(F[i]) /\ a \in VipsOf(F[j]) => i = j
    BY DEF Instances
  <1>3. \A j \in DOMAIN F : IsFiniteSet(VipsOf(F[j])) /\ Cardinality(VipsOf(F[j])) <= VipsPerInstance
    BY DEF Instances
  <1> QED
    BY <1>1, <1>2, <1>3 DEF Instances

\* Instances may go.
LEMMA InstancesFewer ==
  ASSUME NEW E, NEW F, NEW own, Instances(E, own), DOMAIN F \subseteq DOMAIN E,
         \A j \in DOMAIN F : F[j] = E[j]
  PROVE  Instances(F, own)
  BY DEF Instances

\* The limit is a number.
LEMMA VipsLimit == VipsPerInstance \in Nat /\ VipsPerInstance # 0
  BY VipsAssumption

\* No command repeats an id or an address or exceeds the limit.
LEMMA VrrpStep == SwitchTypeOK /\ VrrpInv(db) /\ [SwitchingNext]_db => VrrpInv(db')
  <1> SUFFICES ASSUME SwitchTypeOK, VrrpInv(db), [SwitchingNext]_db PROVE VrrpInv(db')
    OBVIOUS
  <1>0. VrrpTypes \subseteq DOMAIN db /\ "VRRP_TRACK" \notin VrrpTypes /\ "VRRP6_TRACK" \notin VrrpTypes
    BY TableNames DEF SwitchTypeOK, VrrpTypes
  <1>1. ASSUME NEW T, Only(T), \A t \in VrrpTypes : t \notin T PROVE VrrpInv(db')
    BY <1>0, <1>1 DEF Only, Same, VrrpInv
  <1>2. ASSUME NEW t \in VrrpTypes, Only({t}), Instances(db'[t], OwnFamily(t)) PROVE VrrpInv(db')
    BY <1>0, <1>2 DEF Only, Same, VrrpInv
  <1>3. ASSUME NEW t \in VrrpTypes, NEW k, NEW e, db' = ModEntry(db, t, k, e), NEW V,
               VipsOf(db'[t][k]) = V,
               k \in DOMAIN db[t] \/ \A j \in DOMAIN db[t] : j[2] # k[2],
               \A a \in V \cap OwnFamily(t) : \A j \in DOMAIN db[t] : a \in VipsOf(db[t][j]) => j = k,
               IsFiniteSet(V), Cardinality(V) <= VipsPerInstance
        PROVE  VrrpInv(db')
    <2>1. /\ DOMAIN db'[t] = DOMAIN db[t] \cup {k}
          /\ \A j \in DOMAIN db[t] : j # k => db'[t][j] = db[t][j]
      BY <1>0, <1>3, ModEntryTable
    <2>2. Only({t})
      BY <1>3, SameSelf, SameMod DEF Only
    <2>3. Instances(db[t], OwnFamily(t))
      BY DEF VrrpInv
    <2>4. Instances(db'[t], OwnFamily(t))
      BY <1>3, <2>1, <2>3, InstancesPut
    <2> QED
      BY <1>2, <2>2, <2>4
  <1>4. ASSUME NEW t \in VrrpTypes, NEW k, k \in DOMAIN db[t], NEW e, db' = ModEntry(db, t, k, e), "vip" \notin DOMAIN e
        PROVE  VrrpInv(db')
    <2>1. VipsOf(db'[t][k]) = VipsOf(db[t][k])
      BY <1>0, <1>4 DEF ModEntry, Put, Over, VipsOf
    <2>2. /\ \A a \in VipsOf(db[t][k]) \cap OwnFamily(t) : \A j \in DOMAIN db[t] : a \in VipsOf(db[t][j]) => j = k
          /\ IsFiniteSet(VipsOf(db[t][k])) /\ Cardinality(VipsOf(db[t][k])) <= VipsPerInstance
      BY <1>4 DEF VrrpInv, Instances
    <2> QED
      BY <1>3, <1>4, <2>1, <2>2
  <1>5. ASSUME NEW t \in VrrpTypes, NEW i, NEW n, add_vrrp(t, i, n) PROVE VrrpInv(db')
    <2> DEFINE k == <<i, n>>
               e == [vid |-> n]
    <2>1. db' = SetEntry(db, t, k, e) /\ \A j \in DOMAIN db[t] : j[2] # n
      BY <1>5 DEF add_vrrp, VrrpRoom, Keys
    <2>2. k[2] = n /\ VipsOf(e) = {}
      BY DEF VipsOf
    <2> HIDE DEF k, e
    <2>3. /\ DOMAIN db'[t] = DOMAIN db[t] \cup {k} /\ db'[t][k] = e
          /\ \A j \in DOMAIN db[t] : j # k => db'[t][j] = db[t][j]
      BY <1>0, <2>1, SetEntryTable
    <2>4. Only({t})
      BY <2>1, SameSelf, SameSet DEF Only
    <2>5. Instances(db[t], OwnFamily(t))
      BY DEF VrrpInv
    <2>6. IsFiniteSet({}) /\ Cardinality({}) <= VipsPerInstance
      BY FS_EmptySet, VipsLimit
    <2>7. Instances(db'[t], OwnFamily(t))
      BY <2>1, <2>2, <2>3, <2>5, <2>6, InstancesPut
    <2> QED
      BY <1>2, <2>4, <2>7
  <1>6. ASSUME NEW t \in VrrpTypes, NEW i, NEW n, remove_vrrp(t, i, n) PROVE VrrpInv(db')
    <2>1. db' = DelEntry(db, t, <<i, n>>)
      BY <1>6 DEF remove_vrrp
    <2>2. Only({t})
      BY <2>1, SameSelf, SameDelOne DEF Only
    <2>3. /\ DOMAIN db'[t] \subseteq DOMAIN db[t]
          /\ \A j \in DOMAIN db'[t] : db'[t][j] = db[t][j]
      BY <1>0, <2>1, DelEntryTable
    <2>4. Instances(db'[t], OwnFamily(t))
      BY <2>3, InstancesFewer DEF VrrpInv
    <2> QED
      BY <1>2, <2>2, <2>4
  <1>7. ASSUME NEW t \in VrrpTypes, NEW i, NEW n, NEW a \in Addresses, add_vrrp_ip(t, i, n, a) PROVE VrrpInv(db')
    <2> DEFINE k == <<i, n>>
               O == Field(db, t, k, "vip", {})
               V == O \cup {a}
               e == [vid |-> n, vip |-> V]
    <2>1. /\ ~check_vrrp_ip_exist(db, a) /\ db' = ModEntry(db, t, k, e)
          /\ k \in DOMAIN db[t] => Cardinality(O) < VipsPerInstance
          /\ k \notin DOMAIN db[t] => \A j \in DOMAIN db[t] : j[2] # n
      BY <1>7 DEF add_vrrp_ip, VrrpRoom, Keys, Has
    <2>2. k[2] = n /\ "vip" \in DOMAIN e /\ e["vip"] = V
      OBVIOUS
    <2>3. O = IF k \in DOMAIN db[t] THEN VipsOf(db[t][k]) ELSE {}
      BY DEF Field, VipsOf
    <2> HIDE DEF k, e, O
    <2>4. VipsOf(db'[t][k]) = V
      BY <1>0, <2>1, <2>2 DEF ModEntry, Put, Over, VipsOf
    <2>5. IsFiniteSet(O) /\ Cardinality(O) \in Nat /\ Cardinality(O) < VipsPerInstance
      <3>1. CASE k \in DOMAIN db[t]
        <4>1. IsFiniteSet(O)
          BY <2>3, <3>1 DEF VrrpInv, Instances
        <4> QED
          BY <2>1, <3>1, <4>1, FS_CardinalityType
      <3>2. CASE k \notin DOMAIN db[t]
        BY <2>3, <3>2, FS_EmptySet, VipsLimit
      <3> QED
        BY <3>1, <3>2
    <2>6. IsFiniteSet(V) /\ Cardinality(V) <= VipsPerInstance
      <3>1. IsFiniteSet(V) /\ (Cardinality(V) = Cardinality(O) \/ Cardinality(V) = Cardinality(O) + 1)
        BY <2>5, FS_AddElement
      <3> QED
        BY <2>5, <3>1, VipsLimit
    <2>7. a \in OwnFamily(t) => \A j \in DOMAIN db[t] : a \notin VipsOf(db[t][j])
      <3>1. SUFFICES ASSUME a \in OwnFamily(t), NEW j \in DOMAIN db[t] PROVE a \notin VipsOf(db[t][j])
        OBVIOUS
      <3>2. t = IF a \in V6 THEN "VRRP6" ELSE "VRRP"
        BY <3>1 DEF OwnFamily, VrrpTypes
      <3>3. a \notin Field(db, t, j, "vip", {})
        BY <2>1, <3>1, <3>2 DEF check_vrrp_ip_exist, Keys
      <3> QED
        BY <3>1, <3>3 DEF Field, VipsOf
    <2>8. \A x \in V \cap OwnFamily(t) : \A j \in DOMAIN db[t] : x \in VipsOf(db[t][j]) => j = k
      BY <2>3, <2>7 DEF VrrpInv, Instances
    <2> HIDE DEF V
    <2> QED
      BY <1>3, <2>1, <2>2, <2>4, <2>6, <2>8
  <1>8. ASSUME NEW t \in VrrpTypes, NEW i, NEW n, NEW a, remove_vrrp_ip(t, i, n, a) PROVE VrrpInv(db')
    <2> DEFINE k == <<i, n>>
               O == Field(db, t, k, "vip", {})
               left == O \ {a}
               V == IF left = {} THEN {""} ELSE left
               e == [vip |-> V]
    <2>1. a \in O /\ db' = ModEntry(db, t, k, e)
      BY <1>8 DEF remove_vrrp_ip
    <2>2. "vip" \in DOMAIN e /\ e["vip"] = V
      OBVIOUS
    <2>3. O = IF k \in DOMAIN db[t] THEN VipsOf(db[t][k]) ELSE {}
      BY DEF Field, VipsOf
    <2> HIDE DEF k, e, O
    <2>4. k \in DOMAIN db[t] /\ O = VipsOf(db[t][k])
      BY <2>1, <2>3
    <2>5. VipsOf(db'[t][k]) = V
      BY <1>0, <2>1, <2>2 DEF ModEntry, Put, Over, VipsOf
    <2>6. IsFiniteSet(V) /\ Cardinality(V) <= VipsPerInstance
      <3>1. CASE left = {}
        <4>1. IsFiniteSet({""}) /\ Cardinality({""}) = 1
          BY FS_Singleton
        <4>2. V = {""}
          BY <3>1
        <4>3. 1 <= VipsPerInstance
          BY VipsLimit
        <4> HIDE DEF V
        <4> QED
          BY <4>1, <4>2, <4>3
      <3>2. CASE left # {}
        <4>1. IsFiniteSet(O) /\ Cardinality(O) <= VipsPerInstance
          BY <2>4 DEF VrrpInv, Instances
        <4>2. IsFiniteSet(left) /\ Cardinality(left) <= Cardinality(O) /\ Cardinality(left) \in Nat
          BY <4>1, FS_Subset, FS_CardinalityType
        <4>3. Cardinality(O) \in Nat
          BY <4>1, FS_CardinalityType
        <4>4. Cardinality(left) <= VipsPerInstance
          BY <4>1, <4>2, <4>3, VipsLimit
        <4> QED
          BY <3>2, <4>2, <4>4
      <3> QED
        BY <3>1, <3>2
    <2>7. V \cap OwnFamily(t) \subseteq O
      BY VipsAssumption DEF OwnFamily
    <2>8. \A x \in V \cap OwnFamily(t) : \A j \in DOMAIN db[t] : x \in VipsOf(db[t][j]) => j = k
      BY <2>4, <2>7 DEF VrrpInv, Instances
    <2> HIDE DEF V
    <2> QED
      BY <1>3, <2>1, <2>4, <2>5, <2>6, <2>8
  <1>9. ASSUME NEW t \in VrrpTypes, NEW i, NEW n, NEW x, NEW m,
               add_track_interface(t, i, n, x, m) \/ remove_track_interface(t, i, n, x)
        PROVE  VrrpInv(db')
    <2>1. Only({"VRRP_TRACK", "VRRP6_TRACK"})
      BY <1>9, SameSelf, SameMod, SameDelOne DEF add_track_interface, remove_track_interface, VrrpTrack, Only
    <2> QED
      BY <1>0, <1>1, <2>1
  <1>10. ASSUME NEW t \in VrrpTypes, NEW i, NEW n, NEW e, SetVrrp(t, i, n, e), "vip" \notin DOMAIN e
         PROVE  VrrpInv(db')
    BY <1>4, <1>10 DEF SetVrrp, Has
  <1>11. ASSUME NEW t \in VrrpTypes, NEW i, NEW n, NEW x,
                vrrp_priority(t, i, n, x) \/ adv_interval(t, i, n, x) \/ pre_empt(t, i, n, x) \/ vrrp_version(i, n, x)
         PROVE  VrrpInv(db')
    <2>1. \E u \in VrrpTypes : \E e : SetVrrp(u, i, n, e) /\ "vip" \notin DOMAIN e
      <3>1. CASE vrrp_priority(t, i, n, x)
        BY <3>1 DEF vrrp_priority
      <3>2. CASE adv_interval(t, i, n, x)
        BY <3>2 DEF adv_interval
      <3>3. CASE pre_empt(t, i, n, x)
        BY <3>3 DEF pre_empt
      <3>4. CASE vrrp_version(i, n, x)
        BY <3>4 DEF vrrp_version, VrrpTypes
      <3> QED
        BY <1>11, <3>1, <3>2, <3>3, <3>4
    <2> QED
      BY <1>10, <2>1
  <1>12. CASE VrrpCommand
    BY <1>5, <1>6, <1>7, <1>8, <1>9, <1>11, <1>12 DEF VrrpCommand, VrrpTypes
  <1>13. CASE \/ VlanCommand \/ MemberCommand \/ PortchannelCommand \/ PortchannelMemberCommand
              \/ MirrorCommand \/ PortCommand \/ StpCommand \/ AddressCommand \/ InterfaceCommand
              \/ BindCommand
    BY <1>1, <1>13, VlanFrame, MemberFrame, PortchannelFrame, PortchannelMemberFrame, MirrorFrame, PortFrame,
       StpFrame, AddressFrame, InterfaceFrame, BindFrame
       DEF VrrpTypes, VlanTables, MemberTables, PortchannelTables, PortchannelMemberTables, MirrorTables,
           PortTables, StpTables, InterfaceTables
  <1>14. CASE \/ VrfCommand \/ VxlanCommand \/ VnetCommand \/ MclagCommand \/ AclCommand \/ PbhFieldCommand
              \/ PbhRuleCommand \/ NatStaticCommand \/ NatPoolCommand \/ QuietCommand
    BY <1>1, <1>14, VrfFrame, VxlanFrame, VnetFrame, MclagFrame, AclFrame, PbhFieldFrame, PbhRuleFrame,
       NatStaticFrame, NatPoolFrame, QuietFrame
       DEF VrrpTypes, VrfTables, InterfaceTables, VxlanTables, VnetTables, MclagTables, AclTableTables,
           PbhFieldTables, PbhRuleTables, NatStaticTables, NatPoolTables, QuietTables, StormTables, MacTables,
           FastLinkupTables, StpPortTables, MgmtTables, RouteTables, EvpnTables, NvgreTables, AclRuleTables,
           PbhTables, NatOtherTables
  <1>15. CASE UNCHANGED db
    BY <1>15
  <1> QED
    BY <1>12, <1>13, <1>14, <1>15, Commands

---------------------------------------------------------------------------
(* All commands together: the conjunction of the inductive invariants, and *)
(* the theorems that follow.                                               *)
SwitchInv ==
  /\ MembershipInv /\ AddressedIsNotSwitched /\ BoundVrfExists
  /\ NatDisjoint /\ PbhConsistent
  /\ Roles(db) /\ Matching(db) /\ VniInv(db)
  /\ Timers(db["STP"]) /\ MclagTimers(db["MCLAG_DOMAIN"]) /\ VrrpInv(db)

\* A switch whose tables are empty.
LEMMA SwitchInvInit == SwitchingInit => SwitchInv
  <1> SUFFICES ASSUME SwitchingInit PROVE SwitchInv
    OBVIOUS
  <1>1. \A t \in InterfaceTables \cup
                {"VLAN", "VLAN_MEMBER", "PORTCHANNEL", "PORTCHANNEL_MEMBER", "MIRROR_SESSION", "ACL_TABLE",
                 "VRF", "VXLAN_TUNNEL_MAP", "STP", "VRRP", "VRRP6", "MCLAG_DOMAIN", "STATIC_NAT",
                 "PBH_HASH_FIELD", "PBH_RULE", "PBH_COUNTERS"} : DOMAIN db[t] = {}
    BY TableNames DEF SwitchingInit, ProvidedTables, NoEntries, InterfaceTables
  <1>2. MembershipInv
    BY <1>1 DEF MembershipInv, SwitchTypeOK, MembersExist, Keys, SwitchingInit
  <1>3. AddressedIsNotSwitched
    <2>1. \A i \in Ports \cup PortChannels \cup Vlans : AddressKeys(db, i) = {}
      BY <1>1, InterfaceTable DEF AddressKeys, Keys, Interfaces
    <2> QED
      BY <2>1 DEF AddressedIsNotSwitched
  <1>4. BoundVrfExists /\ NatDisjoint /\ PbhConsistent
    BY <1>1 DEF BoundVrfExists, NatDisjoint, PbhConsistent, Keys
  <1>5. Roles(db)
    <2>1. \A p : /\ ~is_port_mirror_dst_port(db, p) /\ ~interface_is_in_vlan(db, p)
                 /\ ~interface_is_in_portchannel(db, p)
      BY <1>1 DEF is_port_mirror_dst_port, interface_is_in_vlan, interface_is_in_portchannel, MembersOf, Keys
    <2> QED
      BY <1>1, <2>1 DEF Roles
  <1>6. Matching(db) /\ VniInv(db)
    BY <1>1 DEF Matching, VniInv, Mapping, VrfsMapped, MapEntries
  <1>7. Timers(db["STP"]) /\ MclagTimers(db["MCLAG_DOMAIN"])
    BY <1>1 DEF Timers, MclagTimers
  <1>8. VrrpInv(db)
    BY <1>1 DEF VrrpInv, VrrpTypes, Instances
  <1> QED
    BY <1>2, <1>3, <1>4, <1>5, <1>6, <1>7, <1>8 DEF SwitchInv

\* Every command keeps all of it.
LEMMA SwitchInvStep == SwitchInv /\ [SwitchingNext]_db => SwitchInv'
  <1> SUFFICES ASSUME SwitchInv, [SwitchingNext]_db PROVE SwitchInv'
    OBVIOUS
  <1>1. SwitchTypeOK
    BY DEF SwitchInv, MembershipInv
  <1>2. MembershipInv' /\ AddressedIsNotSwitched' /\ BoundVrfExists' /\ NatDisjoint' /\ PbhConsistent'
    BY <1>1, MembershipStep, AddressedStep, BoundStepVrf, NatStep, PbhStep DEF SwitchInv
  <1>3. Roles(db') /\ Matching(db') /\ VniInv(db')
    BY <1>1, RoleStep, MatchStep, VniStep DEF SwitchInv
  <1>4. Timers(db'["STP"]) /\ MclagTimers(db'["MCLAG_DOMAIN"]) /\ VrrpInv(db')
    BY <1>1, TimersStep, MclagTimersStep, VrrpStep DEF SwitchInv
  <1>5. Roles(db)' /\ Matching(db)' /\ VniInv(db)' /\ Timers(db["STP"])' /\ MclagTimers(db["MCLAG_DOMAIN"])' /\ VrrpInv(db)'
    BY <1>3, <1>4
  <1> QED
    BY <1>2, <1>5 DEF SwitchInv

\* The invariant of every sequence of commands.
LEMMA SwitchInvAlways == SwitchingSpec => []SwitchInv
  BY SwitchInvInit, SwitchInvStep, PTL DEF SwitchingSpec

\* A VLAN or port channel is removed only without members, and a member is
\* added only to one that exists: whatever the commands in between, no
\* membership is left behind.
THEOREM MembershipsAreKept == SwitchingSpec => []MembersExist
  <1>1. SwitchInv => MembersExist
    BY DEF SwitchInv, MembershipInv
  <1> QED
    BY <1>1, SwitchInvAlways, PTL

\* The commands that add addresses refuse switched interfaces and the ones
\* that add members refuse router interfaces: no order of them makes an
\* interface both.
THEOREM RoutedIsNotSwitched == SwitchingSpec => []AddressedIsNotSwitched
  <1>1. SwitchInv => AddressedIsNotSwitched
    BY DEF SwitchInv
  <1> QED
    BY <1>1, SwitchInvAlways, PTL

\* config vrf del and config vnet del take the bindings of every kind of
\* interface with them.
THEOREM BindingsAreValid == SwitchingSpec => []BoundVrfExists
  <1>1. SwitchInv => BoundVrfExists
    BY DEF SwitchInv
  <1> QED
    BY <1>1, SwitchInvAlways, PTL

\* Static entries with and without ports and the pools of config nat, each
\* checked against the others when it is added, never overlap.
THEOREM NatEntriesAreDisjoint == SwitchingSpec => []NatDisjoint
  <1>1. SwitchInv => NatDisjoint
    BY DEF SwitchInv
  <1> QED
    BY <1>1, SwitchInvAlways, PTL

\* acl-loader: the incremental update leaves the rules of the full update,
\* for every file and whatever was loaded before.
THEOREM IncrementalUpdateIsFull == SwitchingSpec => []IncrementalIsFull
  <1>1. SwitchInv => IncrementalIsFull
    BY IncrementalStep DEF SwitchInv, MembershipInv
  <1> QED
    BY <1>1, SwitchInvAlways, PTL

\* The PBH plug-in: updates field by field leave no rule without a match, no
\* mask of the wrong family and no counter of a rule that is gone.
THEOREM PbhIsConsistent == SwitchingSpec => []PbhConsistent
  <1>1. SwitchInv => PbhConsistent
    BY DEF SwitchInv
  <1> QED
    BY <1>1, SwitchInvAlways, PTL

\* Mirror, VLAN, port channel and ACL commands each look at the tables of
\* the others: a port has one role, and one of each kind.
THEOREM PortsHaveOneRole == SwitchingSpec => []OneRole
  <1>1. SwitchInv => OneRole
    BY RolesHold DEF SwitchInv
  <1> QED
    BY <1>1, SwitchInvAlways, PTL

\* The commands that set MTU and TPID refuse members, joining refuses a port
\* that differs: members have the values of their port channel.
THEOREM MembersMatch == SwitchingSpec => []MembersMatchPortchannel
  <1>1. SwitchInv => MembersMatchPortchannel
    BY MatchingHolds DEF SwitchInv
  <1> QED
    BY <1>1, SwitchInvAlways, PTL

\* config vxlan map, map_range and config vrf add_vrf_vni_map: VLANs and VNIs
\* are mapped one to one and the VNI of a VRF stays mapped.
THEOREM VniMapsAreConsistent == SwitchingSpec => []VniMapsConsistent
  <1>1. SwitchInv => VniMapsConsistent
    BY VniHolds DEF SwitchInv
  <1> QED
    BY <1>1, SwitchInvAlways, PTL

\* Timers of spanning tree and of MCLAG that are set one at a time always
\* fit together; ids and addresses of VRRP stay unique and within the limit.
THEOREM LimitsAreKept == SwitchingSpec => []LimitsHold
  <1>1. SwitchInv => LimitsHold
    BY TimersHold, MclagTimersHold, VrrpHolds DEF SwitchInv, LimitsHold
  <1> QED
    BY <1>1, SwitchInvAlways, PTL
===========================================================================
