---------------------------- MODULE MCSwitching ----------------------------
(* The switching and routing commands on a switch with two ports, one port *)
(* channel and two VLANs.  A behaviour is any sequence of the commands of  *)
(* one area; the areas overlap where the commands look at one another's    *)
(* tables, and tables that an area only reads start filled.                *)
EXTENDS SwitchingConfig

CONSTANT Areas   \* the areas a run goes through

VARIABLE area
vars == <<db, area>>

In(a) == area = a /\ area' = area

MCFastLinkup == [polling_time |-> 5..10, guard_time |-> 1..5]
MCParent == [s \in {"p1.10", "E1.20"} |-> "p1"]
MCSubVlan == [s \in {"p1.10", "E1.20"} |-> IF s = "p1.10" THEN 10 ELSE 20]
MCVlanNumber == [v \in {"Vlan10", "Vlan11"} |-> IF v = "Vlan10" THEN 10 ELSE 11]
MCRefs == {<<"NVGRE_TUNNEL_MAP", "key", "NVGRE_TUNNEL">>}
MCPbhCap ==
  [t \in {"PBH_RULE", "PBH_HASH", "PBH_HASH_FIELD", "PBH_TABLE"} |->
     [f \in {"hash", "flow_counter", "gre_key", "ether_type", "hash_field", "ip_mask",
             "hash_field_list", "interface_list"} |->
        IF f = "gre_key" THEN {"ADD", "UPDATE", "REMOVE"}
        ELSE IF f = "flow_counter" THEN {"ADD", "UPDATE", "REMOVE"} ELSE {"UPDATE", "REMOVE"}]]
AclEntry(seq, action, proto, icmp) ==
  [seq |-> seq, action |-> action, ethertype |-> "IPV4", protocol |-> proto, icmp |-> icmp,
   tcp_flags |-> FALSE]
MCAclFiles ==
  {[t \in {"data"} |-> {AclEntry(1, "ACCEPT", "TCP", FALSE), AclEntry(2, "DROP", "TCP", TRUE)}],
   [t \in {"data", "ctrl"} |-> {AclEntry(1, "DROP", "ICMP", TRUE)}],
   [t \in {"ctrl"} |-> {AclEntry(1, "ACCEPT", "TCP", FALSE), AclEntry(3, "DROP", "UDP", FALSE)}]}

---------------------------------------------------------------------------
Empty == [t \in Tables |-> NoEntries]
WithPorts(d) ==
  [d EXCEPT !["PORT"] = [p \in Ports |-> [speed |-> 100, mtu |-> 9100]],
            !["DEVICE_METADATA"] = [k \in {"localhost"} |-> [has_sonic_dhcpv4_relay |-> TRUE]]]
WithVlans(d) == [d EXCEPT !["VLAN"] = [v \in Vlans |-> [vlanid |-> v]]]
Member(v, p) == <<v, p>> :> [tagging_mode |-> "tagged"]
StartDb(a) ==
  LET d == WithPorts(Empty)
      m == [WithVlans(d) EXCEPT !["VLAN_MEMBER"] = Member("Vlan10", "p1")]
  IN  CASE a = "pvst_ports" -> m
        [] a = "mst" ->
             [m EXCEPT !["STP_MST_INST"] = <<"MST_INSTANCE", 1>> :> [bridge_priority |-> 32768]]
        [] a = "route" ->
             [d EXCEPT !["INTERFACE"] = <<"p1">> :> NoEntries, !["VRF"] = "Vrf1" :> NoEntries]
        [] a \in {"vrrp", "vrrp6"} ->
             [WithVlans(d) EXCEPT !["INTERFACE"] = [k \in {<<p>> : p \in Ports} |-> NoEntries]]
        [] a = "router" ->
             [WithVlans(d) EXCEPT
                !["DHCPV4_RELAY"] = "Vlan10" :> [source_interface |-> "Loopback0",
                                                  server_vrf |-> "Vrf2"],
                !["VNET"] = "Vnet1" :> [vni |-> 1, vxlan_tunnel |-> "vtep", peer_list |-> {}]]
        [] a = "host_ports" ->
             [WithVlans(d) EXCEPT !["VLAN_INTERFACE"] = <<"Vlan10">> :> NoEntries]
        [] a \in {"mclag", "nat"} ->
             [WithVlans(d) EXCEPT !["INTERFACE"] = <<"p1">> :> [vrf_name |-> "Vrf1"],
                                  !["VRF"] = "Vrf1" :> NoEntries]
        [] a = "acl" -> [d EXCEPT !["PORTCHANNEL"] = "pc1" :> [mtu |-> 9100]]
        [] OTHER -> d

Init == area \in Areas /\ db = StartDb(area)

---------------------------------------------------------------------------
(* VLANs, port channels, mirror sessions and addresses of the same ports.  *)
P1 == "p1"
Directions == {"RX", "BOTH"}
SwitchNext ==
  \/ \E v \in Vlans : In("switch") /\ add_vlan(v)
  \/ \E v \in Vlans : In("switch") /\ del_vlan(v, FALSE)
  \/ \E v \in Vlans, p \in {"p1", "pc1"}, u \in BOOLEAN : In("switch") /\ add_vlan_member(v, p, u)
  \/ \E v \in Vlans, p \in {"p1", "pc1"} : In("switch") /\ del_vlan_member(v, p)
  \/ \E type \in {"access", "trunk", "routed"} : In("switch") /\ switchport_mode(type, "p1")
  \/ \E c \in PortChannels : In("switch") /\ add_portchannel(c, 1, FALSE, FALSE)
  \/ \E c \in PortChannels : In("switch") /\ remove_portchannel(c)
  \/ \E c \in PortChannels, p \in Ports : In("switch") /\ add_portchannel_member(c, p)
  \/ \E c \in PortChannels, p \in Ports : In("switch") /\ del_portchannel_member(c, p)
  \/ \E i \in {"p1", "pc1", "Vlan10"} : In("switch") /\ add_interface_ip(i, "a4", FALSE)
  \/ \E i \in {"p1", "pc1", "Vlan10"} : In("switch") /\ remove_interface_ip(i, "a4")
  \/ In("switch") /\ bind("p1", "Vrf1")
  \/ In("switch") /\ unbind("p1")
  \/ In("switch") /\ add_vrf("Vrf1")
  \/ In("switch") /\ del_vrf("Vrf1")
  \/ \E x \in {"enable", "disable"} : In("switch") /\ use_link_local_only("p1", x)
  \/ In("switch") /\ add_span("s1", "p1", {}, "")
  \/ In("switch") /\ remove_mirror_session("s1")

(* Mirror sessions, storm control, gateways, DHCP relay: one VLAN.         *)
PortServiceNext ==
  \/ \E s \in Sessions, src \in {{}, {"p2"}}, x \in Directions : In("host_ports") /\ add_erspan(s, src, x)
  \/ \E s \in Sessions, src \in {{}, {"p2"}} : In("host_ports") /\ add_span(s, "p1", src, "BOTH")
  \/ \E s \in Sessions : In("host_ports") /\ remove_mirror_session(s)
  \/ \E type \in StormTypes, n \in StormRates : In("host_ports") /\ storm_control_set_entry("p1", type, n)
  \/ \E type \in StormTypes : In("host_ports") /\ storm_control_delete_entry("p1", type)
  \/ In("host_ports") /\ config_proxy_arp("Vlan10", "enabled")
  \/ In("host_ports") /\ enable_vlan_sag("Vlan10")
  \/ In("host_ports") /\ disable_vlan_sag("Vlan10")
  \/ In("host_ports") /\ add_mac("mac")
  \/ In("host_ports") /\ del_mac
  \/ \E n \in {0, 10, 20} : In("host_ports") /\ add_dhcp_mitigation_rate("p1", n)
  \/ \E n \in {0, 10, 20} : In("host_ports") /\ del_dhcp_mitigation_rate("p1", n)

(* Port parameters while ports join and leave a port channel.              *)
Filters == {{[range |-> FALSE, names |-> {"p1"}]}, {[range |-> TRUE, names |-> {"p1", "pc2"}]}}
PortNext ==
  \/ \E n \in {100, 300} : In("port") /\ speed(P1, n)
  \/ \E n \in {67, 9100, 9000} : In("port") /\ mtu(P1, n)
  \/ \E p \in {P1, "pc1"}, x \in {"0x8100", "0x9100", "0x8200"} : In("port") /\ tpid(p, x)
  \/ In("port") /\ add_portchannel("pc1", 1, FALSE, FALSE)
  \/ In("port") /\ remove_portchannel("pc1")
  \/ In("port") /\ add_portchannel_member("pc1", P1)
  \/ In("port") /\ del_portchannel_member("pc1", P1)
  \/ \E f \in Filters : In("port") /\ startup(f)
  \/ \E f \in Filters : In("port") /\ shutdown(f)
  \/ In("port") /\ add_pc_sys_id_mac("pc1", "mac")
  \/ In("port") /\ del_pc_sys_id_mac("pc1", "mac")
TuningNext ==
  \/ \E x \in {"rs", "fc"} : In("tuning") /\ fec(P1, x)
  \/ In("tuning") /\ link_training(P1, "on")
  \/ In("tuning") /\ autoneg(P1, "on")
  \/ \E x \in {<< >>, <<100>>, <<100, 100>>, <<300>>} : In("tuning") /\ advertised_speeds(P1, x)
  \/ \E x \in Types : In("tuning") /\ interface_type(P1, x)
  \/ \E x \in {<< >>, <<"CR4">>, <<"CR4", "CR4">>} : In("tuning") /\ advertised_types(P1, x)
  \/ In("tuning") /\ frequency(P1, 196)
  \/ In("tuning") /\ tx_power(P1, -11)
  \/ In("tuning") /\ dom(P1, "disabled")
  \/ \E x \in {[polling_time |-> 4], [guard_time |-> 5], [ber_threshold |-> 255]} :
       In("tuning") /\ switch_fast_linkup_global_cmd(x)
  \/ In("tuning") /\ fast_linkup(P1, "enabled")

---------------------------------------------------------------------------
(* Spanning tree while VLANs and members come and go.                      *)
PvstNext ==
  \/ \E v \in Vlans : In("pvst") /\ add_vlan(v)
  \/ \E v \in Vlans : In("pvst") /\ del_vlan(v, TRUE)
  \/ In("pvst") /\ add_vlan_member("Vlan10", "p1", FALSE)
  \/ In("pvst") /\ del_vlan_member("Vlan10", "p1")
  \/ In("pvst") /\ spanning_tree_enable("pvst", VlanNumber)
  \/ In("pvst") /\ stp_disable("pvst")
  \/ \E n \in ForwardDelays : In("pvst") /\ stp_global_forward_delay(n)
  \/ \E n \in HelloTimes : In("pvst") /\ stp_global_hello_interval(n)
  \/ \E n \in MaxAges : In("pvst") /\ stp_global_max_age(n)
  \/ \E v \in Vlans : In("pvst") /\ stp_vlan_enable(v)
  \/ \E v \in Vlans : In("pvst") /\ stp_vlan_disable(v)
  \/ \E n \in PathCosts : In("pvst") /\ stp_vlan_interface_cost("Vlan10", "p1", n)

(* The parameters of one VLAN and one port.                                *)
PvstPortNext ==
  \/ In("pvst_ports") /\ spanning_tree_enable("pvst", VlanNumber)
  \/ In("pvst_ports") /\ stp_disable("pvst")
  \/ \E n \in {4, 30} : In("pvst_ports") /\ stp_global_root_guard_timeout(n)
  \/ \E n \in Priorities : In("pvst_ports") /\ stp_global_priority(n)
  \/ \E n \in ForwardDelays : In("pvst_ports") /\ stp_vlan_forward_delay("Vlan10", n)
  \/ \E n \in HelloTimes : In("pvst_ports") /\ stp_vlan_hello_interval("Vlan10", n)
  \/ \E n \in MaxAges : In("pvst_ports") /\ stp_vlan_max_age("Vlan10", n)
  \/ \E n \in Priorities : In("pvst_ports") /\ stp_vlan_priority("Vlan10", n)
  \/ In("pvst_ports") /\ stp_interface_portfast_enable(P1)
  \/ In("pvst_ports") /\ stp_interface_portfast_disable(P1)
  \/ In("pvst_ports") /\ stp_interface_uplink_fast_enable(P1)
  \/ In("pvst_ports") /\ stp_interface_uplink_fast_disable(P1)
  \/ \E x \in BOOLEAN : In("pvst_ports") /\ stp_interface_bpdu_guard_enable(P1, x)
  \/ In("pvst_ports") /\ stp_interface_bpdu_guard_disable(P1)
  \/ In("pvst_ports") /\ stp_interface_root_guard_enable(P1)
  \/ In("pvst_ports") /\ stp_interface_root_guard_disable(P1)
  \/ \E n \in {240, 241} : In("pvst_ports") /\ stp_vlan_interface_priority("Vlan10", P1, n)

(* Multiple spanning trees, on a port of a VLAN and one of none.           *)
MstNext ==
  \/ In("mst") /\ spanning_tree_enable("mst", VlanNumber)
  \/ In("mst") /\ stp_disable("mst")
  \/ In("mst") /\ stp_global_forward_delay(15)
  \/ \E n \in {40, 41} : In("mst") /\ stp_global_max_hops(n)
  \/ \E n \in {1, 65536} : In("mst") /\ stp_global_revision(n)
  \/ In("mst") /\ stp_mst_region_name("region")
  \/ \E x \in BOOLEAN : In("mst") /\ mstp_interface_edge_port(P1, x)
  \/ \E n \in {240, 241} : In("mst") /\ stp_interface_priority(P1, n)
  \/ \E p \in Ports, n \in PathCosts : In("mst") /\ stp_interface_cost(p, n)
  \/ In("mst") /\ stp_interface_link_type_set(P1, "shared")
  \/ \E i \in MstInstances : In("mst") /\ mst_instance_interface_priority(i, P1, 16)
  \/ \E i \in MstInstances, n \in PathCosts : In("mst") /\ mst_instance_interface_cost(i, P1, n)
  \/ \E i \in MstInstances, n \in Priorities : In("mst") /\ mst_instance_priority(i, n)
  \/ \E i \in MstInstances, v \in Vlans : In("mst") /\ mst_instance_vlan_add(i, v)
  \/ \E i \in MstInstances, v \in Vlans : In("mst") /\ mst_instance_vlan_del(i, v)

---------------------------------------------------------------------------
(* Router interfaces of a port, a sub-interface, a VLAN and a loopback.    *)
Routers == {"p1", "p1.10", "Vlan10"}
RouterNext ==
  \/ \E i \in Routers, x \in BOOLEAN : In("router") /\ add_interface_ip(i, "a4", x)
  \/ In("router") /\ add_interface_ip("Vlan10", "b4", TRUE)
  \/ \E i \in Routers, a \in {"a4", "b4"} : In("router") /\ remove_interface_ip(i, a)
  \/ \E i \in Routers, v \in {"Vrf1", "Vnet1"} : In("router") /\ bind(i, v)
  \/ \E i \in Routers : In("router") /\ unbind(i)
  \/ \E v \in {"Vrf1", "Vrf2"} : In("router") /\ add_vrf(v)
  \/ \E v \in {"Vrf1", "Vrf2"} : In("router") /\ del_vrf(v)
  \/ In("router") /\ del_vnet("Vnet1")
  \/ \E s \in SubInterfaces, n \in {0, 20} : In("router") /\ add_subinterface(s, n)
  \/ \E s \in SubInterfaces : In("router") /\ del_subinterface(s)

LinkNext ==
  \/ In("link") /\ add_vlan("Vlan10")
  \/ In("link") /\ add_portchannel("pc1", 1, FALSE, FALSE)
  \/ In("link") /\ add_vlan_member("Vlan10", "p1", FALSE)
  \/ In("link") /\ del_vlan_member("Vlan10", "p1")
  \/ \E v \in {"Vrf1", "mgmt"} : In("link") /\ add_vrf(v)
  \/ \E v \in {"Vrf1", "mgmt"} : In("link") /\ del_vrf(v)
  \/ In("link") /\ bind("p1", "Vrf1")
  \/ In("link") /\ add_interface_ip("p2", "a4", FALSE)
  \/ In("link") /\ remove_interface_ip("p2", "a4")
  \/ \E i \in Ports \cup {"pc1", "Vlan10"}, x \in {"enable", "disable"} :
       In("link") /\ use_link_local_only(i, x)
  \/ In("link") /\ enable_link_local
  \/ In("link") /\ disable_link_local
  \/ \E x \in {"enable", "disable"} : In("link") /\ mpls("p1", x)
  \/ In("link") /\ loopback_action("p2", "drop")

LoopbackNext ==
  \/ \E l \in Loopbacks : In("loopback") /\ add_loopback(l)
  \/ \E l \in Loopbacks : In("loopback") /\ del_loopback(l)
  \/ \E l \in Loopbacks, a \in Addresses : In("loopback") /\ add_interface_ip(l, a, FALSE)
  \/ \E l \in Loopbacks, a \in Addresses : In("loopback") /\ remove_interface_ip(l, a)
  \/ \E a \in Addresses, gw \in {"", "gw"} : In("loopback") /\ add_mgmt_ip(a, gw)
  \/ \E a \in Addresses : In("loopback") /\ remove_mgmt_ip(a)

RouteHop(n, v, i) == [nexthop |-> n, vrf |-> v, ifname |-> i]
HopLists == {<< >>, <<RouteHop("n1", "", "p1")>>, <<RouteHop("n2", "Vrf1", "")>>,
             <<RouteHop("n1", "", "p1"), RouteHop("n2", "Vrf1", "")>>,
             <<RouteHop("", "", "null")>>}
RouteNext ==
  \/ \E v \in {"default", "Vrf1"}, h \in HopLists :
       /\ In("route") /\ add_route(v, "10/8", h)
       /\ Len(db'["STATIC_ROUTE"][<<v, "10/8">>]) <= 3
  \/ \E v \in {"default", "Vrf1"}, h \in HopLists : In("route") /\ del_route(v, "10/8", h)
  \/ In("route") /\ add_interface_ip("p1", "a4", FALSE)
  \/ In("route") /\ remove_interface_ip("p1", "a4")

VrrpNext ==
  \/ \E i \in Ports, id \in {1, 2} : In("vrrp") /\ add_vrrp("VRRP", i, id)
  \/ \E i \in Ports, id \in {1, 2} : In("vrrp") /\ remove_vrrp("VRRP", i, id)
  \/ \E i \in Ports, id \in {1, 2}, a \in {"a4", "b4", "a6"} : In("vrrp") /\ add_vrrp_ip("VRRP", i, id, a)
  \/ \E i \in Ports, id \in {1, 2}, a \in {"a4", "b4", "a6"} : In("vrrp") /\ remove_vrrp_ip("VRRP", i, id, a)
  \/ In("vrrp") /\ add_track_interface("VRRP", "p1", 1, "p2", 20)
  \/ In("vrrp") /\ remove_track_interface("VRRP", "p1", 1, "p2")
  \/ In("vrrp") /\ vrrp_priority("VRRP", "p1", 1, 100)
  \/ In("vrrp") /\ adv_interval("VRRP", "p1", 1, 1000)
  \/ In("vrrp") /\ pre_empt("VRRP", "p1", 1, "disabled")
  \/ In("vrrp") /\ vrrp_version("p1", 1, 3)
Vrrp6Next ==
  \/ \E i \in Ports : In("vrrp6") /\ add_vrrp_v6(i, 1)
  \/ \E i \in Ports : In("vrrp6") /\ remove_vrrp_v6(i, 1)
  \/ \E i \in Ports, a \in {"a6", "b6"} : In("vrrp6") /\ add_vrrp6_ipv6(i, 1, a)
  \/ \E i \in Ports, a \in {"a6", "b6"} : In("vrrp6") /\ remove_vrrp_ipv6(i, 1, a)
  \/ In("vrrp6") /\ add_track_interface_v6("p1", 1, "p2", 20)
  \/ In("vrrp6") /\ remove_track_interface_v6("p1", 1, "p2")
  \/ In("vrrp6") /\ priority_v6("p1", 1, 100)
  \/ In("vrrp6") /\ adv_interval_v6("p1", 1, 1000)
  \/ In("vrrp6") /\ pre_empt_v6("p1", 1, "disabled")

---------------------------------------------------------------------------
(* VXLAN maps, VRFs and VNETs.                                             *)
OverlayNext ==
  \/ \E v \in Vlans : In("overlay") /\ add_vlan(v)
  \/ \E v \in Vlans : In("overlay") /\ del_vlan(v, FALSE)
  \/ \E t \in Vteps : In("overlay") /\ add_vxlan(t)
  \/ \E t \in Vteps : In("overlay") /\ del_vxlan(t)
  \/ \E n \in Nvos, t \in Vteps : In("overlay") /\ add_vxlan_evpn_nvo(n, t)
  \/ \E n \in Nvos : In("overlay") /\ del_vxlan_evpn_nvo(n)
  \/ \E t \in Vteps, v \in Vlans, n \in Vnis : In("overlay") /\ add_vxlan_map(t, v, n)
  \/ \E t \in Vteps, v \in Vlans, n \in Vnis : In("overlay") /\ del_vxlan_map(t, v, n)
  \/ \E t \in Vteps, n \in Vnis : In("overlay") /\ add_vxlan_map_range(t, 10, 11, n)
  \/ \E t \in Vteps, n \in Vnis : In("overlay") /\ del_vxlan_map_range(t, 10, 11, n)
  \/ \E v \in {"Vrf1", "Vrf2"} : In("overlay") /\ add_vrf(v)
  \/ \E v \in {"Vrf1", "Vrf2"} : In("overlay") /\ del_vrf(v)
  \/ \E v \in {"Vrf1", "Vrf2"}, n \in Vnis : In("overlay") /\ add_vrf_vni_map(v, n)
  \/ \E v \in {"Vrf1", "Vrf2"} : In("overlay") /\ del_vrf_vni_map(v)

VnetNext ==
  \/ \E t \in Vteps : In("vnet") /\ add_vxlan(t)
  \/ \E t \in Vteps : In("vnet") /\ del_vxlan(t)
  \/ \E n \in Vnets, t \in Vteps : In("vnet") /\ add_vnet(n, 1, t, {})
  \/ \E n \in Vnets : In("vnet") /\ del_vnet(n)
  \/ \E n \in Vnets : In("vnet") /\ bind("p1", n)
  \/ \E n \in Vnets, r \in {"r1", "r2"} : In("vnet") /\ add_vnet_route(n, r, "e")
  \/ \E n \in Vnets, r \in {"", "r1"} : In("vnet") /\ del_vnet_route(n, r)
  \/ In("vnet") /\ NVGRE_TUNNEL_add("t")
  \/ In("vnet") /\ NVGRE_TUNNEL_delete("t")
  \/ In("vnet") /\ NVGRE_TUNNEL_MAP_add("t", "m", 10, 1)
  \/ In("vnet") /\ NVGRE_TUNNEL_MAP_delete("t", "m")

MclagNext ==
  \/ \E k \in {1, 2} : In("mclag") /\ add_mclag_domain(k, "p1")
  \/ \E k \in {1, 2} : In("mclag") /\ del_mclag_domain(k)
  \/ \E n \in {1, 2, 5, 6} : In("mclag") /\ config_mclag_keepalive_timer(1, n)
  \/ \E n \in {3, 10, 15, 18} : In("mclag") /\ config_mclag_session_timeout(1, n)
  \/ In("mclag") /\ add_mclag_member(1, "pc1")
  \/ In("mclag") /\ del_mclag_member(1, "pc1")
  \/ In("mclag") /\ add_mclag_unique_ip("Vlan10")
  \/ In("mclag") /\ del_mclag_unique_ip("Vlan10")
  \/ In("mclag") /\ add_interface_ip("Vlan10", "a4", FALSE)

EvpnNext ==
  \/ \E n \in {1, 3601} : In("evpn") /\ set_startup_delay(n)
  \/ \E n \in {1, 86401} : In("evpn") /\ set_mac_holdtime(n)
  \/ \E n \in {1, 86401} : In("evpn") /\ set_neigh_holdtime(n)
  \/ \E i \in Ports, e \in {"AUTO", "manual"} : In("evpn") /\ add_evpn_es(i, e)
  \/ \E i \in Ports : In("evpn") /\ del_evpn_es(i)
  \/ \E i \in Ports, n \in {0, 1} : In("evpn") /\ evpn_df_pref(i, n)

---------------------------------------------------------------------------
(* ACL tables of ports while they join port channels, and their rules.     *)
AclNext ==
  \/ In("acl") /\ add_portchannel_member("pc1", "p1")
  \/ In("acl") /\ del_portchannel_member("pc1", "p1")
  \/ In("acl") /\ add_vlan("Vlan10")
  \/ In("acl") /\ add_vlan_member("Vlan10", "p2", FALSE)
  \/ In("acl") /\ add_erspan("s1", {}, "")
  \/ \E p \in {{}, {"p1"}, {"pc1"}, {"Vlan10"}}, x \in {"L3", "MIRROR"} :
       In("acl") /\ add_table("data", x, p, "ingress")
  \/ In("acl") /\ add_table("ctrl", "CTRLPLANE", {"p2"}, "ingress")
  \/ \E t \in AclTables : In("acl") /\ remove_table(t)
  \/ \E f \in AclFiles, t \in AclTables \cup {""} : In("acl") /\ full_update(f, t)
  \/ \E f \in AclFiles : In("acl") /\ incremental_update(f)
  \/ \E t \in AclTables \cup {""}, n \in {-1, 1} : In("acl") /\ delete_rules(t, n)

MCPbhRules == {[hash |-> "h", gre_key |-> "k"], [hash |-> "h", flow_counter |-> "ENABLED"],
             [hash |-> "h", ether_type |-> "e", flow_counter |-> "ENABLED"],
             [gre_key |-> "k"], [flow_counter |-> "DISABLED"], [flow_counter |-> "ENABLED"]}
PbhNext ==
  \/ \E x \in {{}, {"p1"}} : In("pbh") /\ PBH_TABLE_add("t", x)
  \/ In("pbh") /\ PBH_TABLE_update("t", {"p2"})
  \/ In("pbh") /\ PBH_TABLE_delete("t")
  \/ \E f \in {"INNER_IP_PROTOCOL", "INNER_DST_IPV4"}, x \in {"", "v4"} :
       In("pbh") /\ PBH_HASH_FIELD_add("f", f, x)
  \/ \E f \in {"", "INNER_IP_PROTOCOL", "INNER_SRC_IPV4", "INNER_DST_IPV6"}, x \in {"", "v4", "v6"} :
       In("pbh") /\ PBH_HASH_FIELD_update("f", f, x)
  \/ In("pbh") /\ PBH_HASH_FIELD_delete("f")
  \/ \E x \in {{}, {"f"}} : In("pbh") /\ PBH_HASH_add("h", x)
  \/ \E x \in {{}, {"f"}} : In("pbh") /\ PBH_HASH_update("h", x)
  \/ In("pbh") /\ PBH_HASH_delete("h")
  \/ \E x \in MCPbhRules : In("pbh") /\ PBH_RULE_add("t", "r", x)
  \/ \E x \in MCPbhRules : In("pbh") /\ PBH_RULE_update_field_set("t", "r", x)
  \/ \E F \in SUBSET {"gre_key", "ether_type", "flow_counter"} :
       In("pbh") /\ PBH_RULE_update_field_del("t", "r", F)
  \/ In("pbh") /\ PBH_RULE_delete("t", "r")
  \/ In("pbh") /\ clear_pbh_counters

---------------------------------------------------------------------------
(* Address translation: static entries, pools and bindings.                *)
NatTypes == {"snat", "dnat"}
NatNext ==
  \/ \E g \in NatIps, l \in NatIps, x \in NatTypes, n \in TwiceIds : In("nat") /\ add_basic(g, l, x, n)
  \/ \E g \in NatIps, l \in NatIps : In("nat") /\ remove_basic(g, l)
  \/ \E l \in NatIps, x \in NatTypes : In("nat") /\ add_tcp(1, 80, l, 80, x, 0)
  \/ In("nat") /\ add_udp(2, 80, 2, 80, "dnat", 0)
  \/ \E l \in NatIps : In("nat") /\ remove_tcp(1, 80, l, 80)
  \/ In("nat") /\ remove_udp(2, 80, 2, 80)
  \/ In("nat") /\ remove_static_all
  \/ \E p \in Pools, lo \in NatIps, hi \in NatIps : In("nat") /\ add_pool(p, lo, hi)
  \/ \E p \in Pools : In("nat") /\ remove_pool(p)
  \/ In("nat") /\ remove_pools
  \/ \E b \in Bindings, p \in Pools, n \in TwiceIds : In("nat") /\ add_binding(b, p, n)
  \/ \E b \in Bindings : In("nat") /\ remove_binding(b)
NatGlobalNext ==
  \/ In("nat_global") /\ add_interface_ip("p1", "a4", FALSE)
  \/ In("nat_global") /\ add_vrf("Vrf1")
  \/ In("nat_global") /\ bind("p1", "Vrf1")
  \/ \E n \in {1, 3} : In("nat_global") /\ add_nat_interface("p1", n)
  \/ In("nat_global") /\ remove_nat_interface("p1")
  \/ In("nat_global") /\ remove_interfaces
  \/ \E x \in {"enabled", "disabled"} : In("nat_global") /\ nat_feature(x)
  \/ \E f \in {"nat_timeout", "nat_tcp_timeout", "nat_udp_timeout"} :
       In("nat_global") /\ nat_set_timeout(f, 400)
  \/ \E f \in {"nat_timeout", "nat_tcp_timeout", "nat_udp_timeout"} :
       In("nat_global") /\ nat_reset_timeout(f)

Next ==
  \/ SwitchNext \/ PortServiceNext \/ PortNext \/ TuningNext \/ PvstNext \/ PvstPortNext \/ MstNext
  \/ RouterNext \/ LinkNext \/ LoopbackNext \/ RouteNext \/ VrrpNext \/ Vrrp6Next
  \/ OverlayNext \/ VnetNext \/ MclagNext \/ EvpnNext
  \/ AclNext \/ PbhNext \/ NatNext \/ NatGlobalNext

Spec == Init /\ [][Next]_vars

===========================================================================
