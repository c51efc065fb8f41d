--------------------------- MODULE OverlayConfig ---------------------------
(* Overlays and multi-homing: config/vxlan.py, the group vnet and the      *)
(* Ethernet segments of config/main.py, config/mclag.py,                   *)
(* config/evpn_mh.py and the NVGRE plugin.                                 *)
EXTENDS L3Config, ValidatedEntry

CONSTANTS
  VlanNumber,  \* VLAN -> its number
  Vteps, Nvos, Vnis

ASSUME VlanNumberAssumption ==
  /\ VlanNumber \in [Vlans -> Nat]
  /\ \A v, w \in Vlans : VlanNumber[v] = VlanNumber[w] => v = w
ASSUME VniAssumption == Vnis \subseteq Nat

OverlayTables == {"VXLAN_TUNNEL", "VXLAN_EVPN_NVO", "VXLAN_TUNNEL_MAP", "VNET_ROUTE_TUNNEL",
                  "MCLAG_DOMAIN", "MCLAG_INTERFACE", "MCLAG_UNIQUE_IP", "NVGRE_TUNNEL",
                  "NVGRE_TUNNEL_MAP", "EVPN_MH_GLOBAL", "EVPN_ETHERNET_SEGMENT"}

---------------------------------------------------------------------------
(* config vxlan                                                            *)
add_vxlan(vtep) ==
  /\ Keys(db, "VXLAN_TUNNEL") = {}
  /\ db' = SetEntry(db, "VXLAN_TUNNEL", vtep, [src_ip |-> "ip"])
del_vxlan(vtep) ==
  /\ Has(db, "VXLAN_TUNNEL", vtep)
  /\ Keys(db, "VXLAN_EVPN_NVO") = {} /\ Keys(db, "VXLAN_TUNNEL_MAP") = {}
  /\ ~\E n \in Keys(db, "VNET") : Field(db, "VNET", n, "vxlan_tunnel", "") = vtep
  /\ db' = DelEntry(db, "VXLAN_TUNNEL", vtep)

add_vxlan_evpn_nvo(nvo, vtep) ==
  /\ Keys(db, "VXLAN_EVPN_NVO") = {} /\ Has(db, "VXLAN_TUNNEL", vtep)
  /\ db' = SetEntry(db, "VXLAN_EVPN_NVO", nvo, [source_vtep |-> vtep])
del_vxlan_evpn_nvo(nvo) ==
  /\ Keys(db, "VXLAN_TUNNEL_MAP") = {}
  /\ db' = DelEntry(db, "VXLAN_EVPN_NVO", nvo)

\* The name of a map holds the VTEP, the VNI and the VLAN.
MapKey(vtep, v, vni) == <<vtep, vni, v>>
Mapped(d, v, vni) ==
  \E k \in Keys(d, "VXLAN_TUNNEL_MAP") :
     d["VXLAN_TUNNEL_MAP"][k].vlan = v \/ d["VXLAN_TUNNEL_MAP"][k].vni = vni

add_vxlan_map(vtep, v, vni) ==
  /\ Has(db, "VXLAN_TUNNEL", vtep) /\ Has(db, "VLAN", v)
  /\ ~Mapped(db, v, vni)
  /\ db' = SetEntry(db, "VXLAN_TUNNEL_MAP", MapKey(vtep, v, vni), [vni |-> vni, vlan |-> v])
del_vxlan_map(vtep, v, vni) ==
  /\ Has(db, "VXLAN_TUNNEL", vtep) /\ ~is_vni_vrf_mapped(db, vni)
  /\ db' = DelEntry(db, "VXLAN_TUNNEL_MAP", MapKey(vtep, v, vni))

\* The VLANs of a range get consecutive VNIs; what is missing or mapped
\* already is skipped.
InVlanRange(first, last) == {v \in Vlans : VlanNumber[v] \in first..last}
add_vxlan_map_range(vtep, first, last, vni_start) ==
  LET vni(v) == vni_start + VlanNumber[v] - first
      new == {v \in InVlanRange(first, last) : Has(db, "VLAN", v) /\ ~Mapped(db, v, vni(v))}
      entries == [k \in {MapKey(vtep, v, vni(v)) : v \in new} |-> [vni |-> k[2], vlan |-> k[3]]]
  IN  /\ first <= last /\ Has(db, "VXLAN_TUNNEL", vtep)
      /\ db' = [db EXCEPT !["VXLAN_TUNNEL_MAP"] = Over(entries, @)]

\* Mutant: VNIs of VRFs are removed too.
del_vxlan_map_whole_range(vtep, first, last, vni_start) ==
  /\ first <= last /\ Has(db, "VXLAN_TUNNEL", vtep)
  /\ db' = DelEntries(db, "VXLAN_TUNNEL_MAP",
             {MapKey(vtep, v, vni_start + VlanNumber[v] - first) : v \in InVlanRange(first, last)})

del_vxlan_map_range(vtep, first, last, vni_start) ==
  LET vni(v) == vni_start + VlanNumber[v] - first
      old == {v \in InVlanRange(first, last) : ~is_vni_vrf_mapped(db, vni(v))}
  IN  /\ first <= last /\ Has(db, "VXLAN_TUNNEL", vtep)
      /\ db' = DelEntries(db, "VXLAN_TUNNEL_MAP", {MapKey(vtep, v, vni(v)) : v \in old})

---------------------------------------------------------------------------
(* config vnet.  Adding a VNET that exists replaces its entry.             *)
add_vnet(n, vni, vtep, peers) ==
  /\ Has(db, "VXLAN_TUNNEL", vtep)
  /\ db' = SetEntry(db, "VNET", n, [vni |-> vni, vxlan_tunnel |-> vtep, peer_list |-> peers])
RoutesOf(n) == {k \in Keys(db, "VNET_ROUTE_TUNNEL") : k[1] = n}
del_route_bind_to_vnet(d, n) ==
  DelEntries(d, "VNET_ROUTE_TUNNEL", {k \in Keys(d, "VNET_ROUTE_TUNNEL") : k[1] = n})
del_vnet(n) ==
  /\ is_vnet_exists(db, n)
  /\ db' = DelEntry(del_route_bind_to_vnet(del_interface_bind_to_vnet(db, n), n), "VNET", n)
add_vnet_route(n, prefix, endpoint) ==
  /\ is_vnet_exists(db, n)
  /\ db' = SetEntry(db, "VNET_ROUTE_TUNNEL", <<n, prefix>>, [endpoint |-> endpoint])
\* Without a prefix, all routes of the VNET.
del_vnet_route(n, prefix) ==
  /\ is_vnet_exists(db, n) /\ RoutesOf(n) # {}
  /\ prefix # "" => Has(db, "VNET_ROUTE_TUNNEL", <<n, prefix>>)
  /\ db' = IF prefix = "" THEN del_route_bind_to_vnet(db, n)
           ELSE DelEntry(db, "VNET_ROUTE_TUNNEL", <<n, prefix>>)

---------------------------------------------------------------------------
(* config mclag: one domain; the name of the domain and of the members are *)
(* not looked up anywhere.                                                 *)
add_mclag_domain(dom, peer) ==
  /\ Keys(db, "MCLAG_DOMAIN") \in {{}, {dom}}
  /\ db' = ModEntry(db, "MCLAG_DOMAIN", dom, [peer_link |-> peer])
del_mclag_domain(dom) ==
  db' = DelEntry(DelEntries(db, "MCLAG_INTERFACE", {k \in Keys(db, "MCLAG_INTERFACE") : k[1] = dom}),
                 "MCLAG_DOMAIN", dom)
mclag_ka_session_dep_check(ka, session_tmout) ==
  session_tmout >= 3 * ka /\ session_tmout % ka = 0
KeepAlive(d, dom) == Field(d, "MCLAG_DOMAIN", dom, "keepalive_interval", 1)
SessionTimeout(d, dom) == Field(d, "MCLAG_DOMAIN", dom, "session_timeout", 15)

config_mclag_keepalive_timer(dom, secs) ==
  /\ Has(db, "MCLAG_DOMAIN", dom) /\ secs \in 1..60
  /\ mclag_ka_session_dep_check(secs, SessionTimeout(db, dom))
  /\ db' = ModEntry(db, "MCLAG_DOMAIN", dom, [keepalive_interval |-> secs])
MaxSessionTimeout == 3600
config_mclag_session_timeout(dom, secs) ==
  /\ Has(db, "MCLAG_DOMAIN", dom) /\ secs \in 3..MaxSessionTimeout
  /\ mclag_ka_session_dep_check(KeepAlive(db, dom), secs)
  /\ db' = ModEntry(db, "MCLAG_DOMAIN", dom, [session_timeout |-> secs])
add_mclag_member(dom, pc) ==
  db' = SetEntry(db, "MCLAG_INTERFACE", <<dom, pc>>, [if_type |-> "PortChannel"])
del_mclag_member(dom, pc) == db' = DelEntry(db, "MCLAG_INTERFACE", <<dom, pc>>)
\* Only a VLAN interface without a VRF and without addresses.
UniqueIpAllowed(v) ==
  Field(db, "VLAN_INTERFACE", <<v>>, "vrf_name", "") = "" /\ AddressKeys(db, v) = {}
add_mclag_unique_ip(v) ==
  /\ Keys(db, "MCLAG_DOMAIN") # {} /\ UniqueIpAllowed(v)
  /\ db' = SetEntry(db, "MCLAG_UNIQUE_IP", v, [unique_ip |-> "enable"])
del_mclag_unique_ip(v) == UniqueIpAllowed(v) /\ db' = DelEntry(db, "MCLAG_UNIQUE_IP", v)

---------------------------------------------------------------------------
(* config nvgre-tunnel, nvgre-tunnel-map                                   *)
NVGRE_TUNNEL_add(t) == add_entry_validated("NVGRE_TUNNEL", t, [src_ip |-> "ip"])
NVGRE_TUNNEL_delete(t) == del_entry_validated("NVGRE_TUNNEL", t)
NVGRE_TUNNEL_MAP_add(t, m, vlan, vsid) ==
  add_entry_validated("NVGRE_TUNNEL_MAP", <<t, m>>, [vlan_id |-> vlan, vsid |-> vsid])
NVGRE_TUNNEL_MAP_delete(t, m) == del_entry_validated("NVGRE_TUNNEL_MAP", <<t, m>>)

---------------------------------------------------------------------------
(* config evpn-mh and the Ethernet segments of interfaces, which are       *)
(* given to the routing daemon first and then stored.                      *)
EVPN_MH_STARTUP_DELAY_MAX == 3600
EVPN_MH_MAC_HOLDTIME_MAX == 86400
EVPN_MH_NEIGH_HOLDTIME_MAX == 86400
EVPN_ES_DF_PREF_DEFAULT == 32767
EVPN_ES_DF_PREF_MAX == 65535

set_startup_delay(n) ==
  /\ n \in 0..EVPN_MH_STARTUP_DELAY_MAX
  /\ db' = ModEntry(db, "EVPN_MH_GLOBAL", "default", [startup_delay |-> n])
set_mac_holdtime(n) ==
  /\ n \in 0..EVPN_MH_MAC_HOLDTIME_MAX
  /\ db' = ModEntry(db, "EVPN_MH_GLOBAL", "default", [mac_holdtime |-> n])
set_neigh_holdtime(n) ==
  /\ n \in 0..EVPN_MH_NEIGH_HOLDTIME_MAX
  /\ db' = ModEntry(db, "EVPN_MH_GLOBAL", "default", [neigh_holdtime |-> n])

\* esi AUTO: derived from the system MAC; any other is the operator's.
check_if_same_manual_esi_exists(d, esi) ==
  /\ esi # "AUTO"
  /\ \E i \in Keys(d, "EVPN_ETHERNET_SEGMENT") : d["EVPN_ETHERNET_SEGMENT"][i].esi = esi
add_evpn_es(i, esi) ==
  /\ ~Has(db, "EVPN_ETHERNET_SEGMENT", i)
  /\ ~check_if_same_manual_esi_exists(db, esi)
  /\ db' = SetEntry(db, "EVPN_ETHERNET_SEGMENT", i, [esi |-> esi, df_pref |-> EVPN_ES_DF_PREF_DEFAULT])
del_evpn_es(i) ==
  Has(db, "EVPN_ETHERNET_SEGMENT", i) /\ db' = DelEntry(db, "EVPN_ETHERNET_SEGMENT", i)
evpn_df_pref(i, n) ==
  /\ Has(db, "EVPN_ETHERNET_SEGMENT", i) /\ n \in 1..EVPN_ES_DF_PREF_MAX
  /\ db' = ModEntry(db, "EVPN_ETHERNET_SEGMENT", i, [df_pref |-> n])

---------------------------------------------------------------------------
\* VLANs and VNIs are mapped one to one, on VLANs and a tunnel that exist,
\* by single commands and by ranges that skip what is taken; the VNI of a
\* VRF is one of the mapped ones, whichever of the two is removed first.
VniMapsConsistent ==
  /\ \A j, k \in Keys(db, "VXLAN_TUNNEL_MAP") : (j[2] = k[2] \/ j[3] = k[3]) => j = k
  /\ \A k \in Keys(db, "VXLAN_TUNNEL_MAP") :
       Has(db, "VXLAN_TUNNEL", k[1]) /\ Has(db, "VLAN", k[3])
  /\ \A v \in Keys(db, "VRF") : Field(db, "VRF", v, "vni", 0) # 0 =>
       \E k \in Keys(db, "VXLAN_TUNNEL_MAP") : k[2] = db["VRF"][v].vni

\* Keepalive interval and session timeout are set by separate commands, each
\* against the other's stored or default value.
MclagTimersValid ==
  \A k \in Keys(db, "MCLAG_DOMAIN") :
    mclag_ka_session_dep_check(KeepAlive(db, k), SessionTimeout(db, k))
===========================================================================
