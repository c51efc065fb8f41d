----------------------------- MODULE L3Config -----------------------------
(* Router interfaces: addresses, VRFs, loopbacks, sub-interfaces, IPv6     *)
(* link-local mode, MPLS, VRRP and static routes (groups of                *)
(* config/main.py).  A key <<name>> of an interface table is the interface *)
(* itself, <<name, address>> one of its addresses.  vrf bind waits until   *)
(* STATE_DB has forgotten the interface before it writes the new entry;    *)
(* the commands run one at a time and the wait ends, so that the action is *)
(* the whole command.                                                      *)
EXTENDS L2Config

CONSTANTS
  Loopbacks, Addresses, V6, \* V6: the addresses that are IPv6
  Vrfs, Vnets,
  SubVlan,                  \* sub-interface -> VLAN id its name ends with
  ShortNames,               \* the sub-interfaces with a short name (Eth0.10)
  VipsPerInstance, VrrpInstances, VrrpPerInterface, TracksPerInstance

SubInterfaces == DOMAIN Parent

\* The prefix of a name tells the kind of the interface; a limit is at least 1.
ASSUME InterfaceNames ==
  /\ Ports \cap PortChannels = {} /\ Ports \cap Vlans = {} /\ PortChannels \cap Vlans = {}
  /\ Loopbacks \cap (Ports \cup PortChannels \cup Vlans) = {}
  /\ SubInterfaces \cap (Ports \cup PortChannels \cup Vlans \cup Loopbacks) = {}
  /\ "" \notin Ports \cup PortChannels
ASSUME VipsAssumption == VipsPerInstance \in Nat \ {0} /\ "" \notin Addresses

InterfaceTables == {"INTERFACE", "PORTCHANNEL_INTERFACE", "VLAN_INTERFACE",
                    "LOOPBACK_INTERFACE", "VLAN_SUB_INTERFACE"}
L3Tables == InterfaceTables \cup
  {"MGMT_INTERFACE", "VRF", "VNET", "MGMT_VRF_CONFIG", "SYSLOG_SERVER", "DEVICE_METADATA",
   "STATIC_ROUTE", "VRRP", "VRRP6", "VRRP_TRACK", "VRRP6_TRACK"}

get_interface_table_name(i) ==
  CASE i \in Ports         -> "INTERFACE"
    [] i \in PortChannels  -> "PORTCHANNEL_INTERFACE"
    [] i \in Vlans         -> "VLAN_INTERFACE"
    [] i \in Loopbacks     -> "LOOPBACK_INTERFACE"
    [] i \in SubInterfaces -> "VLAN_SUB_INTERFACE"

IfHas(d, i) == Has(d, get_interface_table_name(i), <<i>>)
IfField(d, i, f, default) == Field(d, get_interface_table_name(i), <<i>>, f, default)
SetIf(d, i, e) == SetEntry(d, get_interface_table_name(i), <<i>>, e)
ModIf(d, i, e) == ModEntry(d, get_interface_table_name(i), <<i>>, e)
AddressKeys(d, i) ==
  {k \in Keys(d, get_interface_table_name(i)) : Len(k) = 2 /\ k[1] = i}
get_interface_ipaddresses(d, i) == {k[2] : k \in AddressKeys(d, i)}
RemoveAddresses(d, i) == DelEntries(d, get_interface_table_name(i), AddressKeys(d, i))

is_vrf_exists(d, v) ==
  \/ Has(d, "VRF", v)
  \/ v = "mgmt" /\ Field(d, "MGMT_VRF_CONFIG", "vrf_global", "mgmtVrfEnabled", FALSE)
is_vnet_exists(d, v) == Has(d, "VNET", v)
is_interface_bind_to_vrf(d, i) ==
  IfField(d, i, "vrf_name", "") # "" \/ IfField(d, i, "vnet_name", "") # ""

---------------------------------------------------------------------------
(* config interface ip                                                     *)
Base(i) == IF i \in SubInterfaces THEN Parent[i] ELSE i
Switched(d, i) == interface_is_in_vlan(d, i) \/ interface_is_in_portchannel(d, i)

\* A secondary address is one of a VLAN interface that has a primary one;
\* for any other interface --secondary writes no address.  The entry of the
\* interface is written before the secondary address is refused.
add_interface_ip(i, a, secondary) ==
  LET t == get_interface_table_name(i)
      d == IF IfHas(db, i) THEN db
           ELSE SetIf(db, i, IF i \in SubInterfaces THEN [admin_status |-> "up"] ELSE NoEntries)
      primary == \E k \in AddressKeys(d, i) : "secondary" \notin DOMAIN d[t][k]
  IN  /\ ~Switched(db, Base(i))
      /\ Base(i) \in Ports \cup PortChannels =>
           /\ is_valid_port(db, Base(i)) \/ is_valid_portchannel(db, Base(i))
           /\ PortMode(db, Base(i)) \notin {"trunk", "access"}
      /\ i \in Vlans => Has(db, "VLAN", i)
      /\ db' = IF ~secondary THEN SetEntry(d, t, <<i, a>>, NoEntries)
               ELSE IF i \in Vlans /\ primary THEN SetEntry(d, t, <<i, a>>, [secondary |-> TRUE])
               ELSE d

\* A new address of the management port replaces the one of its version.
SameVersion(a, b) == (a \in V6) = (b \in V6)
add_mgmt_ip(a, gw) ==
  LET old == {k \in Keys(db, "MGMT_INTERFACE") : SameVersion(a, k[2])}
  IN  db' = SetEntry(DelEntries(db, "MGMT_INTERFACE", old), "MGMT_INTERFACE", <<"eth0", a>>,
                     IF gw = "" THEN NoEntries ELSE [gwaddr |-> gw])
remove_mgmt_ip(a) == db' = DelEntry(db, "MGMT_INTERFACE", <<"eth0", a>>)

\* The routing daemon lists a static route with its interface.
StaticRouteOn(d, i) ==
  \E r \in Keys(d, "STATIC_ROUTE") : \E n \in 1..Len(d["STATIC_ROUTE"][r]) :
     d["STATIC_ROUTE"][r][n].ifname = i

get_intf_ipv6_link_local_mode(d, i) == IfField(d, i, "ipv6_use_link_local_only", "disable")

remove_interface_ip(i, a) ==
  LET t == get_interface_table_name(i)
      d == DelEntry(db, t, <<i, a>>)
  IN  /\ ~(get_interface_ipaddresses(db, i) = {a} /\ StaticRouteOn(db, i))
      /\ db' = IF /\ get_interface_ipaddresses(d, i) = {}
                  /\ ~is_interface_bind_to_vrf(d, i)
                  /\ get_intf_ipv6_link_local_mode(d, i) # "enable"
                  /\ i \notin SubInterfaces
               THEN DelEntry(d, t, <<i>>) ELSE d

loopback_action(i, action) == db' = ModIf(db, i, [loopback_action |-> action])

\* config interface mpls add and remove write the whole entry.
mpls(i, mode) == db' = SetIf(db, i, [mpls |-> mode])

\* config interface dhcp-mitigation-rate
add_dhcp_mitigation_rate(p, rate) ==
  /\ is_valid_port(db, p) /\ rate > 0
  /\ Field(db, "PORT", p, "dhcp_rate_limit", 0) = 0
  /\ db' = ModEntry(db, "PORT", p, [dhcp_rate_limit |-> rate])
del_dhcp_mitigation_rate(p, rate) ==
  /\ is_valid_port(db, p) /\ rate > 0
  /\ Field(db, "PORT", p, "dhcp_rate_limit", 0) = rate
  /\ db' = ModEntry(db, "PORT", p, [dhcp_rate_limit |-> 0])

---------------------------------------------------------------------------
(* config interface vrf, config vrf                                        *)
BindField(v) == IF v \in Vnets THEN "vnet_name" ELSE "vrf_name"

bind(i, v) ==
  LET old == IF i \in SubInterfaces /\ IfHas(db, i)
             THEN db[get_interface_table_name(i)][<<i>>] ELSE NoEntries
  IN  /\ IF v \in Vnets THEN is_vnet_exists(db, v) ELSE is_vrf_exists(db, v)
      /\ IfField(db, i, BindField(v), "") # v
      /\ db' = SetIf(RemoveAddresses(db, i), i, Put(old, BindField(v), v))

unbind(i) ==
  LET f == IF "vrf_name" \in DOMAIN db["VLAN_SUB_INTERFACE"][<<i>>] THEN "vrf_name" ELSE "vnet_name"
  IN  /\ is_interface_bind_to_vrf(db, i)
      /\ db' = IF i \in SubInterfaces
               THEN WithoutField(RemoveAddresses(db, i), "VLAN_SUB_INTERFACE", <<i>>, f)
               ELSE DelEntry(RemoveAddresses(db, i), get_interface_table_name(i), <<i>>)

add_vrf(v) ==
  /\ ~is_vrf_exists(db, v)
  /\ db' = IF v = "mgmt"
           THEN ModEntry(db, "MGMT_VRF_CONFIG", "vrf_global", [mgmtVrfEnabled |-> TRUE])
           ELSE SetEntry(db, "VRF", v, NoEntries)

\* Mutant: sub-interfaces are forgotten.
DelBoundMain(d, f, v) ==
  [t \in DOMAIN d |->
     IF t \notin InterfaceTables \ {"VLAN_SUB_INTERFACE"} THEN d[t]
     ELSE [k \in {q \in DOMAIN d[t] : ~\E b \in DOMAIN d[t] :
                     b[1] = q[1] /\ Field(d, t, b, f, "") = v} |-> d[t][k]]]

\* The interfaces bound to a VRF go with their addresses and other fields.
DelBound(d, f, v) ==
  [t \in DOMAIN d |->
     IF t \notin InterfaceTables THEN d[t]
     ELSE LET bound == {k \in DOMAIN d[t] : Field(d, t, k, f, "") = v}
              names == {k[1] : k \in bound}
          IN  [k \in {q \in DOMAIN d[t] : q[1] \notin names} |-> d[t][k]]]
del_interface_bind_to_vrf(d, v) == DelBound(d, "vrf_name", v)
del_interface_bind_to_vnet(d, v) == DelBound(d, "vnet_name", v)

del_vrf(v) ==
  /\ ~\E s \in Keys(db, "SYSLOG_SERVER") : Field(db, "SYSLOG_SERVER", s, "vrf", "") = v
  /\ ~InUseByRelay(db, "server_vrf", v)
  /\ is_vrf_exists(db, v)
  /\ db' = IF v = "mgmt"
           THEN ModEntry(db, "MGMT_VRF_CONFIG", "vrf_global", [mgmtVrfEnabled |-> FALSE])
           ELSE DelEntry(del_interface_bind_to_vrf(db, v), "VRF", v)

add_vrf_vni_map(v, vni) ==
  /\ Has(db, "VRF", v)
  /\ \E k \in Keys(db, "VXLAN_TUNNEL_MAP") : db["VXLAN_TUNNEL_MAP"][k].vni = vni
  /\ ~is_vni_vrf_mapped(db, vni)
  /\ db' = ModEntry(db, "VRF", v, [vni |-> vni])
del_vrf_vni_map(v) == Has(db, "VRF", v) /\ db' = ModEntry(db, "VRF", v, [vni |-> 0])

---------------------------------------------------------------------------
(* config loopback, config subinterface                                    *)
add_loopback(l) == ~IfHas(db, l) /\ db' = SetIf(db, l, NoEntries)
del_loopback(l) ==
  /\ IfHas(db, l) /\ ~InUseByRelay(db, "source_interface", l)
  /\ db' = DelEntry(RemoveAddresses(db, l), "LOOPBACK_INTERFACE", <<l>>)

\* A sub-interface without the field vlan has the VLAN id of its name.  The
\* check compares the long name of the parent with what precedes the dot of
\* the others' names, and so overlooks the ones with a short name.
EncapOf(d, s) == IfField(d, s, "vlan", SubVlan[s])
subintf_vlan_check(d, parent, vid) ==
  \E s \in SubInterfaces \ ShortNames : IfHas(d, s) /\ Parent[s] = parent /\ EncapOf(d, s) = vid

\* vid 0: no VLAN id is given, which nothing compares with the others'.
add_subinterface(s, vid) ==
  /\ is_valid_port(db, Parent[s]) \/ is_valid_portchannel(db, Parent[s])
  /\ ~Switched(db, Parent[s])
  /\ ~IfHas(db, s)
  /\ ~subintf_vlan_check(db, Parent[s], vid)
  /\ ~(vid = 0 /\ s \in ShortNames)
  /\ db' = SetIf(db, s, IF vid = 0 THEN [admin_status |-> "up"]
                        ELSE [vlan |-> vid, admin_status |-> "up"])
del_subinterface(s) ==
  /\ IfHas(db, s)
  /\ db' = DelEntry(RemoveAddresses(db, s), "VLAN_SUB_INTERFACE", <<s>>)

---------------------------------------------------------------------------
(* config interface ipv6 and config ipv6: use-link-local-only              *)
\* Mutant: an address does not keep the entry of the interface.
set_link_local_forgets_addresses(d, i, mode) ==
  IF IfField(d, i, "ipv6_use_link_local_only", "disable") = mode THEN d
  ELSE IF mode = "enable" \/ IfField(d, i, "vrf_name", "") # ""
       THEN ModIf(d, i, [ipv6_use_link_local_only |-> mode])
       ELSE DelEntry(d, get_interface_table_name(i), <<i>>)

\* A VRF or an address keeps the entry alive when the mode is disabled.
set_ipv6_link_local_only_on_interface(d, i, mode) ==
  LET curr_mode == IfField(d, i, "ipv6_use_link_local_only", "disable")
      inuse == IfField(d, i, "vrf_name", "") # "" \/ AddressKeys(d, i) # {}
  IN  IF curr_mode = mode THEN d
      ELSE IF mode = "enable" \/ inuse THEN ModIf(d, i, [ipv6_use_link_local_only |-> mode])
      ELSE DelEntry(d, get_interface_table_name(i), <<i>>)

use_link_local_only(i, mode) ==
  /\ i \in Vlans => is_valid_vlan_interface(db, i)
  /\ i \in PortChannels => is_valid_portchannel(db, i)
  /\ i \in Ports => is_valid_port(db, i)
  /\ ~Switched(db, i)
  /\ db' = set_ipv6_link_local_only_on_interface(db, i, mode)

\* Every VLAN, and every port and port channel that is not switched.
enable_link_local ==
  LET all == Keys(db, "VLAN") \cup
             {p \in Keys(db, "PORTCHANNEL") : ~interface_is_in_vlan(db, p)} \cup
             {p \in Keys(db, "PORT") : ~Switched(db, p)}
      new(t) == {<<i>> : i \in {j \in all : get_interface_table_name(j) = t}}
      on(t, k) == Over([ipv6_use_link_local_only |-> "enable"],
                       IF Has(db, t, k) THEN db[t][k] ELSE NoEntries)
  IN  db' = [t \in DOMAIN db |->
               IF t \notin InterfaceTables THEN db[t]
               ELSE Over([k \in new(t) |-> on(t, k)], db[t])]

\* Every router interface on which it is enabled.
LinkLocalOff(d, t) ==
  LET mine(k) == Field(d, t, k, "ipv6_use_link_local_only", "disable") = "enable"
      inuse(k) == Field(d, t, k, "vrf_name", "") # "" \/ AddressKeys(d, k[1]) # {}
  IN  [k \in {q \in DOMAIN d[t] : mine(q) => inuse(q)} |->
         IF mine(k) THEN [d[t][k] EXCEPT !.ipv6_use_link_local_only = "disable"] ELSE d[t][k]]
disable_link_local ==
  db' = [t \in DOMAIN db |->
           IF t \in {"INTERFACE", "VLAN_INTERFACE", "PORTCHANNEL_INTERFACE"}
           THEN LinkLocalOff(db, t) ELSE db[t]]

---------------------------------------------------------------------------
(* config interface vrrp and vrrp6: t is VRRP or VRRP6.  The connector     *)
(* stores an empty list as the list of one empty string, which counts.     *)
VrrpTrack(t) == IF t = "VRRP" THEN "VRRP_TRACK" ELSE "VRRP6_TRACK"
VrrpInterface(i) == i \notin Loopbacks /\ IfHas(db, i)
\* The family of the address, not the command, chooses the table that is
\* searched, and neither group of commands refuses the other's family.
check_vrrp_ip_exist(d, a) ==
  LET t == IF a \in V6 THEN "VRRP6" ELSE "VRRP"
  IN  \E k \in Keys(d, t) : a \in Field(d, t, k, "vip", {})

VrrpRoom(t, i, id) ==
  /\ Cardinality(Keys(db, t)) < VrrpInstances
  /\ \A k \in Keys(db, t) : k[2] # id
  /\ Cardinality({k \in Keys(db, t) : k[1] = i}) < VrrpPerInterface

add_vrrp_ip(t, i, id, a) ==
  /\ VrrpInterface(i)
  /\ ~check_vrrp_ip_exist(db, a)
  /\ IF Has(db, t, <<i, id>>)
     THEN Cardinality(Field(db, t, <<i, id>>, "vip", {})) < VipsPerInstance
     ELSE VrrpRoom(t, i, id)
  /\ db' = ModEntry(db, t, <<i, id>>,
             [vid |-> id, vip |-> Field(db, t, <<i, id>>, "vip", {}) \cup {a}])
remove_vrrp_ip(t, i, id, a) ==
  LET left == Field(db, t, <<i, id>>, "vip", {}) \ {a}
  IN  /\ VrrpInterface(i) /\ a \in Field(db, t, <<i, id>>, "vip", {})
      /\ db' = ModEntry(db, t, <<i, id>>, [vip |-> IF left = {} THEN {""} ELSE left])

add_track_interface(t, i, id, track, inc) ==
  /\ VrrpInterface(i) /\ VrrpInterface(track) /\ Has(db, t, <<i, id>>)
  /\ Cardinality({k \in Keys(db, VrrpTrack(t)) : k[1] = i /\ k[2] = id}) < TracksPerInstance
  /\ db' = ModEntry(db, VrrpTrack(t), <<i, id, track>>, [priority_increment |-> inc])
remove_track_interface(t, i, id, track) ==
  /\ VrrpInterface(i) /\ track \notin Loopbacks /\ Has(db, t, <<i, id>>)
  /\ Has(db, VrrpTrack(t), <<i, id, track>>)
  /\ db' = DelEntry(db, VrrpTrack(t), <<i, id, track>>)

SetVrrp(t, i, id, e) ==
  /\ VrrpInterface(i) /\ Has(db, t, <<i, id>>)
  /\ db' = ModEntry(db, t, <<i, id>>, e)
vrrp_priority(t, i, id, n) == SetVrrp(t, i, id, [priority |-> n])
adv_interval(t, i, id, n) == SetVrrp(t, i, id, [adv_interval |-> n])
pre_empt(t, i, id, mode) == SetVrrp(t, i, id, [preempt |-> mode])
vrrp_version(i, id, n) == SetVrrp("VRRP", i, id, [version |-> n])

add_vrrp(t, i, id) ==
  /\ VrrpInterface(i) /\ ~Has(db, t, <<i, id>>) /\ VrrpRoom(t, i, id)
  /\ db' = SetEntry(db, t, <<i, id>>, [vid |-> id])
remove_vrrp(t, i, id) ==
  /\ VrrpInterface(i) /\ Has(db, t, <<i, id>>)
  /\ db' = DelEntry(db, t, <<i, id>>)

\* config interface vrrp6: the same commands over the other tables.
add_vrrp6_ipv6(i, id, a) == add_vrrp_ip("VRRP6", i, id, a)
remove_vrrp_ipv6(i, id, a) == remove_vrrp_ip("VRRP6", i, id, a)
add_track_interface_v6(i, id, track, inc) == add_track_interface("VRRP6", i, id, track, inc)
remove_track_interface_v6(i, id, track) == remove_track_interface("VRRP6", i, id, track)
priority_v6(i, id, n) == vrrp_priority("VRRP6", i, id, n)
adv_interval_v6(i, id, n) == adv_interval("VRRP6", i, id, n)
pre_empt_v6(i, id, mode) == pre_empt("VRRP6", i, id, mode)
add_vrrp_v6(i, id) == add_vrrp("VRRP6", i, id)
remove_vrrp_v6(i, id) == remove_vrrp("VRRP6", i, id)

---------------------------------------------------------------------------
(* config route.  The parallel comma separated lists of an entry are one   *)
(* sequence of next hops.  A next hop given alone is compared with the     *)
(* ones of the entry; a list of them is compared as a whole with each and  *)
(* so never found.                                                         *)
RouteInterface(d, ifname) ==
  CASE ifname \in PortChannels -> Has(d, "PORTCHANNEL", ifname)
    [] ifname \in Vlans        -> is_valid_vlan_interface(d, ifname)
    [] ifname \in Ports \cup SubInterfaces -> IfHas(d, ifname)
    [] OTHER -> ifname \in {"", "null"}

\* hops: sequence of [nexthop, vrf, ifname]; vrf "" is the one of the prefix.
cli_sroute_to_config(d, vrf, hops) ==
  /\ vrf = "default" \/ is_vrf_exists(d, vrf)
  /\ \A n \in 1..Len(hops) : /\ hops[n].vrf = "" \/ is_vrf_exists(d, hops[n].vrf)
                             /\ RouteInterface(d, hops[n].ifname)
Hop(vrf, h, alone) ==
  [nexthop |-> h.nexthop, vrf |-> IF h.vrf = "" THEN vrf ELSE h.vrf, ifname |-> h.ifname,
   blackhole |-> alone /\ h.ifname = "null"]
SameHop(a, b) == a.nexthop = b.nexthop /\ a.vrf = b.vrf /\ a.ifname = b.ifname

add_route(vrf, prefix, hops) ==
  LET new == [n \in 1..Len(hops) |-> Hop(vrf, hops[n], Len(hops) = 1 \/ n > 1)]
      old == IF Has(db, "STATIC_ROUTE", <<vrf, prefix>>)
             THEN db["STATIC_ROUTE"][<<vrf, prefix>>] ELSE << >>
  IN  /\ cli_sroute_to_config(db, vrf, hops) /\ hops # << >>
      /\ ~(Len(new) = 1 /\ \E n \in 1..Len(old) : SameHop(old[n], new[1]))
      /\ db' = SetEntry(db, "STATIC_ROUTE", <<vrf, prefix>>, old \o new)

Without(s, n) == SubSeq(s, 1, n - 1) \o SubSeq(s, n + 1, Len(s))
del_route(vrf, prefix, hops) ==
  LET k == <<vrf, prefix>>
      old == db["STATIC_ROUTE"][k]
      hit == {n \in 1..Len(old) : SameHop(old[n], Hop(vrf, hops[1], TRUE))}
      left == Without(old, CHOOSE n \in hit : \A m \in hit : n <= m)
  IN  /\ cli_sroute_to_config(db, vrf, hops) /\ Len(hops) <= 1
      /\ Has(db, "STATIC_ROUTE", k)
      /\ hops # << >> => hit # {}
      /\ db' = IF hops = << >> \/ Len(left) = 0 THEN DelEntry(db, "STATIC_ROUTE", k)
               ELSE SetEntry(db, "STATIC_ROUTE", k, left)

---------------------------------------------------------------------------
\* A port or port channel with an address is in no VLAN and no port channel.
\* The commands on addresses look at the memberships, the ones on
\* memberships at the entry of the router interface: this holds because the
\* entry outlives every address, through vrf bind and unbind, the link-local
\* mode and the deletion of VRFs.  A VLAN with an address exists.
AddressedIsNotSwitched ==
  \A i \in Ports \cup PortChannels \cup Vlans :
    AddressKeys(db, i) # {} => /\ IfHas(db, i) /\ ~Switched(db, i)
                               /\ i \in Vlans => Has(db, "VLAN", i)

\* Deleting a VRF or a VNET takes the bindings of every kind of interface
\* with it: an interface is bound to one that exists, or to none.
BoundVrfExists ==
  \A t \in InterfaceTables : \A k \in Keys(db, t) :
    /\ Field(db, t, k, "vrf_name", "") \in Keys(db, "VRF") \cup {"", "mgmt"}
    /\ Field(db, t, k, "vnet_name", "") \in Keys(db, "VNET") \cup {""}

\* A virtual router id is used on one interface, a virtual address of the
\* table's own family by one instance, and an instance that has lost its last
\* address can have one again only within the limit (the empty string the
\* database keeps counts).
OwnFamily(t) == {a \in Addresses : a \in V6 <=> t = "VRRP6"}
VrrpUnique ==
  \A t \in {"VRRP", "VRRP6"} : \A j, k \in Keys(db, t) :
    /\ j[2] = k[2] => j = k
    /\ Field(db, t, j, "vip", {}) \cap Field(db, t, k, "vip", {}) \cap OwnFamily(t) = {} \/ j = k
    /\ Cardinality(Field(db, t, k, "vip", {})) <= VipsPerInstance
===========================================================================
