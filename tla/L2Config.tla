----------------------------- MODULE L2Config -----------------------------
(* VLANs, switch port modes, port channels, mirror sessions and storm      *)
(* control: config/vlan.py, config/switchport.py and the groups of         *)
(* config/main.py, on a switch with one ASIC and without YANG validation   *)
(* (the default; ADHOC_VALIDATION is on).  A command given a list of VLANs *)
(* (--multiple, all, --except_flag) runs the same body for one after the   *)
(* other up to the first failure, which is what the single command does    *)
(* when it is repeated.                                                    *)
EXTENDS StpConfig

CONSTANTS
  Sessions,    \* names of mirror sessions
  StormTypes, StormRates

L2Tables == {"PORT", "VLAN", "VLAN_MEMBER", "VLAN_INTERFACE", "VXLAN_TUNNEL_MAP",
             "DHCP_RELAY", "DHCPV4_RELAY", "PORTCHANNEL", "PORTCHANNEL_MEMBER",
             "INTERFACE", "PORTCHANNEL_INTERFACE", "VLAN_SUB_INTERFACE",
             "MIRROR_SESSION", "ACL_TABLE", "PBH_TABLE", "PORT_STORM_CONTROL", "SAG"}

---------------------------------------------------------------------------
(* config vlan                                                             *)
add_vlan(v) ==
  /\ ~Has(db, "VLAN", v) /\ ~Has(db, "DHCP_RELAY", v)
  /\ db' = SetEntry(vlan_enable_stp(db, v), "VLAN", v, [vlanid |-> v])

enable_stp_on_port(d, p) ==
  IF get_vlan_list_for_interface(d, p) = {} THEN interface_enable_stp(d, p) ELSE d

\* Mutant: the parameters of the port go only with its last membership.
disable_stp_on_last_vlan_port(d, v, p) ==
  IF is_global_stp_enabled(d) /\ get_vlan_list_for_interface(d, p) = {}
  THEN DelEntry(DelEntry(d, "STP_VLAN_PORT", <<v, p>>), "STP_PORT", p) ELSE d

\* The list of VLANs is read while the membership is still there, so that
\* it is never empty and STP_PORT is never deleted.
disable_stp_on_vlan_port(d, v, p) ==
  IF ~is_global_stp_enabled(d) THEN d
  ELSE LET e == DelEntry(d, "STP_VLAN_PORT", <<v, p>>)
       IN  IF get_vlan_list_for_interface(e, p) = {} THEN DelEntry(e, "STP_PORT", p) ELSE e

disable_stp_on_vlan(d, v) ==
  DelEntries(DelEntry(d, "STP_VLAN", v), "STP_VLAN_PORT",
             {k \in Keys(d, "STP_VLAN_PORT") : k[1] = v})

is_dhcpv6_relay_config_exist(d, v) == Field(d, "DHCP_RELAY", v, "dhcpv6_servers", {}) # {}

del_vlan(v, no_restart_dhcp_relay) ==
  LET d == DelEntry(db, "VLAN", v)
      e == IF is_dhcpv6_relay_config_exist(d, v) THEN DelEntry(d, "DHCP_RELAY", v) ELSE d
  IN  /\ no_restart_dhcp_relay => ~is_dhcpv6_relay_config_exist(db, v)
      /\ Has(db, "VLAN", v)
      /\ ~\E k \in Keys(db, "VLAN_INTERFACE") : k[1] = v
      /\ ~\E k \in Keys(db, "VLAN_MEMBER") : k[1] = v
      /\ ~\E k \in Keys(db, "VXLAN_TUNNEL_MAP") : db["VXLAN_TUNNEL_MAP"][k].vlan = v
      /\ ~Has(db, "DHCPV4_RELAY", v)
      /\ db' = disable_stp_on_vlan(e, v)

config_proxy_arp(v, mode) ==
  /\ is_valid_vlan_interface(db, v)
  /\ db' = ModEntry(db, "VLAN_INTERFACE", <<v>>, [proxy_arp |-> mode])

PortTable(p) == IF p \in Ports THEN "PORT" ELSE "PORTCHANNEL"
PortMode(d, p) == Field(d, PortTable(p), p, "mode", "none")
IsRouterInterface(d, p) ==
  IF p \in Ports THEN is_port_router_interface(d, p) ELSE is_pc_router_interface(d, p)

add_vlan_member(v, p, untagged) ==
  /\ Has(db, "VLAN", v)
  /\ ~is_port_mirror_dst_port(db, p)
  /\ ~Has(db, "VLAN_MEMBER", <<v, p>>)
  /\ is_valid_port(db, p) \/ is_valid_portchannel(db, p)
  /\ ~IsRouterInterface(db, p)
  /\ p \in Ports => ~interface_is_in_portchannel(db, p)
  /\ ~(untagged /\ interface_is_untagged_member(db, p))
  /\ PortMode(db, p) # "routed"
  /\ ~(PortMode(db, p) = "access" /\ ~untagged)
  /\ db' = SetEntry(enable_stp_on_port(db, p), "VLAN_MEMBER", <<v, p>>,
                    [tagging_mode |-> IF untagged THEN "untagged" ELSE "tagged"])

del_vlan_member(v, p) ==
  /\ Has(db, "VLAN", v) /\ Has(db, "VLAN_MEMBER", <<v, p>>)
  /\ db' = DelEntry(disable_stp_on_vlan_port(db, v, p), "VLAN_MEMBER", <<v, p>>)

SagEnabled(d, v) == Field(d, "VLAN_INTERFACE", <<v>>, "static_anycast_gateway", FALSE)
enable_vlan_sag(v) ==
  /\ is_valid_vlan_interface(db, v) /\ ~SagEnabled(db, v)
  /\ Field(db, "SAG", "GLOBAL", "gateway_mac", "") # ""
  /\ db' = ModEntry(db, "VLAN_INTERFACE", <<v>>, [static_anycast_gateway |-> TRUE])
disable_vlan_sag(v) ==
  /\ is_valid_vlan_interface(db, v) /\ SagEnabled(db, v)
  /\ db' = ModEntry(db, "VLAN_INTERFACE", <<v>>, [static_anycast_gateway |-> FALSE])

\* config static-anycast-gateway mac_address
add_mac(mac) ==
  /\ ~Has(db, "SAG", "GLOBAL")
  /\ db' = SetEntry(db, "SAG", "GLOBAL", [gateway_mac |-> mac])
del_mac ==
  /\ Field(db, "SAG", "GLOBAL", "gateway_mac", "") # ""
  /\ ~\E k \in Keys(db, "VLAN_INTERFACE") :
        Field(db, "VLAN_INTERFACE", k, "static_anycast_gateway", FALSE)
  /\ db' = DelEntry(db, "SAG", "GLOBAL")

---------------------------------------------------------------------------
(* config switchport mode.  A port without a mode takes any mode its       *)
(* router interface allows, whatever its VLAN memberships are; the routed  *)
(* mode asks for no membership at all.                                     *)
switchport_mode(type, p) ==
  /\ ~is_port_mirror_dst_port(db, p)
  /\ is_valid_port(db, p) \/ is_valid_portchannel(db, p)
  /\ p \in Ports => ~interface_is_in_portchannel(db, p)
  /\ PortMode(db, p) # type
  /\ IF type = "routed"
     THEN ~interface_is_in_vlan(db, p)
     ELSE /\ ~IsRouterInterface(db, p)
          /\ ~(type = "access" /\ PortMode(db, p) = "trunk" /\ interface_is_tagged_member(db, p))
  /\ db' = ModEntry(db, PortTable(p), p, [mode |-> type])

---------------------------------------------------------------------------
(* config portchannel                                                      *)
DefaultMtu == 9100
add_portchannel(pc, min_links, fallback, fast_rate) ==
  /\ ~is_valid_portchannel(db, pc)
  /\ db' = SetEntry(db, "PORTCHANNEL", pc,
             [admin_status |-> "up", mtu |-> DefaultMtu, lacp_key |-> "auto",
              fast_rate |-> fast_rate, min_links |-> min_links, fallback |-> fallback])

\* check_dhcpv4_relay_dependencies, when the feature flag is set.
InUseByRelay(d, f, name) ==
  /\ Field(d, "DEVICE_METADATA", "localhost", "has_sonic_dhcpv4_relay", FALSE)
  /\ \E v \in Keys(d, "DHCPV4_RELAY") : Field(d, "DHCPV4_RELAY", v, f, "") = name

\* Mutant: VLAN memberships are not looked at.
remove_switched_portchannel(pc) ==
  /\ is_valid_portchannel(db, pc)
  /\ ~\E k \in Keys(db, "PORTCHANNEL_MEMBER") : k[1] = pc
  /\ ~InUseByRelay(db, "source_interface", pc)
  /\ db' = DelEntry(db, "PORTCHANNEL", pc)

remove_portchannel(pc) ==
  /\ is_valid_portchannel(db, pc)
  /\ ~interface_is_in_vlan(db, pc)
  /\ ~\E k \in Keys(db, "PORTCHANNEL_MEMBER") : k[1] = pc
  /\ ~InUseByRelay(db, "source_interface", pc)
  /\ db' = DelEntry(db, "PORTCHANNEL", pc)

\* Tables of ACLs or of policy based hashing that name the port.
BoundTables(d, t, f, p) == {a \in Keys(d, t) : p \in Field(d, t, a, f, {})}

add_portchannel_member(pc, p) ==
  /\ ~is_port_mirror_dst_port(db, p)
  /\ is_valid_port(db, p) /\ is_valid_portchannel(db, pc)
  /\ ~is_port_router_interface(db, p)
  /\ ~\E k \in Keys(db, "VLAN_SUB_INTERFACE") : Len(k) = 1 /\ Parent[k[1]] = p
  /\ ~interface_is_in_vlan(db, p)
  /\ ~interface_is_in_portchannel(db, p)
  /\ \A k \in Keys(db, "PORTCHANNEL_MEMBER") :
       k[1] = pc => Field(db, "PORT", k[2], "speed", 0) = Field(db, "PORT", p, "speed", 0)
  /\ {"mtu"} \subseteq DOMAIN db["PORTCHANNEL"][pc] \cap DOMAIN db["PORT"][p]
       => db["PORTCHANNEL"][pc].mtu = db["PORT"][p].mtu
  /\ Field(db, "PORT", p, "tpid", "0x8100") = "0x8100"
  /\ BoundTables(db, "ACL_TABLE", "ports", p) = {}
  /\ BoundTables(db, "PBH_TABLE", "interface_list", p) = {}
  /\ db' = SetEntry(db, "PORTCHANNEL_MEMBER", <<pc, p>>, NoEntries)

del_portchannel_member(pc, p) ==
  /\ is_valid_port(db, p) /\ is_valid_portchannel(db, pc)
  /\ Has(db, "PORTCHANNEL_MEMBER", <<pc, p>>)
  /\ db' = DelEntry(db, "PORTCHANNEL_MEMBER", <<pc, p>>)

---------------------------------------------------------------------------
(* config mirror_session.  A session entry has the set of its source ports *)
(* and their direction only when there are any.                            *)
check_mirror_direction_config(d, s, direction) ==
  direction = "BOTH" \/ Field(d, "MIRROR_SESSION", s, "direction", "") \in {"BOTH", direction}

interface_has_mirror_config(d, dst, src, direction) ==
  \E s \in Keys(d, "MIRROR_SESSION") :
    LET dst_port == Field(d, "MIRROR_SESSION", s, "dst_port", "")
        src_port == Field(d, "MIRROR_SESSION", s, "src_port", {})
    IN  \/ dst_port \in src
        \/ src \cap src_port # {} /\ check_mirror_direction_config(d, s, direction)
        \/ dst # "" /\ (dst_port = dst \/ dst \in src_port)

\* Mutant: the destination may be a member of a port channel.
validate_mirror_session_member(d, s, dst, src, direction) ==
  /\ ~Has(d, "MIRROR_SESSION", s)
  /\ dst # "" => is_valid_port(d, dst) /\ ~interface_is_in_vlan(d, dst)
                   /\ ~is_port_router_interface(d, dst)
  /\ \A p \in src : is_valid_port(d, p) \/ is_valid_portchannel(d, p)
  /\ dst \notin src
  /\ ~interface_has_mirror_config(d, dst, src, direction)

\* dst is "" for ERSPAN; without a direction the check takes every overlap.
validate_mirror_session_config(d, s, dst, src, direction) ==
  /\ ~Has(d, "MIRROR_SESSION", s)
  /\ dst # "" => /\ is_valid_port(d, dst)
                 /\ ~interface_is_in_vlan(d, dst)
                 /\ ~interface_is_in_portchannel(d, dst)
                 /\ ~is_port_router_interface(d, dst)
  /\ \A p \in src : is_valid_port(d, p) \/ is_valid_portchannel(d, p)
  /\ dst \notin src
  /\ ~interface_has_mirror_config(d, dst, src, direction)

gather_session_info(src, direction) ==
  IF src = {} THEN NoEntries ELSE [src_port |-> src, direction |-> direction]

add_erspan(s, src, direction) ==
  /\ validate_mirror_session_config(db, s, "", src, direction)
  /\ db' = SetEntry(db, "MIRROR_SESSION", s,
                    Over([type |-> "ERSPAN"], gather_session_info(src, direction)))
add_span(s, dst, src, direction) ==
  /\ validate_mirror_session_config(db, s, dst, src, direction)
  /\ db' = SetEntry(db, "MIRROR_SESSION", s,
                    Over([type |-> "SPAN", dst_port |-> dst], gather_session_info(src, direction)))
remove_mirror_session(s) == db' = DelEntry(db, "MIRROR_SESSION", s)

---------------------------------------------------------------------------
(* config interface storm-control, when the switch supports the type.      *)
storm_control_set_entry(p, type, kbps) ==
  /\ is_valid_port(db, p)
  /\ db' = IF Field(db, "PORT_STORM_CONTROL", <<p, type>>, "kbps", -1) = kbps THEN db
           ELSE ModEntry(db, "PORT_STORM_CONTROL", <<p, type>>, [kbps |-> kbps])
storm_control_delete_entry(p, type) ==
  /\ is_valid_port(db, p) /\ Has(db, "PORT_STORM_CONTROL", <<p, type>>)
  /\ db' = DelEntry(db, "PORT_STORM_CONTROL", <<p, type>>)

---------------------------------------------------------------------------
\* Deleting a VLAN or a port channel is refused while something is in it,
\* so that no membership is left pointing at what is gone.
MembersExist ==
  /\ \A k \in Keys(db, "VLAN_MEMBER") :
       Has(db, "VLAN", k[1]) /\ (is_valid_port(db, k[2]) \/ is_valid_portchannel(db, k[2]))
  /\ \A k \in Keys(db, "PORTCHANNEL_MEMBER") :
       is_valid_portchannel(db, k[1]) /\ is_valid_port(db, k[2])

\* The mirror command refuses a destination that switches traffic, and the
\* VLAN and port channel commands refuse a destination: whatever the order,
\* a port is not both.  A port is a member of one port channel at most, and
\* not of a VLAN then; it has at most one VLAN for untagged frames.
OneRolePerPort ==
  \A p \in Keys(db, "PORT") :
    /\ is_port_mirror_dst_port(db, p) =>
         ~interface_is_in_vlan(db, p) /\ ~interface_is_in_portchannel(db, p)
    /\ interface_is_in_portchannel(db, p) => ~interface_is_in_vlan(db, p)
    /\ Cardinality(MembersOf(db, "PORTCHANNEL_MEMBER", p)) <= 1
    /\ Cardinality({k \in MembersOf(db, "VLAN_MEMBER", p) :
                      db["VLAN_MEMBER"][k].tagging_mode = "untagged"}) <= 1
===========================================================================
