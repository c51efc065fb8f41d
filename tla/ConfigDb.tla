----------------------------- MODULE ConfigDb -----------------------------
(* The configuration database of the switch as the commands of config/ see *)
(* it: named tables of entries, an entry being a record of fields.  The    *)
(* connector (swsscommon.ConfigDBConnector) is external; its operations    *)
(* are modelled by what the commands rely on.  A command checks its        *)
(* arguments against the tables and then writes; one that calls ctx.fail   *)
(* writes nothing, so that its action is disabled.  Keys made of several   *)
(* parts are sequences.                                                    *)
EXTENDS Integers, Sequences, FiniteSets, TLC

CONSTANTS
  Ports,        \* names in the table PORT
  PortChannels, \* names a port channel may have
  Vlans,        \* names of VLANs the commands are called with
  Parent        \* sub-interface -> its parent, a port or a port channel

ASSUME ParentAssumption == \A s \in DOMAIN Parent : Parent[s] \in Ports \cup PortChannels

VARIABLE db     \* table name -> key -> entry

---------------------------------------------------------------------------
NoEntries == [k \in {} |-> k]

Keys(d, t) == DOMAIN d[t]
Has(d, t, k) == k \in DOMAIN d[t]

\* A field of an entry, default when the entry or the field is missing.
Field(d, t, k, f, default) ==
  IF k \in DOMAIN d[t] THEN IF f \in DOMAIN d[t][k] THEN d[t][k][f] ELSE default
                       ELSE default

\* f with what g has besides; f with one entry set; a single entry.
Over(f, g) == [x \in DOMAIN f \cup DOMAIN g |-> IF x \in DOMAIN f THEN f[x] ELSE g[x]]
Put(f, k, e) == [x \in DOMAIN f \cup {k} |-> IF x = k THEN e ELSE f[x]]
One(k, e) == [x \in {k} |-> e]

\* set_entry replaces the entry, mod_entry the named fields only.
SetEntry(d, t, k, e) == [d EXCEPT ![t] = Put(@, k, e)]
ModEntry(d, t, k, e) ==
  [d EXCEPT ![t] = Put(@, k, IF k \in DOMAIN @ THEN Over(e, @[k]) ELSE e)]
DelEntries(d, t, K) == [d EXCEPT ![t] = [k \in DOMAIN @ \ K |-> @[k]]]
DelEntry(d, t, k) == DelEntries(d, t, {k})
DelTable(d, t) == [d EXCEPT ![t] = NoEntries]
SetAll(d, t, K, e) == [d EXCEPT ![t] = Over([k \in K |-> e], @)]
WithoutField(d, t, k, f) ==
  [d EXCEPT ![t][k] = [g \in DOMAIN @ \ {f} |-> @[g]]]

---------------------------------------------------------------------------
(* The questions utilities_common/cli.py asks of the tables.               *)
is_valid_port(d, p) == Has(d, "PORT", p)
is_valid_portchannel(d, p) == Has(d, "PORTCHANNEL", p)
MembersOf(d, t, p) == {k \in Keys(d, t) : k[2] = p}
interface_is_in_vlan(d, p) == MembersOf(d, "VLAN_MEMBER", p) # {}
interface_is_in_portchannel(d, p) == MembersOf(d, "PORTCHANNEL_MEMBER", p) # {}
interface_is_tagged_member(d, p) ==
  \E k \in MembersOf(d, "VLAN_MEMBER", p) : d["VLAN_MEMBER"][k].tagging_mode = "tagged"
interface_is_untagged_member(d, p) ==
  \E k \in MembersOf(d, "VLAN_MEMBER", p) : d["VLAN_MEMBER"][k].tagging_mode = "untagged"
is_port_router_interface(d, p) == Has(d, "INTERFACE", <<p>>)
is_pc_router_interface(d, p) == Has(d, "PORTCHANNEL_INTERFACE", <<p>>)
is_valid_vlan_interface(d, v) == Has(d, "VLAN_INTERFACE", <<v>>)
is_port_mirror_dst_port(d, p) ==
  \E s \in Keys(d, "MIRROR_SESSION") : Field(d, "MIRROR_SESSION", s, "dst_port", "") = p
is_vni_vrf_mapped(d, vni) ==
  \E v \in Keys(d, "VRF") : Field(d, "VRF", v, "vni", 0) = vni
===========================================================================
