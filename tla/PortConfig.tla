----------------------------- MODULE PortConfig -----------------------------
(* Parameters of ports: the commands of config interface that run the      *)
(* script portconfig, the ones that write PORT themselves, and             *)
(* config switch-fast-linkup.  portconfig refuses the name of a port       *)
(* channel for everything but the TPID.                                    *)
EXTENDS L2Config

CONSTANTS
  PortSpeeds, Fecs,      \* what STATE_DB says a port supports; {} says nothing
  Types, TpidCapable,    \* TpidCapable: subset of {"PORT", "LAG"}, or {"none"}: not ready
  FastLinkup             \* the ranges [polling_time, guard_time], or no fields

PortParameterTables == {"SWITCH_FAST_LINKUP"}

\* portconfig -p: the entry of a port that exists.
SetPort(p, f, value) == is_valid_port(db, p) /\ db' = ModEntry(db, "PORT", p, One(f, value))

speed(p, n) == (PortSpeeds # {} => n \in PortSpeeds) /\ SetPort(p, "speed", n)
fec(p, x) == x \in Fecs /\ SetPort(p, "fec", x)
link_training(p, mode) == SetPort(p, "link_training", mode)
autoneg(p, mode) == SetPort(p, "autoneg", mode)
\* speeds: a sequence as it is typed, << >> for "all".
advertised_speeds(p, speeds) ==
  /\ PortSpeeds # {} => /\ Cardinality({speeds[n] : n \in 1..Len(speeds)}) = Len(speeds)
                        /\ \A n \in 1..Len(speeds) : speeds[n] \in PortSpeeds
  /\ SetPort(p, "adv_speeds", speeds)
interface_type(p, x) == x \in Types /\ SetPort(p, "interface_type", x)
advertised_types(p, types) ==
  /\ Cardinality({types[n] : n \in 1..Len(types)}) = Len(types)
  /\ \A n \in 1..Len(types) : types[n] \in Types
  /\ SetPort(p, "adv_interface_types", types)

Mtus == 68..9216

\* Mutant: members of a port channel are not refused.
mtu_of_any(p, n) == n \in Mtus /\ SetPort(p, "mtu", n)

mtu(p, n) == n \in Mtus /\ ~interface_is_in_portchannel(db, p) /\ SetPort(p, "mtu", n)
frequency(p, n) == SetPort(p, "laser_freq", n)
tx_power(p, n) == SetPort(p, "tx_power", n)
dom(p, mode) == Field(db, "PORT", p, "subport", 0) \in {0, 1} /\ SetPort(p, "dom_polling", mode)

tpid(p, x) ==
  /\ TpidCapable # {"none"} /\ x \in {"0x8100", "0x9100", "0x9200", "0x88A8"}
  /\ IF p \in Ports THEN /\ is_valid_port(db, p) /\ ~interface_is_in_portchannel(db, p)
                         /\ "PORT" \in TpidCapable
                    ELSE is_valid_portchannel(db, p) /\ "LAG" \in TpidCapable
  /\ db' = ModEntry(db, PortTable(p), p, [tpid |-> x])

\* config interface startup and shutdown take several filters, each a name
\* or a range [range, names]; a range may have gaps but not be empty.
Existing(names) == {p \in names : is_valid_port(db, p) \/ is_valid_portchannel(db, p)}
FiltersValid(filters) ==
  \A f \in filters : IF f.range THEN Existing(f.names) # {} ELSE Existing(f.names) = f.names
get_interface_names_in_namespace(filters) == Existing(UNION {f.names : f \in filters})
SetAdminStatus(names, status) ==
  LET set(t) == [p \in DOMAIN t |-> IF p \in names THEN Put(t[p], "admin_status", status) ELSE t[p]]
  IN  db' = [db EXCEPT !["PORT"] = set(@), !["PORTCHANNEL"] = set(@)]
startup(filters) ==
  FiltersValid(filters) /\ SetAdminStatus(get_interface_names_in_namespace(filters), "up")
shutdown(filters) ==
  FiltersValid(filters) /\ SetAdminStatus(get_interface_names_in_namespace(filters), "down")

\* config interface sys-mac, of a port channel; a unicast address.
add_pc_sys_id_mac(pc, mac) ==
  is_valid_portchannel(db, pc) /\ db' = ModEntry(db, "PORTCHANNEL", pc, [system_mac |-> mac])
del_pc_sys_id_mac(pc, mac) ==
  /\ is_valid_portchannel(db, pc) /\ Field(db, "PORTCHANNEL", pc, "system_mac", "") = mac
  /\ db' = WithoutField(db, "PORTCHANNEL", pc, "system_mac")

\* data: the options given.
switch_fast_linkup_global_cmd(data) ==
  /\ FastLinkup # NoEntries /\ DOMAIN data # {}
  /\ \A f \in DOMAIN data : data[f] \in (IF f = "ber_threshold" THEN 1..255 ELSE FastLinkup[f])
  /\ db' = ModEntry(db, "SWITCH_FAST_LINKUP", "GLOBAL", data)
fast_linkup(p, mode) == FastLinkup # NoEntries /\ SetPort(p, "fast_linkup", mode = "enabled")

---------------------------------------------------------------------------
\* The ports of a port channel have its MTU and the TPID port channels use,
\* although both are parameters of the port that commands of their own set:
\* those refuse members, and joining refuses a port that differs.
MembersMatchPortchannel ==
  \A k \in Keys(db, "PORTCHANNEL_MEMBER") :
    /\ Field(db, "PORT", k[2], "mtu", DefaultMtu) = Field(db, "PORTCHANNEL", k[1], "mtu", DefaultMtu)
    /\ Field(db, "PORT", k[2], "tpid", "0x8100") = "0x8100"
===========================================================================
