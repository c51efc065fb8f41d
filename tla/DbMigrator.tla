---------------------------- MODULE DbMigrator ----------------------------
(* scripts/db_migrator.py: after an image upgrade the databases are moved  *)
(* from version to version up to CURRENT_VERSION, and the common           *)
(* operations run on every call.  A migration reads its tables and issues  *)
(* writes one after the other; the script may stop between any two of them *)
(* (an exception of the database connection, a power cycle) and is started *)
(* again at the next boot or reload, from the version it recorded last.    *)
(*                                                                         *)
(* One function db holds all databases: tables of CONFIG_DB by their name, *)
(* tables of APPL_DB by theirs (they end in _TABLE), tables of STATE_DB,   *)
(* and LOGLEVEL_DB as one table.  Keys of INTERFACE tables, BUFFER_PG and  *)
(* BUFFER_QUEUE are sequences.  A field that refers to other entries is a  *)
(* record: its form ("config" for [T|x], "app" for [T_TABLE:x], "plain",   *)
(* "null") and the names.  The fields of one entry are written in one      *)
(* write unless a later run looks at them separately.                      *)
EXTENDS ConfigDb

LOCAL INSTANCE SequencesExt

CONSTANTS
  InitCfg,     \* tables of /etc/sonic/init_cfg.json
  PoolDefaults,     \* version -> flavor -> the default BUFFER_POOL table
  PoolMapping,      \* version -> flavor of the previous version -> flavor
  HeadroomDefaults, \* version -> set name -> default lossless profiles
  HeadroomMapping,  \* version -> set name of the previous version -> set name
  ProfileDefaults,  \* version -> flavor -> default profiles that are not lossless
  LosslessProfile,  \* name of a lossless profile -> [speed, length]
  MaxStops          \* how often the script is interrupted

VARIABLES
  host,      \* the switch: [asic, s6100, traditional, src], src the tables of
             \* the minigraph overridden by the golden config
  at,        \* the version being handled, or "idle", "common", "failed"
  step,      \* the next migration of that version
  todo,      \* the writes the current migration still has to issue
  mem,       \* what the buffer migrator of Mellanox keeps between calls
  stops,     \* interruptions so far
  trial      \* a run of the script without interruption, on a copy
migratorVars == <<host, at, step, todo, mem, stops, trial>>

CURRENT_VERSION == "version_202605_01"

---------------------------------------------------------------------------
(* Writes.                                                                 *)
Set(t, k, e) == [op |-> "set", t |-> t, k |-> k, e |-> e]
Mod(t, k, e) == [op |-> "mod", t |-> t, k |-> k, e |-> e]
Del(t, k) == [op |-> "del", t |-> t, k |-> k]
Sets(t, f) == LET ks == SetToSeq(DOMAIN f) IN [i \in DOMAIN ks |-> Set(t, ks[i], f[ks[i]])]
Mods(t, f) == LET ks == SetToSeq(DOMAIN f) IN [i \in DOMAIN ks |-> Mod(t, ks[i], f[ks[i]])]
Dels(t, K) == LET ks == SetToSeq(K) IN [i \in DOMAIN ks |-> Del(t, ks[i])]
Apply(d, w) ==
  CASE w.op = "set" -> SetEntry(d, w.t, w.k, w.e)
    [] w.op = "mod" -> ModEntry(d, w.t, w.k, w.e)
    [] w.op = "del" -> DelEntry(d, w.t, w.k)
ApplyAll(d, ws) == FoldLeft(Apply, d, ws)

EntriesWith(d, t, f) == {k \in Keys(d, t) : f \in DOMAIN d[t][k]}
Without(e, F) == [f \in DOMAIN e \ F |-> e[f]]
\* "not get_entry(...)": a missing entry reads like an empty one.
Missing(d, t, k) == IF Has(d, t, k) THEN d[t][k] = NoEntries ELSE TRUE
EntryOf(d, t, k) == IF Has(d, t, k) THEN d[t][k] ELSE NoEntries
FromSrc(d, t, k) ==
  IF t \in DOMAIN host.src
  THEN IF k \in DOMAIN host.src[t] /\ Missing(d, t, k)
       THEN <<Set(t, k, host.src[t][k])>> ELSE <<>>
  ELSE <<>>
WarmReboot(d) == Field(d, "WARM_RESTART_ENABLE_TABLE", "system", "enable", "false") = "true"
FastReboot(d) == Has(d, "FAST_REBOOT", "system")

---------------------------------------------------------------------------
(* The migrations, each the writes it issues on the databases d.           *)
migrate_pfc_wd_table(d) ==
  Sets("PFC_WD", d["PFC_WD_TABLE"]) \o Dels("PFC_WD_TABLE", Keys(d, "PFC_WD_TABLE"))

IfTables == {"INTERFACE", "PORTCHANNEL_INTERFACE", "VLAN_INTERFACE", "LOOPBACK_INTERFACE"}
is_ip_prefix_in_key(k) == Len(k) = 2
migrate_interface_table(d) ==
  LET plain == {k[1] : k \in {k \in UNION {Keys(d, t) : t \in IfTables} :
                                ~is_ip_prefix_in_key(k)}}
      New(t) == {k[1] : k \in {k \in Keys(d, t) : is_ip_prefix_in_key(k)}} \ plain
      PlainEntries(t) ==
        [k \in {<<n>> : n \in New(t)} |->
           d[t][CHOOSE q \in Keys(d, t) : is_ip_prefix_in_key(q) /\ q[1] = k[1]]]
  IN  FlattenSeq([i \in 1..4 |-> LET t == SetToSeq(IfTables)[i] IN Sets(t, PlainEntries(t))])

\* A legacy row lo:<address> becomes <loopback>:<address>: it is deleted
\* first and added under the new name next.
LoopbackOf(d, addr) ==
  LET L == {k[1] : k \in {k \in Keys(d, "LOOPBACK_INTERFACE") : Len(k) = 2 /\ k[2] = addr}}
  IN  IF L = {} THEN "Loopback0" ELSE CHOOSE n \in L : TRUE
migrate_intf_table(d) ==
  LET rows == Keys(d, "INTF_TABLE")
      los == SetToSeq({k \in rows : k[1] = "lo"})
      renamed == [i \in DOMAIN los |-> <<LoopbackOf(d, los[i][2]), los[i][2]>>]
      plain == {k[1] : k \in {k \in rows : Len(k) = 1}}
      now == {k[1] : k \in {k \in rows : k[1] # "lo"} \cup Range(renamed)}
  IN  FlattenSeq([i \in DOMAIN los |-> <<Del("INTF_TABLE", los[i]),
                                         Mod("INTF_TABLE", renamed[i], NoEntries)>>])
      \o Mods("INTF_TABLE", [k \in {<<n>> : n \in now \ plain} |-> NoEntries])

migrate_copp_table(d) == Dels("COPP_TABLE", Keys(d, "COPP_TABLE"))

Renamed(e, old, new) == (new :> e[old]) @@ Without(e, {old})
migrate_feature_table(d) ==
  LET old == EntriesWith(d, "FEATURE", "status")
      both == SetToSeq(Keys(d, "CONTAINER_FEATURE"))
  IN  Sets("FEATURE", [k \in old |-> Renamed(d["FEATURE"][k], "status", "state")])
      \o FlattenSeq([i \in DOMAIN both |->
           <<Mod("FEATURE", both[i], d["CONTAINER_FEATURE"][both[i]]),
             Del("CONTAINER_FEATURE", both[i])>>])
migrate_feature_timer(d) ==
  Sets("FEATURE", [k \in EntriesWith(d, "FEATURE", "has_timer") |->
                     Renamed(d["FEATURE"][k], "has_timer", "delayed")])

\* autoneg 1 becomes on, with the speed advertised; two writes, of which
\* the first hides from a later run that the second is still due.
migrate_config_db_port_table_for_auto_neg(d) ==
  LET on == SetToSeq({p \in Keys(d, "PORT") : Field(d, "PORT", p, "autoneg", "") = "1"})
      off == {p \in Keys(d, "PORT") : Field(d, "PORT", p, "autoneg", "") = "0"}
      Adv(p) == "speed" \in DOMAIN d["PORT"][p] /\ "adv_speeds" \notin DOMAIN d["PORT"][p]
  IN  FlattenSeq([i \in DOMAIN on |->
        <<Mod("PORT", on[i], [autoneg |-> "on"])>> \o
        (IF Adv(on[i]) THEN <<Mod("PORT", on[i], [adv_speeds |-> d["PORT"][on[i]].speed])>>
                       ELSE <<>>)])
      \o Mods("PORT", [p \in off |-> [autoneg |-> "off"]])
migrate_config_db_port_table_for_dhcp_rate_limit(d) ==
  Mods("PORT", [p \in Keys(d, "PORT") |->
                  [dhcp_rate_limit |-> Field(d, "PORT", p, "dhcp_rate_limit", "300")]])

\* References in the format of the table lose their brackets.
Plain(r) == [form |-> "plain", names |-> r.names]
migrate_qos_db_fieldval_reference_remove(d, fields, form) ==
  LET ts == SetToSeq(DOMAIN fields)
      Old(t, k) == {f \in fields[t] \cap DOMAIN d[t][k] : d[t][k][f].form = form}
      In(t) == Mods(t, [k \in {k \in Keys(d, t) : Old(t, k) # {}} |->
                          [f \in Old(t, k) |-> Plain(d[t][k][f])]])
  IN  FlattenSeq([i \in DOMAIN ts |-> In(ts[i])])
BufferRefs == [BUFFER_PG |-> {"profile"}, BUFFER_QUEUE |-> {"profile"},
               BUFFER_PROFILE |-> {"pool"}, BUFFER_PORT_INGRESS_PROFILE_LIST |-> {"profile_list"},
               BUFFER_PORT_EGRESS_PROFILE_LIST |-> {"profile_list"}]
App == [BUFFER_POOL |-> "BUFFER_POOL_TABLE", BUFFER_PG |-> "BUFFER_PG_TABLE",
        BUFFER_QUEUE |-> "BUFFER_QUEUE_TABLE", BUFFER_PROFILE |-> "BUFFER_PROFILE_TABLE",
        BUFFER_PORT_INGRESS_PROFILE_LIST |-> "BUFFER_PORT_INGRESS_PROFILE_LIST_TABLE",
        BUFFER_PORT_EGRESS_PROFILE_LIST |-> "BUFFER_PORT_EGRESS_PROFILE_LIST_TABLE"]
AppRefs == [a \in {App[t] : t \in DOMAIN BufferRefs} |->
              BufferRefs[CHOOSE t \in DOMAIN BufferRefs : App[t] = a]]
QosRefs == [QUEUE |-> {"scheduler", "wred_profile"},
            PORT_QOS_MAP |-> {"dscp_to_tc_map", "dot1p_to_tc_map", "pfc_to_queue_map",
                              "tc_to_pg_map", "tc_to_queue_map", "pfc_to_pg_map"}]
\* A bug: the references of CONFIG_DB are looked for in the format of APPL_DB.
migrate_qos_fieldval_app_format(d) ==
  migrate_qos_db_fieldval_reference_remove(d, AppRefs, "app")
  \o migrate_qos_db_fieldval_reference_remove(d, QosRefs @@ BufferRefs, "app")

migrate_qos_fieldval_reference_format(d) ==
  migrate_qos_db_fieldval_reference_remove(d, AppRefs, "app")
  \o migrate_qos_db_fieldval_reference_remove(d, QosRefs @@ BufferRefs, "config")

\* On the first warm start with a buffer manager that reads APPL_DB the
\* buffer tables are copied there, as they were before this migration.
\* (A reference that is plain already would be copied as x_TABLE.)
ToApp(r) == [r EXCEPT !.form = IF @ = "config" THEN "app" ELSE "mangled"]
prepare_dynamic_buffer_for_warm_reboot(d, old) ==
  LET ts == SetToSeq(DOMAIN App)
      Of(t) == IF t \in DOMAIN old THEN IF old[t] = NoEntries THEN d[t] ELSE old[t] ELSE d[t]
      Ref(t) == IF t = "BUFFER_POOL" THEN {} ELSE BufferRefs[t]
      Copied(t) == {k \in DOMAIN Of(t) :
                      \A f \in Ref(t) : f \in DOMAIN Of(t)[k] /\ Of(t)[k][f].form # "null"}
      Copy(t) == Mods(App[t], [k \in Copied(t) |->
                   [f \in DOMAIN Of(t)[k] |-> IF f \in Ref(t) THEN ToApp(Of(t)[k][f])
                                                              ELSE Of(t)[k][f]]])
  IN  IF WarmReboot(d) /\ Missing(d, "BUFFER_MAX_PARAM_TABLE", "global")
      THEN FlattenSeq([i \in DOMAIN ts |-> Copy(ts[i])]) ELSE <<>>

\* Fields of the tunnel tables that APPL_DB lacks.
VxlanApp == [VXLAN_TUNNEL |-> "VXLAN_TUNNEL_TABLE", VXLAN_TUNNEL_MAP |-> "VXLAN_TUNNEL_MAP_TABLE"]
migrate_vxlan_config(d) ==
  LET Copy(t) == Mods(VxlanApp[t], [k \in Keys(d, t) |->
                   Without(d[t][k], DOMAIN EntryOf(d, VxlanApp[t], k))])
  IN  Copy("VXLAN_TUNNEL") \o Copy("VXLAN_TUNNEL_MAP")

migrate_restapi(d) == FromSrc(d, "RESTAPI", "config") \o FromSrc(d, "RESTAPI", "certs")
migrate_telemetry(d) == FromSrc(d, "TELEMETRY", "gnmi") \o FromSrc(d, "TELEMETRY", "certs")
migrate_console_switch(d) == FromSrc(d, "CONSOLE_SWITCH", "console_mgmt")
migrate_tacplus(d) == FromSrc(d, "TACPLUS", "global")

\* Both entries are taken from one place as soon as one is missing.
migrate_gnmi(d) ==
  LET K == {"gnmi", "certs"}
      Copy(e) == Sets("GNMI", [k \in K \cap DOMAIN e |-> e[k]])
  IN  IF \A k \in K : ~Missing(d, "GNMI", k) THEN <<>>
      ELSE IF DOMAIN host.src = {}
      THEN Copy([k \in {k \in K : ~Missing(d, "TELEMETRY", k)} |-> d["TELEMETRY"][k]])
      ELSE IF "GNMI" \in DOMAIN host.src THEN Copy(host.src["GNMI"]) ELSE <<>>

SrcMetadata(f) ==
  IF f \in DOMAIN host.src["DEVICE_METADATA"]["localhost"]
  THEN host.src["DEVICE_METADATA"]["localhost"][f] ELSE "None"
SetMetadata(d, f, v) ==
  <<Set("DEVICE_METADATA", "localhost", (f :> v) @@ EntryOf(d, "DEVICE_METADATA", "localhost"))>>
migrate_device_metadata(d) ==
  IF "DEVICE_METADATA" \in DOMAIN host.src
  THEN IF "synchronous_mode" \notin DOMAIN EntryOf(d, "DEVICE_METADATA", "localhost")
       THEN SetMetadata(d, "synchronous_mode", SrcMetadata("synchronous_mode")) ELSE <<>>
  ELSE <<>>
migrate_routing_config_mode(d) ==
  IF "DEVICE_METADATA" \in DOMAIN host.src
  THEN LET old == Field(d, "DEVICE_METADATA", "localhost", "docker_routing_config_mode", "None")
           new == SrcMetadata("docker_routing_config_mode")
       IN  IF old # new THEN SetMetadata(d, "docker_routing_config_mode", new) ELSE <<>>
  ELSE <<>>

migrate_ipinip_tunnel(d) ==
  LET t == "TUNNEL_DECAP_TABLE"
      old == SetToSeq(EntriesWith(d, t, "dst_ip") \cup EntriesWith(d, t, "src_ip"))
      Src(k) == "src_ip" \in DOMAIN d[t][k]
      Terms(k) ==
        IF "dst_ip" \in DOMAIN d[t][k]
        THEN Mods("TUNNEL_DECAP_TERM_TABLE",
               [q \in {<<k, ip>> : ip \in d[t][k].dst_ip} |->
                  IF Src(k) THEN [src_ip |-> d[t][k].src_ip, term_type |-> "P2P"]
                            ELSE [term_type |-> "P2MP"]])
        ELSE <<>>
  IN  FlattenSeq([i \in DOMAIN old |->
        Terms(old[i]) \o <<Set(t, old[i], Without(d[t][old[i]], {"dst_ip", "src_ip"}))>>])

migrate_port_qos_map_global(d) ==
  IF host.asic = "broadcom" /\ Keys(d, "DSCP_TO_TC_MAP") # {} /\ ~Has(d, "PORT_QOS_MAP", "global")
  THEN <<Set("PORT_QOS_MAP", "global",
             [dscp_to_tc_map |->
                [form |-> "plain", names |-> <<CHOOSE m \in Keys(d, "DSCP_TO_TC_MAP") : TRUE>>]])>>
  ELSE <<>>

migrate_dns_nameserver(d) ==
  IF "DNS_NAMESERVER" \in DOMAIN host.src /\ Keys(d, "DNS_NAMESERVER") = {}
  THEN Sets("DNS_NAMESERVER", host.src["DNS_NAMESERVER"]) ELSE <<>>

\* Cables to edge zone aggregators get 40m, unless all cables are equal.
\* Without a cable table the search for the first cable raises.
EdgeZone(d) ==
  {n \in Keys(d, "DEVICE_NEIGHBOR_METADATA") :
     Field(d, "DEVICE_NEIGHBOR_METADATA", n, "type", "") = "EdgeZoneAggregator"}
EdgeZoneRaises(d) == EdgeZone(d) # {} /\ Missing(d, "CABLE_LENGTH", "AZURE")
update_edgezone_aggregator_config(d) ==
  LET cables == EntryOf(d, "CABLE_LENGTH", "AZURE")
      intfs == {i \in Keys(d, "DEVICE_NEIGHBOR") :
                  Field(d, "DEVICE_NEIGHBOR", i, "name", "") \in EdgeZone(d)}
      ps == SetToSeq(intfs \cap DOMAIN cables)
  IN  IF EdgeZone(d) = {} \/ Cardinality({cables[p] : p \in DOMAIN cables}) = 1 THEN <<>>
      ELSE [i \in DOMAIN ps |-> Mod("CABLE_LENGTH", "AZURE", ps[i] :> "40m")]

migrate_config_db_flex_counter_delay_status(d) ==
  LET old == {k \in Keys(d, "FLEX_COUNTER_TABLE") :
                Field(d, "FLEX_COUNTER_TABLE", k, "FLEX_COUNTER_DELAY_STATUS", "false") = "false"}
  IN  Mods("FLEX_COUNTER_TABLE", [k \in old |-> [FLEX_COUNTER_DELAY_STATUS |-> "true"]])
migrate_flex_counter_delay_status_removal(d) ==
  Sets("FLEX_COUNTER_TABLE", [k \in Keys(d, "FLEX_COUNTER_TABLE") |->
         Without(d["FLEX_COUNTER_TABLE"][k], {"FLEX_COUNTER_DELAY_STATUS"})])

migrate_sflow_table(d) ==
  LET New(t) == Mods(t, [k \in Keys(d, t) \ EntriesWith(d, t, "sample_direction") |->
                           [sample_direction |-> "rx"]])
  IN  New("SFLOW") \o New("SFLOW_SESSION") \o New("SFLOW_TABLE") \o New("SFLOW_SESSION_TABLE")

\* Authorization per command needs the passkey of the TACACS servers.
migrate_aaa(d) ==
  LET key == Field(d, "TACPLUS", "global", "passkey", "")
  IN  IF "AAA" \notin DOMAIN host.src THEN <<>>
      ELSE FromSrc(d, "AAA", "authentication") \o FromSrc(d, "AAA", "accounting") \o
           (IF key # "" THEN FromSrc(d, "AAA", "authorization")
            ELSE Dels("AAA", {"authorization"} \cap Keys(d, "AAA")))

check_has_sonic_dhcpv4_relay_flag(d) ==
  Field(d, "DEVICE_METADATA", "localhost", "has_sonic_dhcpv4_relay", "False") = "True"
\* A bug: the servers are taken from the VLAN before they are stored.
migrate_dhcp_servers_vlan_first(d) ==
  LET vs == SetToSeq(EntriesWith(d, "VLAN", "dhcp_servers"))
      Relay(v) == EntryOf(d, "DHCPV4_RELAY", v)
      Move(v) ==
        <<Set("VLAN", v, Without(d["VLAN"][v], {"dhcp_servers"}))>> \o
        (IF "dhcpv4_servers" \in DOMAIN Relay(v) THEN <<>>
         ELSE <<Set("DHCPV4_RELAY", v,
                    [dhcpv4_servers |-> d["VLAN"][v].dhcp_servers] @@ Relay(v))>>)
  IN  IF check_has_sonic_dhcpv4_relay_flag(d) THEN FlattenSeq([i \in DOMAIN vs |-> Move(vs[i])])
                                              ELSE <<>>

migrate_dhcp_servers_to_dhcpv4_relay(d) ==
  LET vs == SetToSeq(EntriesWith(d, "VLAN", "dhcp_servers"))
      Relay(v) == EntryOf(d, "DHCPV4_RELAY", v)
      Move(v) ==
        (IF "dhcpv4_servers" \in DOMAIN Relay(v) THEN <<>>
         ELSE <<Set("DHCPV4_RELAY", v,
                    [dhcpv4_servers |-> d["VLAN"][v].dhcp_servers] @@ Relay(v))>>)
        \o <<Set("VLAN", v, Without(d["VLAN"][v], {"dhcp_servers"}))>>
  IN  IF check_has_sonic_dhcpv4_relay_flag(d) THEN FlattenSeq([i \in DOMAIN vs |-> Move(vs[i])])
                                              ELSE <<>>

IpinipTunnels == {"IPINIP_SUBNET", "IPINIP_TUNNEL", "IPINIP_SUBNET_V6", "IPINIP_V6_TUNNEL"}
migrate_ipinip_tunnel_ecn_mode_mellanox(d) ==
  LET Ecn(t) == Mods(t, [k \in IpinipTunnels \cap Keys(d, t) |-> [ecn_mode |-> "copy_from_outer"]])
  IN  Ecn("TUNNEL_DECAP_TABLE") \o Ecn("STATE_TUNNEL_DECAP_TABLE")

\* Two ports of the older image come back before a warm start; the number
\* of ports is raised by those this run added.
S6100Ports == {"Ethernet64", "Ethernet65"}
migrate_mgmt_ports_on_s6100(d) ==
  LET new == SetToSeq({p \in S6100Ports : Missing(d, "PORT", p)})
      e == [speed |-> "10000"]
      count == Field(d, "PORT_TABLE", "PortConfigDone", "count", 0)
  IN  IF ~WarmReboot(d) THEN <<>>
      ELSE FlattenSeq([i \in DOMAIN new |->
             <<Set("PORT", new[i], e), Mod("PORT_TABLE", new[i], [admin_status |-> "down"] @@ e)>>])
           \o <<Mod("PORT_TABLE", "PortConfigDone", [count |-> count + Len(new)])>>


---------------------------------------------------------------------------
(* scripts/mellanox_buffer_migrator.py.  m is what it keeps: the items     *)
(* pending for the next flush (never cleared after one), whether the       *)
(* buffer configuration is the default one or empty, whether the version   *)
(* may be recorded, and the tables as they were before the migration.  The *)
(* default tables of the platform are constants, already extended.         *)
NoMem == [pending |-> <<>>, isDefault |-> TRUE, isEmpty |-> FALSE, ok |-> TRUE,
          old |-> NoEntries]
DefaultPoolList == {"ingress_lossless_pool", "egress_lossless_pool", "ingress_lossy_pool",
                    "egress_lossy_pool"}
BufferTables == DOMAIN App
At(f, k) == IF k \in DOMAIN f THEN f[k] ELSE NoEntries
Mapped(f, k) == IF k \in DOMAIN f THEN f[k] ELSE k

mlnx_append_item_on_pending_configuration_list(m, items) == [m EXCEPT !.pending = @ \o items]
mlnx_abandon_pending_buffer_configuration(m) == [m EXCEPT !.pending = <<>>, !.isDefault = FALSE]

mlnx_migrate_map_old_pool_to_new(new, flavor) == Mapped(At(PoolMapping, new), flavor)
mlnx_migrate_buffer_pool_size(d, m, old, new) ==
  LET pools == d["BUFFER_POOL"]
      match == {f \in DOMAIN PoolDefaults[old] : PoolDefaults[old][f] = pools}
      to == mlnx_migrate_map_old_pool_to_new(new, CHOOSE f \in match : TRUE)
      no == [m EXCEPT !.isDefault = FALSE]
  IN  IF Cardinality(DOMAIN pools) > Cardinality(DefaultPoolList) THEN no
      ELSE IF \E q \in DefaultPoolList \ {"ingress_lossy_pool"} : q \notin DOMAIN pools
      THEN [no EXCEPT !.isEmpty = @ \/ \A t \in BufferTables : Keys(d, t) = {}]
      ELSE IF match = {} THEN no
      ELSE IF to \notin DOMAIN PoolDefaults[new] THEN [no EXCEPT !.ok = FALSE]
      ELSE mlnx_append_item_on_pending_configuration_list(
             [m EXCEPT !.isDefault = TRUE],
             Dels("BUFFER_POOL", DOMAIN pools) \o Sets("BUFFER_POOL", PoolDefaults[new][to]))

mlnx_migrate_buffer_profile(d, m, old, new) ==
  LET profiles == d["BUFFER_PROFILE"]
      olds == At(HeadroomDefaults, old)
      news == At(HeadroomDefaults, new)
      match == {s \in DOMAIN olds :
                  \A n \in DOMAIN profiles \cap DOMAIN olds[s] : profiles[n] = olds[s][n]}
      to == Mapped(At(HeadroomMapping, new), CHOOSE s \in match : TRUE)
      headroom == IF DOMAIN olds = {} \/ DOMAIN news = {} THEN <<>>
                  ELSE Sets("BUFFER_PROFILE",
                            [n \in DOMAIN profiles \cap DOMAIN At(news, to) |-> news[to][n]])
      oldDefaults == At(ProfileDefaults, old)
      newDefaults == At(ProfileDefaults, new)
      others == IF DOMAIN newDefaults # {} /\
                   \A s \in DOMAIN oldDefaults : \A n \in DOMAIN oldDefaults[s] :
                     n \in DOMAIN profiles /\ profiles[n] = oldDefaults[s][n]
                THEN Sets("BUFFER_PROFILE", newDefaults["default"]) ELSE <<>>
  IN  IF ~m.isDefault THEN m
      ELSE IF DOMAIN olds # {} /\ DOMAIN news # {} /\ match = {}
      THEN [m EXCEPT !.isDefault = FALSE]
      ELSE mlnx_append_item_on_pending_configuration_list(m, headroom \o others)

mlnx_is_buffer_model_dynamic(m) == m.isDefault /\ ~host.traditional

\* Profiles that the dynamic model generates go, and the priority groups
\* lose their profile; one that is not the default one keeps everything.
Fits(d, name, port) ==
  /\ name \in DOMAIN LosslessProfile
  /\ LosslessProfile[name].speed = Field(d, "PORT", port, "speed", "")
  /\ \E c \in Keys(d, "CABLE_LENGTH") :
       LosslessProfile[name].length = Field(d, "CABLE_LENGTH", c, port, "")
migrate_config_db_buffer_tables_for_dynamic_calculation(d, m) ==
  LET pgs == Keys(d, "BUFFER_PG")
      Name(k) == d["BUFFER_PG"][k].profile.names[1]
      Good(k) == /\ d["BUFFER_PG"][k].profile.form = "config"
                 /\ \/ k[2] = "0" /\ Name(k) = "ingress_lossy_profile"
                    \/ k[2] = "3-4" /\ Fits(d, Name(k), k[1])
      meta == [buffer_model |-> "dynamic"] @@ EntryOf(d, "DEVICE_METADATA", "localhost")
      null == [profile |-> [form |-> "null", names |-> <<>>]]
  IN  IF \/ pgs = {} \/ Keys(d, "PORT") = {} \/ Keys(d, "CABLE_LENGTH") = {}
         \/ \E k \in pgs : ~Good(k)
      THEN mlnx_abandon_pending_buffer_configuration(m)
      ELSE mlnx_append_item_on_pending_configuration_list(m,
             Dels("BUFFER_PROFILE", Keys(d, "BUFFER_PROFILE") \cap DOMAIN LosslessProfile)
             \o Sets("BUFFER_PG", [k \in {k \in pgs : k[2] = "3-4"} |-> null])
             \o <<Set("DEVICE_METADATA", "localhost", meta),
                  Set("DEFAULT_LOSSLESS_BUFFER_PARAMETER", "AZURE", [default_dynamic_th |-> "0"]),
                  Set("LOSSLESS_TRAFFIC_PATTERN", "AZURE", [mtu |-> "1024"])>>)

mlnx_flush_new_buffer_configuration(d, m) ==
  LET model == Field(d, "DEVICE_METADATA", "localhost", "buffer_model", "")
      already == model = "dynamic" /\ ~host.traditional
  IN  IF Missing(d, "DEVICE_METADATA", "localhost") THEN <<>>
      ELSE (IF ((~m.isDefault /\ ~m.isEmpty) \/ host.traditional) /\ ~already
            THEN SetMetadata(d, "buffer_model", "traditional") ELSE <<>>) \o m.pending

\* Ports that are down give their buffer back: default objects in the
\* dynamic model, zero profiles in the traditional one.
PlainRef(names) == [form |-> "plain", names |-> names]
mlnx_reclaiming_unused_buffer(d) ==
  LET dynamic == Field(d, "DEVICE_METADATA", "localhost", "buffer_model", "") = "dynamic"
      profiles == Keys(d, "BUFFER_PROFILE")
      single == ~ /\ Has(d, "BUFFER_POOL", "ingress_lossy_pool")
                  /\ "pool" \in DOMAIN EntryOf(d, "BUFFER_PROFILE", "ingress_lossy_profile")
                  /\ d["BUFFER_PROFILE"]["ingress_lossy_profile"].pool.names =
                       <<"ingress_lossy_pool">>
      \* The names of the profiles in either model; no object without them.
      lossyPg == IF dynamic THEN "ingress_lossy_profile" ELSE "ingress_lossy_pg_zero_profile"
      lossyQ == IF dynamic THEN "q_lossy_profile" ELSE "egress_lossy_zero_profile"
      losslessQ == IF dynamic THEN "egress_lossless_profile" ELSE "egress_lossless_zero_profile"
      ingress == (IF dynamic THEN <<"ingress_lossless_profile">>
                             ELSE <<"ingress_lossless_zero_profile">>) \o
                 (IF single THEN <<>> ELSE IF dynamic THEN <<"ingress_lossy_profile">>
                                                      ELSE <<"ingress_lossy_zero_profile">>)
      egress == IF dynamic THEN <<"egress_lossless_profile", "egress_lossy_profile">>
                           ELSE <<"egress_lossless_zero_profile", "egress_lossy_zero_profile">>
      There(names) == dynamic => Range(names) \subseteq profiles
      Pgs(p) == {k[2] : k \in {k \in Keys(d, "BUFFER_PG") : k[1] = p}}
      Lossless(p) == d["BUFFER_PG"][<<p, "3-4">>].profile
      DefaultPg(p) ==
        \/ Pgs(p) = {}
        \/ Pgs(p) = {"3-4"} /\ IF dynamic THEN Lossless(p).form = "null"
                               ELSE Lossless(p).names # <<>> /\ Fits(d, Lossless(p).names[1], p)
      PgWrites(p) ==
        IF There(<<lossyPg>>) /\ DefaultPg(p)
        THEN <<Set("BUFFER_PG", <<p, "0">>, [profile |-> PlainRef(<<lossyPg>>)])>> \o
             (IF dynamic THEN <<Set("BUFFER_PG", <<p, "3-4">>,
                                    [profile |-> [form |-> "null", names |-> <<>>]])>> ELSE <<>>)
        ELSE <<>>
      QueueWrites(p) ==
        IF There(<<lossyQ, losslessQ>>) /\ ~\E k \in Keys(d, "BUFFER_QUEUE") : k[1] = p
        THEN Sets("BUFFER_QUEUE", [k \in {<<p, q>> : q \in {"0-2", "3-4", "5-6"}} |->
               [profile |-> PlainRef(<<IF k[2] = "3-4" THEN losslessQ ELSE lossyQ>>)]])
        ELSE <<>>
      ListWrites(t, p, names) ==
        IF There(names) /\ ~Has(d, t, p) THEN <<Set(t, p, [profile_list |-> PlainRef(names)])>>
                                         ELSE <<>>
      down == SetToSeq({p \in Keys(d, "PORT") : Field(d, "PORT", p, "admin_status", "") # "up"})
      items == FlattenSeq([i \in DOMAIN down |->
                 PgWrites(down[i]) \o QueueWrites(down[i])
                 \o ListWrites("BUFFER_PORT_INGRESS_PROFILE_LIST", down[i], ingress)
                 \o ListWrites("BUFFER_PORT_EGRESS_PROFILE_LIST", down[i], egress)])
      zeros == {lossyPg, lossyQ, losslessQ} \cup Range(ingress)
      zeroObjects == IF dynamic \/ items = <<>> THEN <<>>
        ELSE <<Set("BUFFER_POOL", "ingress_zero_pool", [size |-> "0"])>> \o
             Sets("BUFFER_PROFILE", [n \in zeros |-> [size |-> "0"]])
      \* On a warm start, what the ports given back had in APPL_DB.
      reclaimed == {p \in Range(down) : There(<<lossyPg>>) /\ Pgs(p) = {"3-4"}}
      appPgs == Keys(d, "BUFFER_PG_TABLE")
      referenced == UNION {Range(d["BUFFER_PG_TABLE"][k].profile.names) :
                             k \in {k \in appPgs : k[1] \notin reclaimed}}
      app == IF ~dynamic \/ ~WarmReboot(d) \/ appPgs = {} THEN <<>>
        ELSE Dels("BUFFER_PG_TABLE", {k \in appPgs : k[1] \in reclaimed}) \o
             Dels("BUFFER_PROFILE_TABLE", Keys(d, "BUFFER_PROFILE_TABLE") \ (referenced \cup profiles))
  IN  IF Keys(d, "CABLE_LENGTH") = {} THEN <<>> ELSE items \o zeroObjects \o app

---------------------------------------------------------------------------
(* The handlers of the versions: the migrations in order, and the version  *)
(* recorded when they are through.                                         *)
Handles(steps, next) == [steps |-> steps, next |-> next]
OnMlnx(steps, others) == IF host.asic = "mellanox" THEN steps ELSE others
Relay == <<"dhcp_relay">>
version_unknown == Handles(<<"pfc_wd", "interface", "intf">>, "version_1_0_2")
version_1_0_1 == Handles(<<"interface", "intf">>, "version_1_0_2")
version_1_0_2 == Handles(OnMlnx(<<"mlnx_pool", "mlnx_flush">>, <<>>), "version_1_0_3")
version_1_0_3 ==
  Handles(<<"feature">> \o OnMlnx(<<"mlnx_pool", "mlnx_profile", "mlnx_flush">>, <<>>),
          "version_1_0_4")
version_1_0_4 ==
  Handles(OnMlnx(<<"mlnx_pool", "mlnx_profile", "mlnx_flush">>, <<>>), "version_1_0_5")
version_1_0_5 ==
  Handles(OnMlnx(<<"mlnx_pool", "mlnx_profile", "mlnx_flush">>, <<>>), "version_1_0_6")
version_1_0_6 ==
  Handles(OnMlnx(<<"mlnx_read", "mlnx_pool", "mlnx_profile", "mlnx_dynamic", "mlnx_flush",
                   "prepare">>, <<"prepare", "traditional">>), "version_2_0_0")
version_2_0_0 == Handles(<<"qos_map_global">>, "version_2_0_1")
version_2_0_1 ==
  Handles(<<"vxlan", "restapi", "telemetry", "console", "metadata">>, "version_2_0_2")
version_2_0_2 == Handles(<<>>, "version_3_0_0")
version_3_0_0 == Handles(<<"auto_neg", "dhcp_rate">>, "version_3_0_1")
version_3_0_1 == Handles(<<"lacp_key">>, "version_3_0_2")
version_3_0_2 == Handles(<<"references">>, "version_3_0_3")
version_3_0_3 == Handles(OnMlnx(<<"mlnx_reclaim">>, <<>>), "version_3_0_4")
version_3_0_4 == Handles(<<"pfcwd_enable">>, "version_3_0_5")
version_3_0_5 == Handles(<<"loglevel">>, "version_3_0_6")
version_3_0_6 == Handles(<<>>, "version_3_0_7")
version_3_0_7 == Handles(<<>>, "version_4_0_0")
version_4_0_0 == Handles(<<"fast_reboot">>, "version_4_0_1")
version_4_0_1 == Handles(<<"feature_timer">>, "version_4_0_2")
version_4_0_2 == Handles(<<"flex_delay">>, "version_4_0_3")
version_4_0_3 == Handles(<<>>, "version_202305_01")
version_202305_01 == Handles(Relay, "version_202311_01")
version_202311_01 == Handles(<<"dns", "sflow">> \o Relay, "version_202311_02")
version_202311_02 == Handles(<<"gnmi">> \o Relay, "version_202311_03")
version_202311_03 == Handles(Relay, "version_202405_01")
version_202405_01 == Handles(Relay, "version_202405_02")
version_202405_02 == Handles(Relay \o <<"ipinip">>, "version_202411_01")
version_202411_01 == Handles(Relay, "version_202411_02")
version_202411_02 == Handles(Relay, "version_202505_01")
version_202505_01 == Handles(Relay \o <<"flex_removal">>, "version_202511_01")
version_202511_01 == Handles(OnMlnx(<<"ecn_mode">>, <<>>), "version_202605_01")
Handler(v) ==
  CASE v = "version_unknown" -> version_unknown [] v = "version_1_0_1" -> version_1_0_1
    [] v = "version_1_0_2" -> version_1_0_2     [] v = "version_1_0_3" -> version_1_0_3
    [] v = "version_1_0_4" -> version_1_0_4     [] v = "version_1_0_5" -> version_1_0_5
    [] v = "version_1_0_6" -> version_1_0_6     [] v = "version_2_0_0" -> version_2_0_0
    [] v = "version_2_0_1" -> version_2_0_1     [] v = "version_2_0_2" -> version_2_0_2
    [] v = "version_3_0_0" -> version_3_0_0     [] v = "version_3_0_1" -> version_3_0_1
    [] v = "version_3_0_2" -> version_3_0_2     [] v = "version_3_0_3" -> version_3_0_3
    [] v = "version_3_0_4" -> version_3_0_4     [] v = "version_3_0_5" -> version_3_0_5
    [] v = "version_3_0_6" -> version_3_0_6     [] v = "version_3_0_7" -> version_3_0_7
    [] v = "version_4_0_0" -> version_4_0_0     [] v = "version_4_0_1" -> version_4_0_1
    [] v = "version_4_0_2" -> version_4_0_2     [] v = "version_4_0_3" -> version_4_0_3
    [] v = "version_202305_01" -> version_202305_01 [] v = "version_202311_01" -> version_202311_01
    [] v = "version_202311_02" -> version_202311_02 [] v = "version_202311_03" -> version_202311_03
    [] v = "version_202405_01" -> version_202405_01 [] v = "version_202405_02" -> version_202405_02
    [] v = "version_202411_01" -> version_202411_01 [] v = "version_202411_02" -> version_202411_02
    [] v = "version_202505_01" -> version_202505_01 [] v = "version_202511_01" -> version_202511_01
    [] v = CURRENT_VERSION -> Handles(<<>>, "common")
    [] v = "common" ->
         Handles(<<"init_cfg", "copp", "s6100", "edgezone", "routing", "tacplus", "aaa">>, "idle")


---------------------------------------------------------------------------
(* The migrations written out in the handlers themselves.                  *)
SetLacpKey(d) ==
  IF WarmReboot(d) THEN <<>>
  ELSE Mods("PORTCHANNEL", [k \in Keys(d, "PORTCHANNEL") |-> [lacp_key |-> "auto"]])
SetPfcwdEnable(d) ==
  Mods("PORT_QOS_MAP", [k \in EntriesWith(d, "PORT_QOS_MAP", "pfc_enable") |->
                          [pfcwd_sw_enable |-> d["PORT_QOS_MAP"][k].pfc_enable]])
\* An entry without one of the two fields is dropped with a warning.
MoveLoglevels(d) ==
  LET ks == SetToSeq(Keys(d, "LOGLEVEL_DB"))
      Whole(k) == {"LOGLEVEL", "LOGOUTPUT"} \subseteq DOMAIN d["LOGLEVEL_DB"][k]
  IN  IF ~WarmReboot(d) THEN <<>>
      ELSE FlattenSeq([i \in DOMAIN ks |->
             (IF Whole(ks[i]) THEN <<Mod("LOGGER", ks[i], d["LOGLEVEL_DB"][ks[i]])>> ELSE <<>>)
             \o <<Del("LOGLEVEL_DB", ks[i])>>])
EnableFastRestart(d) ==
  IF Has(d, "FAST_RESTART_ENABLE_TABLE", "system") THEN <<>>
  ELSE <<Mod("FAST_RESTART_ENABLE_TABLE", "system",
             [enable |-> IF FastReboot(d) THEN "true" ELSE "false"])>>

\* common_migration_ops: entries of init_cfg.json, under what is configured.
MergeInitCfg(d) ==
  LET ts == SetToSeq(DOMAIN InitCfg)
  IN  FlattenSeq([i \in DOMAIN ts |->
        Sets(ts[i], [k \in DOMAIN InitCfg[ts[i]] |->
                       EntryOf(d, ts[i], k) @@ InitCfg[ts[i]][k]])])

\* The writes of one migration, and what the buffer migrator keeps.
WritesOf(f, d, m, v, next) ==
  CASE f = "pfc_wd" -> migrate_pfc_wd_table(d)
    [] f = "interface" -> migrate_interface_table(d)
    [] f = "intf" -> migrate_intf_table(d)
    [] f = "feature" -> migrate_feature_table(d)
    [] f = "mlnx_flush" -> mlnx_flush_new_buffer_configuration(d, m)
    [] f = "prepare" -> prepare_dynamic_buffer_for_warm_reboot(d, m.old)
    [] f = "traditional" -> SetMetadata(d, "buffer_model", "traditional")
    [] f = "qos_map_global" -> migrate_port_qos_map_global(d)
    [] f = "vxlan" -> migrate_vxlan_config(d)
    [] f = "restapi" -> migrate_restapi(d)
    [] f = "telemetry" -> migrate_telemetry(d)
    [] f = "console" -> migrate_console_switch(d)
    [] f = "metadata" -> migrate_device_metadata(d)
    [] f = "auto_neg" -> migrate_config_db_port_table_for_auto_neg(d)
    [] f = "dhcp_rate" -> migrate_config_db_port_table_for_dhcp_rate_limit(d)
    [] f = "lacp_key" -> SetLacpKey(d)
    [] f = "references" -> migrate_qos_fieldval_reference_format(d)
    [] f = "mlnx_reclaim" -> mlnx_reclaiming_unused_buffer(d)
    [] f = "pfcwd_enable" -> SetPfcwdEnable(d)
    [] f = "loglevel" -> MoveLoglevels(d)
    [] f = "fast_reboot" -> EnableFastRestart(d)
    [] f = "feature_timer" -> migrate_feature_timer(d)
    [] f = "flex_delay" -> IF FastReboot(d) THEN migrate_config_db_flex_counter_delay_status(d)
                                            ELSE <<>>
    [] f = "dhcp_relay" -> migrate_dhcp_servers_to_dhcpv4_relay(d)
    [] f = "dns" -> migrate_dns_nameserver(d)
    [] f = "sflow" -> migrate_sflow_table(d)
    [] f = "gnmi" -> migrate_gnmi(d)
    [] f = "ipinip" -> migrate_ipinip_tunnel(d)
    [] f = "flex_removal" -> migrate_flex_counter_delay_status_removal(d)
    [] f = "ecn_mode" -> migrate_ipinip_tunnel_ecn_mode_mellanox(d)
    [] f = "init_cfg" -> MergeInitCfg(d)
    [] f = "copp" -> IF host.asic = "mellanox" THEN <<>> ELSE migrate_copp_table(d)
    [] f = "s6100" -> IF host.s6100 THEN migrate_mgmt_ports_on_s6100(d) ELSE <<>>
    [] f = "edgezone" -> update_edgezone_aggregator_config(d)
    [] f = "routing" -> migrate_routing_config_mode(d)
    [] f = "tacplus" -> migrate_tacplus(d)
    [] f = "aaa" -> migrate_aaa(d)
    [] OTHER -> <<>>
MemOf(f, d, m, v, next) ==
  CASE f = "mlnx_read" -> [m EXCEPT !.old = [t \in {"BUFFER_POOL", "BUFFER_PROFILE", "BUFFER_PG"} |->
                                               d[t]]]
    [] f = "mlnx_pool" -> mlnx_migrate_buffer_pool_size(d, m, v, next)
    [] f = "mlnx_profile" -> mlnx_migrate_buffer_profile(d, m, v, next)
    [] f = "mlnx_dynamic" ->
         IF mlnx_is_buffer_model_dynamic(m)
         THEN migrate_config_db_buffer_tables_for_dynamic_calculation(d, m) ELSE m
    [] OTHER -> m
\* A buffer migration that fails ends the condition it stands in.
Skipped(f, m) ==
  f \in {"mlnx_profile", "mlnx_dynamic", "mlnx_flush"} \cup OnMlnx({"prepare"}, {}) /\ ~m.ok

---------------------------------------------------------------------------
(* The script.                                                             *)
get_version(d) == Field(d, "VERSIONS", "DATABASE", "VERSION", "version_unknown")
set_version(d, v) == SetEntry(d, "VERSIONS", "DATABASE", [VERSION |-> v])

MigratorInit(d, h) ==
  /\ db = d /\ host = h
  /\ at = "idle" /\ step = 0 /\ todo = <<>> /\ mem = NoMem /\ stops = 0
  /\ trial = [d |-> d, m |-> NoMem, v |-> get_version(d), i |-> 1]

\* The same script on a copy of the databases, without interruption and a
\* migration at a time: what the properties compare with.
Trial ==
  /\ trial.v # "idle"
  /\ LET h == Handler(trial.v)
         f == h.steps[trial.i]
         raises == f = "edgezone" /\ EdgeZoneRaises(trial.d)
     IN  trial' =
           IF trial.i > Len(h.steps)
           THEN [d |-> IF h.next \notin {"common", "idle"} /\ trial.m.ok
                       THEN set_version(trial.d, h.next) ELSE trial.d,
                 m |-> [trial.m EXCEPT !.ok = TRUE], v |-> h.next, i |-> 1]
           ELSE IF Skipped(f, trial.m) THEN [trial EXCEPT !.i = @ + 1]
           ELSE IF raises THEN [trial EXCEPT !.v = "idle"]
           ELSE [trial EXCEPT !.i = @ + 1, !.m = MemOf(f, trial.d, @, trial.v, h.next),
                              !.d = ApplyAll(@, WritesOf(f, @, trial.m, trial.v, h.next))]
  /\ UNCHANGED <<db, host, at, step, todo, mem, stops>>

Ready == at \notin {"idle", "failed"} /\ todo = <<>>

\* A boot or a reload starts the script.
migrate ==
  /\ trial.v = "idle" /\ at \in {"idle", "failed"}
  /\ at' = get_version(db) /\ step' = 1 /\ todo' = <<>> /\ mem' = NoMem
  /\ UNCHANGED <<db, host, stops, trial>>

\* The next migration reads its tables.
Prepare ==
  /\ Ready /\ step <= Len(Handler(at).steps)
  /\ LET h == Handler(at)
         f == h.steps[step]
     IN  IF Skipped(f, mem) THEN todo' = <<>> /\ UNCHANGED <<mem, at>>
         ELSE IF f = "edgezone" /\ EdgeZoneRaises(db)
         THEN at' = "failed" /\ todo' = <<>> /\ UNCHANGED mem
         ELSE /\ todo' = WritesOf(f, db, mem, at, h.next)
              /\ mem' = MemOf(f, db, mem, at, h.next)
              /\ UNCHANGED at
  /\ step' = step + 1
  /\ UNCHANGED <<db, host, stops, trial>>

\* One write.
Write ==
  /\ todo # <<>>
  /\ db' = Apply(db, Head(todo)) /\ todo' = Tail(todo)
  /\ UNCHANGED <<host, at, step, mem, stops, trial>>

\* The handler records the version it migrated to; common_migration_ops
\* come after the last one.
NextVersion ==
  /\ Ready /\ step > Len(Handler(at).steps)
  /\ LET next == Handler(at).next
     IN  /\ at' = next
         /\ db' = IF next \notin {"common", "idle"} /\ mem.ok THEN set_version(db, next) ELSE db
  /\ step' = 1 /\ mem' = [mem EXCEPT !.ok = TRUE]
  /\ UNCHANGED <<todo, host, stops, trial>>

\* The script stops between two writes.
Stop ==
  /\ at \notin {"idle", "failed"} /\ stops < MaxStops
  /\ at' = "failed" /\ todo' = <<>> /\ stops' = stops + 1
  /\ UNCHANGED <<db, host, step, mem, trial>>

MigratorNext == Trial \/ migrate \/ Prepare \/ Write \/ NextVersion \/ Stop

---------------------------------------------------------------------------
Finished == at = "idle" /\ step = 1

\* Migrations that cannot be repeated: a port whose autoneg has been
\* rewritten no longer gets its adv_speeds, an address of lo that has been
\* deleted is not added again, ports that are in PORT already are neither
\* copied to PORT_TABLE nor counted there, and buffer tables of Mellanox that are half replaced
\* are no longer the default ones.
MlnxTables == BufferTables \cup {App[t] : t \in BufferTables} \cup
              {"DEFAULT_LOSSLESS_BUFFER_PARAMETER", "LOSSLESS_TRAFFIC_PATTERN"}
Repeatable(d) ==
  [t \in DOMAIN d \ ({"INTF_TABLE", "PORT_TABLE"} \cup OnMlnx(MlnxTables, {})) |->
     CASE t = "PORT" -> [p \in DOMAIN d[t] |-> Without(d[t][p], {"adv_speeds"})]
       [] t = "DEVICE_METADATA" ->
            [p \in DOMAIN d[t] |-> Without(d[t][p], OnMlnx({"buffer_model"}, {}))]
       [] OTHER -> d[t]]

(* A migration that stops between any two writes and is started again from *)
(* the version recorded last ends with the databases that a migration      *)
(* without a stop produces, but for the cases above.                       *)
RerunConverges == Finished => Repeatable(db) = Repeatable(trial.d)

(* No data in a format of an older version is left at the end: tables      *)
(* merged into others, fields renamed, references in brackets.             *)
NoLegacyLeft ==
  Finished =>
    /\ get_version(db) = CURRENT_VERSION
    /\ \A t \in {"PFC_WD_TABLE", "CONTAINER_FEATURE"} : Keys(db, t) = {}
    /\ \A k \in Keys(db, "FEATURE") :
         {"status", "has_timer"} \cap DOMAIN db["FEATURE"][k] = {}
    /\ \A p \in Keys(db, "PORT") : Field(db, "PORT", p, "autoneg", "") \notin {"0", "1"}
    /\ \A t \in DOMAIN BufferRefs : \A k \in Keys(db, t) :
         \A f \in BufferRefs[t] \cap DOMAIN db[t][k] : db[t][k][f].form \notin {"config", "app"}
    /\ \A k \in Keys(db, "INTF_TABLE") : k[1] # "lo"
    /\ \A t \in IfTables : \A k \in Keys(db, t) :
         \E u \in IfTables : Has(db, u, <<k[1]>>)
    /\ \A k \in Keys(db, "TUNNEL_DECAP_TABLE") :
         {"dst_ip", "src_ip"} \cap DOMAIN db["TUNNEL_DECAP_TABLE"][k] = {}
    /\ \A k \in Keys(db, "FLEX_COUNTER_TABLE") :
         "FLEX_COUNTER_DELAY_STATUS" \notin DOMAIN db["FLEX_COUNTER_TABLE"][k]
===========================================================================
