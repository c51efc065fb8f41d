----------------------------- MODULE QosConfig -----------------------------
(* Quality of service: config qos and cbf (the tables rendered from the    *)
(* templates of the hardware SKU), config buffer and config interface      *)
(* buffer (the dynamic buffer model), config interface pfc (pfc/main.py)   *)
(* and config pfcwd, which runs pfcwd/main.py.                             *)
EXTENDS ConfigDb

CONSTANTS
  QosTemplates,  \* buffer model -> the tables its templates render; a model
                 \* whose template file is missing is not in the domain
  CbfTemplate,   \* the tables rendered from the cbf template
  DynamicVendor, \* asic_type in vendors_supporting_dynamic_buffer
  MaxPg, MaxQueue,
  PfcwdTimes     \* detection, restoration and poll times

QosTableNames == {"PORT_QOS_MAP", "QUEUE", "SCHEDULER", "WRED_PROFILE", "CABLE_LENGTH",
  "BUFFER_PG", "BUFFER_QUEUE", "BUFFER_PORT_INGRESS_PROFILE_LIST", "BUFFER_PORT_EGRESS_PROFILE_LIST",
  "BUFFER_PROFILE", "BUFFER_POOL", "DEFAULT_LOSSLESS_BUFFER_PARAMETER"}
CbfTableNames == {"DSCP_TO_FC_MAP", "EXP_TO_FC_MAP"}
QosTables == QosTableNames \cup CbfTableNames \cup {"PORT", "DEVICE_METADATA", "PFC_WD",
               "DEVICE_NEIGHBOR", "FLEX_COUNTER_TABLE"}

---------------------------------------------------------------------------
(* config cbf and config qos                                               *)
DelTables(d, T) == [t \in DOMAIN d |-> IF t \in T THEN NoEntries ELSE d[t]]
WriteToDb(d, new) == [t \in DOMAIN d |-> IF t \in DOMAIN new THEN new[t] @@ d[t] ELSE d[t]]

_clear_cbf(d) == DelTables(d, CbfTableNames)
cbf_clear == db' = _clear_cbf(db)
\* The tables are cleared before the template is looked for, and in a dry run.
cbf_reload(dry_run) ==
  db' = IF dry_run THEN _clear_cbf(db) ELSE WriteToDb(_clear_cbf(db), CbfTemplate)

\* Waiting for the application tables to empty only affects the exit code.
_clear_qos(d) == DelTables(d, QosTableNames)
qos_clear == db' = _clear_qos(db)

_update_buffer_calculation_model(d, model) ==
  ModEntry(d, "DEVICE_METADATA", "localhost", [buffer_model |-> model])
is_dynamic_buffer_enabled(d) ==
  Field(d, "DEVICE_METADATA", "localhost", "buffer_model", "") = "dynamic"

qos_reload(dry_run, no_dynamic_buffer) ==
  LET dynamic == DynamicVendor /\ ~no_dynamic_buffer
      model == IF dynamic THEN "dynamic" ELSE "traditional"
      cleared == IF dry_run THEN db ELSE _clear_qos(db)
      modelled == IF DynamicVendor THEN _update_buffer_calculation_model(cleared, model) ELSE cleared
  IN  db' = IF dry_run \/ model \notin DOMAIN QosTemplates THEN modelled
            ELSE WriteToDb(modelled, QosTemplates[model])

\* qos reload --ports: the entries of the ports are deleted and rendered
\* again; a dry run deletes them all the same.
PortTables == {"PORT_QOS_MAP", "BUFFER_PORT_INGRESS_PROFILE_LIST", "BUFFER_PORT_EGRESS_PROFILE_LIST"}
PortListTables == {"QUEUE", "BUFFER_PG", "BUFFER_QUEUE"}
OfPorts(t, k, P) == (t \in PortTables /\ k \in P) \/ (t \in PortListTables /\ k[1] \in P)
LengthsOf(e, P) == [p \in P \cap DOMAIN e |-> e[p]]
_qos_update_ports(P, dry_run) ==
  LET model == IF is_dynamic_buffer_enabled(db) THEN "dynamic" ELSE "traditional"
      known == P \cap Keys(db, "PORT")
      without == [t \in DOMAIN db |->
        [k \in {k \in DOMAIN db[t] : ~OfPorts(t, k, P)} |-> db[t][k]]]
      rendered == [t \in (PortTables \cup PortListTables) \cap DOMAIN QosTemplates[model] |->
        [k \in {k \in DOMAIN QosTemplates[model][t] : OfPorts(t, k, known)} |-> QosTemplates[model][t][k]]]
      lengths == [k \in DOMAIN QosTemplates[model]["CABLE_LENGTH"] |->
        LengthsOf(QosTemplates[model]["CABLE_LENGTH"][k], known)
          @@ (IF Has(db, "CABLE_LENGTH", k) THEN db["CABLE_LENGTH"][k] ELSE NoEntries)]
  IN  /\ model \in DOMAIN QosTemplates
      /\ db' = IF dry_run \/ known = {} THEN without ELSE WriteToDb(without, ("CABLE_LENGTH" :> lengths) @@ rendered)

---------------------------------------------------------------------------
(* config buffer.  Profiles have fields as they are given; 0 is not given. *)
_is_shared_headroom_pool_enabled(d) ==
  \/ "xoff" \in DOMAIN d["BUFFER_POOL"]["ingress_lossless_pool"]
  \/ \E k \in Keys(d, "DEFAULT_LOSSLESS_BUFFER_PARAMETER") :
       Field(d, "DEFAULT_LOSSLESS_BUFFER_PARAMETER", k, "over_subscribe_ratio", 0) # 0
LosslessPool(d) == Has(d, "BUFFER_POOL", "ingress_lossless_pool")

Given(f, v) == IF v = 0 THEN NoEntries ELSE f :> v
update_profile(name, xon, xoff, size, dynamic_th, pool, old) ==
  LET shp == _is_shared_headroom_pool_enabled(db)
      e == Given("xon", xon) @@ Given("xoff", xoff) @@ Given("size", size)
             @@ Given("dynamic_th", dynamic_th) @@ [pool |-> pool] @@ old
      F(f) == IF f \in DOMAIN e THEN e[f] ELSE 0
      dynamic == F("xon") = 0 /\ F("xoff") = 0 /\ F("size") = 0
      x == IF F("xoff") # 0 THEN F("xoff") ELSE F("size") - F("xon")
      s == IF F("size") # 0 THEN F("size") ELSE IF shp THEN F("xon") ELSE F("xon") + x
      th == IF F("dynamic_th") # 0 THEN F("dynamic_th")
            ELSE Field(db, "DEFAULT_LOSSLESS_BUFFER_PARAMETER", "AZURE", "default_dynamic_th", 0)
  IN  /\ LosslessPool(db) /\ Keys(db, "DEFAULT_LOSSLESS_BUFFER_PARAMETER") # {}
      /\ Has(db, "BUFFER_POOL", pool)
      /\ IF dynamic
         THEN dynamic_th # 0 /\ db' = SetEntry(db, "BUFFER_PROFILE", name, [headroom_type |-> "dynamic"] @@ e)
         ELSE /\ F("xon") # 0
              /\ F("xoff") # 0 \/ (~shp /\ F("size") # 0 /\ x > 0)
              /\ th # 0
              /\ db' = SetEntry(db, "BUFFER_PROFILE", name,
                                [xoff |-> x, size |-> s, dynamic_th |-> th] @@ e)
add_profile(name, xon, xoff, size, dynamic_th, pool) ==
  /\ is_dynamic_buffer_enabled(db) /\ ~Has(db, "BUFFER_PROFILE", name)
  /\ update_profile(name, xon, xoff, size, dynamic_th, pool, NoEntries)
set_profile(name, xon, xoff, size, dynamic_th, pool) ==
  /\ is_dynamic_buffer_enabled(db) /\ Has(db, "BUFFER_PROFILE", name)
  /\ "xoff" \in DOMAIN db["BUFFER_PROFILE"][name] \/ xoff = 0
  /\ update_profile(name, xon, xoff, size, dynamic_th, pool, db["BUFFER_PROFILE"][name])
\* Only the priority groups are asked whether they use the profile.
remove_profile(name) ==
  /\ is_dynamic_buffer_enabled(db) /\ Has(db, "BUFFER_PROFILE", name)
  /\ ~\E k \in Keys(db, "BUFFER_PG") : db["BUFFER_PG"][k].profile = name
  /\ db' = DelEntry(db, "BUFFER_PROFILE", name)

SetOrPop(t, k, f, v) ==
  db' = IF v # 0 THEN ModEntry(db, t, k, f :> v)
        ELSE IF Has(db, t, k) THEN WithoutField(db, t, k, f) ELSE db
over_subscribe_ratio(ratio) ==
  /\ is_dynamic_buffer_enabled(db)
  /\ ratio \in 0..Cardinality(Keys(db, "PORT"))
  /\ \E k \in Keys(db, "DEFAULT_LOSSLESS_BUFFER_PARAMETER") :
       SetOrPop("DEFAULT_LOSSLESS_BUFFER_PARAMETER", k, "over_subscribe_ratio", ratio)
shared_headroom_pool_size(size) ==
  is_dynamic_buffer_enabled(db) /\ SetOrPop("BUFFER_POOL", "ingress_lossless_pool", "xoff", size)

---------------------------------------------------------------------------
(* config interface buffer and cable-length.  A map of identifiers is a    *)
(* pair <<lower, upper>>; an identifier 0 is taken for a missing one.      *)
Overlap(m, n) == ~(m[2] < n[1] \/ m[1] > n[2])
buffer_objects_map_check_legality(t, p, m, max, is_new_id) ==
  /\ m[1] # 0 /\ m[2] # 0 /\ m[1] <= m[2] /\ m[2] <= max
  /\ IF is_new_id THEN \A k \in Keys(db, t) : k[1] = p => ~Overlap(k[2], m)
     ELSE Has(db, t, <<p, m>>)

PfcEnabled(d, p) == Field(d, "PORT_QOS_MAP", p, "pfc_enable", {})
adjust_pfc_enable(d, p, P) == ModEntry(d, "PORT_QOS_MAP", p, [pfc_enable |-> P])

ProfileFits(profile, is_pg) ==
  LET e == db["BUFFER_PROFILE"][profile]
  IN  /\ Has(db, "BUFFER_PROFILE", profile)
      /\ Field(db, "BUFFER_POOL", e.pool, "type", "") = (IF is_pg THEN "ingress" ELSE "egress")
      /\ is_pg /\ "size" \in DOMAIN e => "xoff" \in DOMAIN e
update_buffer_object(p, m, profile, is_pg, add) ==
  LET t == IF is_pg THEN "BUFFER_PG" ELSE "BUFFER_QUEUE"
      d == SetEntry(db, t, <<p, m>>, [profile |-> IF profile = "" THEN "NULL" ELSE profile])
  IN  /\ is_dynamic_buffer_enabled(db) /\ Has(db, "PORT", p)
      /\ buffer_objects_map_check_legality(t, p, m, IF is_pg THEN MaxPg ELSE MaxQueue, add)
      /\ profile # "" => ProfileFits(profile, is_pg)
      /\ db' = IF is_pg THEN adjust_pfc_enable(d, p, PfcEnabled(d, p) \cup (m[1]..m[2])) ELSE d
add_pg(p, m, profile) == update_buffer_object(p, m, profile, TRUE, TRUE)
set_pg(p, m, profile) == update_buffer_object(p, m, profile, TRUE, FALSE)
add_queue(p, m, profile) == update_buffer_object(p, m, profile, FALSE, TRUE)
set_queue(p, m, profile) == update_buffer_object(p, m, profile, FALSE, FALSE)

\* maps: the one map that is named, or all of the port.  Lossy groups stay.
remove_buffer_object_on_port(p, maps, named, is_pg) ==
  LET t == IF is_pg THEN "BUFFER_PG" ELSE "BUFFER_QUEUE"
      K == {k \in Keys(db, t) : k[1] = p /\ k[2] \in maps
                                /\ db[t][k].profile # "ingress_lossy_profile"}
      off == IF named THEN UNION {m[1]..m[2] : m \in maps} ELSE PfcEnabled(db, p)
      d == DelEntries(db, t, K)
  IN  /\ is_dynamic_buffer_enabled(db) /\ Has(db, "PORT", p) /\ K # {}
      /\ db' = IF is_pg THEN adjust_pfc_enable(d, p, PfcEnabled(d, p) \ off) ELSE d
MapsOn(t, p) == {k[2] : k \in {k \in Keys(db, t) : k[1] = p}}
remove_pg(p, m) == remove_buffer_object_on_port(p, {m}, TRUE, TRUE)
remove_all_pgs(p) == remove_buffer_object_on_port(p, MapsOn("BUFFER_PG", p), FALSE, TRUE)
remove_queue(p, m) == remove_buffer_object_on_port(p, {m}, TRUE, FALSE)
remove_all_queues(p) == remove_buffer_object_on_port(p, MapsOn("BUFFER_QUEUE", p), FALSE, FALSE)

cable_length(p, length) ==
  /\ is_dynamic_buffer_enabled(db) /\ Has(db, "PORT", p)
  /\ \E k \in Keys(db, "CABLE_LENGTH") : db' = ModEntry(db, "CABLE_LENGTH", k, p :> length)

---------------------------------------------------------------------------
(* config interface pfc                                                    *)
configPfcAsym(p, status) == db' = ModEntry(db, "PORT", p, [pfc_asym |-> status])
configPfcPrio(status, p, priority) ==
  /\ Has(db, "PORT_QOS_MAP", p)
  /\ (status = "on") # (priority \in PfcEnabled(db, p))
  /\ db' = adjust_pfc_enable(db, p, IF status = "on" THEN PfcEnabled(db, p) \cup {priority}
                                                     ELSE PfcEnabled(db, p) \ {priority})

---------------------------------------------------------------------------
(* config pfcwd                                                            *)
HasPfc(d, p) == Has(d, "PORT_QOS_MAP", p) /\ "pfc_enable" \in DOMAIN d["PORT_QOS_MAP"][p]
History(d, p) == Field(d, "PFC_WD", p, "pfc_stat_history", "disable")

\* The ports one after the other.  One dictionary serves them all: what the
\* first port with PFC had as its history is what all of them get, unless
\* the option was given.
verify_pfc_enable_status_per_port(d, ports, info) ==
  LET handled == SelectSeq(ports, LAMBDA p : HasPfc(d, p))
      full == info @@ [pfc_stat_history |-> History(d, handled[1])]
  IN  IF handled = <<>> THEN d ELSE SetAll(d, "PFC_WD", {handled[i] : i \in DOMAIN handled}, full)

\* restoration 0: not given, twice the detection time.
start_cmd(d, ports, detection, restoration, history) ==
  verify_pfc_enable_status_per_port(d, ports,
    [detection_time |-> detection,
     restoration_time |-> IF restoration = 0 THEN 2 * detection ELSE restoration]
    @@ IF history THEN [pfc_stat_history |-> "enable"] ELSE NoEntries)
pfcwd_start(ports, detection, restoration, history) ==
  db' = start_cmd(db, ports, detection, restoration, history)
pfcwd_stop == db' = DelEntries(db, "PFC_WD", Ports)

MaxPollIntervalTime == 1000
DefaultTime == 200
DefaultPortNum == 32
WatchedPorts(d) == Keys(d, "PFC_WD") \ {"GLOBAL"}
SetPollInterval(d, t) == ModEntry(d, "PFC_WD", "GLOBAL", [POLL_INTERVAL |-> t])
\* An entry that only has a history makes the command raise.
pfcwd_interval(poll_interval) ==
  /\ \A p \in WatchedPorts(db) :
       /\ {"detection_time", "restoration_time"} \subseteq DOMAIN db["PFC_WD"][p]
       /\ poll_interval <= db["PFC_WD"][p].detection_time
       /\ poll_interval <= db["PFC_WD"][p].restoration_time
  /\ poll_interval <= MaxPollIntervalTime
  /\ db' = SetPollInterval(db, poll_interval)

get_bp_ports(d) == {p \in Keys(d, "PORT") : /\ Field(d, "PORT", p, "admin_status", "") = "up"
                                            /\ Field(d, "PORT", p, "role", "") = "Int"}
count_pfc_enabled_ports(d, P) == Cardinality({p \in P : HasPfc(d, p)})
start_default ==
  LET active == Keys(db, "DEVICE_NEIGHBOR") \cup get_bp_ports(db)
      n == count_pfc_enabled_ports(db, active)
      multiply == IF n = 0 THEN 1 ELSE (n - 1) \div DefaultPortNum + 1
      poll == DefaultTime * multiply
      d == SetAll(db, "PFC_WD", {p \in active : HasPfc(db, p)},
             [detection_time |-> DefaultTime * multiply, restoration_time |-> DefaultTime * multiply,
              pfc_stat_history |-> "disable"])
  IN  /\ Field(db, "DEVICE_METADATA", "localhost", "default_pfcwd_status", "") = "enable"
      /\ db' = SetPollInterval(d, IF poll > MaxPollIntervalTime THEN MaxPollIntervalTime ELSE poll)

pfcwd_counter_poll(status) == db' = ModEntry(db, "FLEX_COUNTER_TABLE", "PFCWD", [FLEX_COUNTER_STATUS |-> status])
big_red_switch(status) == db' = ModEntry(db, "PFC_WD", "GLOBAL", [BIG_RED_SWITCH |-> status])
pfc_stat_history_cmd(status, P) ==
  db' = [db EXCEPT !["PFC_WD"] =
          [p \in {p \in P : HasPfc(db, p)} |->
             [pfc_stat_history |-> status] @@ (IF p \in DOMAIN @ THEN @[p] ELSE NoEntries)] @@ @]

---------------------------------------------------------------------------
\* The priority groups of a port never overlap, nor do its queues: the check
\* of buffer_objects_map_check_legality, the removals and the templates keep
\* the maps of one port apart.
BufferMapsDisjoint ==
  \A t \in {"BUFFER_PG", "BUFFER_QUEUE"} : \A k, l \in Keys(db, t) :
    k # l /\ k[1] = l[1] => ~Overlap(k[2], l[2])

\* The comment of verify_pfc_enable_status_per_port: starting the watchdog
\* without the option --pfc-stat-history does not clear the history setting
\* of a port.
HistoryKept ==
  \A p, q \in Ports : \A t \in PfcwdTimes :
    History(db, q) = "enable" => History(start_cmd(db, <<p, q>>, t, 0, FALSE), q) = "enable"
===========================================================================
