--------------------------- MODULE CounterConfig ---------------------------
(* What is counted and how often: counterpoll, crm, route flow counters    *)
(* (config/flow_counters.py), drop counters (config dropcounters, which    *)
(* runs dropconfig), high frequency telemetry (config/hft.py) and memory   *)
(* statistics.                                                             *)
EXTENDS ValidatedEntry

CONSTANTS
  PollIntervals, CrmResources, CrmValues,
  RoutePatterns,   \* patterns of routes: <<vrf, prefix>>
  Family,          \* prefix -> "v4" or "v6"
  RouteFlowCounters, LlrCapable, IsDpu, \* capabilities of the switch
  DropCounters, DropReasons, AvailableDropCounters,
  HftProfiles, HftGroups

CounterTables == {"FLEX_COUNTER_TABLE", "CRM", "FLOW_COUNTER_ROUTE_PATTERN", "DEBUG_COUNTER",
                  "DEBUG_COUNTER_DROP_REASON", "DEBUG_DROP_MONITOR",
                  "HIGH_FREQUENCY_TELEMETRY_PROFILE", "HIGH_FREQUENCY_TELEMETRY_GROUP",
                  "HIGH_FREQUENCY_TELEMETRY_SESSION_TABLE", "MEMORY_STATISTICS"}

---------------------------------------------------------------------------
(* counterpoll: each group of commands sets the interval, or the status,   *)
(* of the flex counter groups it names.                                    *)
CounterPoll(groups, allowed, c) ==
  /\ c.field = "POLL_INTERVAL" => c.value \in allowed
  /\ db' = [db EXCEPT !["FLEX_COUNTER_TABLE"] =
             [g \in groups |-> (c.field :> c.value) @@ (IF g \in DOMAIN @ THEN @[g] ELSE NoEntries)] @@ @]

counterpoll_queue(c) == CounterPoll({"QUEUE"}, 100..30000, c)
counterpoll_port(c) == CounterPoll({"PORT"}, 100..30000, c)
counterpoll_port_buffer_drop(c) == CounterPoll({"PORT_BUFFER_DROP"}, 30000..300000, c)
counterpoll_phy(c) == CounterPoll({"PORT_PHY_ATTR"}, 100..30000, c)
counterpoll_pg_drop(c) == CounterPoll({"PG_DROP"}, 1000..30000, c)
counterpoll_rif(c) == CounterPoll({"RIF"}, PollIntervals, c)
counterpoll_watermark(c) ==
  CounterPoll({"QUEUE_WATERMARK", "PG_WATERMARK", "BUFFER_POOL_WATERMARK"}, 1000..60000, c)
counterpoll_acl(c) == CounterPoll({"ACL"}, 1000..30000, c)
counterpoll_tunnel(c) == CounterPoll({"TUNNEL"}, 100..30000, c)
counterpoll_flowcnt_trap(c) == CounterPoll({"FLOW_CNT_TRAP"}, 1000..30000, c)
counterpoll_flowcnt_route(c) == RouteFlowCounters /\ CounterPoll({"FLOW_CNT_ROUTE"}, 1000..30000, c)
counterpoll_eni(c) == IsDpu /\ CounterPoll({"ENI"}, 1000..30000, c)
counterpoll_ha_set(c) == IsDpu /\ CounterPoll({"HA_SET"}, 1000..30000, c)
counterpoll_wredqueue(c) == CounterPoll({"WRED_ECN_QUEUE"}, 100..30000, c)
counterpoll_wredport(c) == CounterPoll({"WRED_ECN_PORT"}, 100..30000, c)
counterpoll_srv6(c) == CounterPoll({"SRV6"}, 1000..30000, c)
counterpoll_icmp(c) == CounterPoll({"ICMP_SESSION"}, 1000..30000, c)
counterpoll_switch(c) == CounterPoll({"SWITCH"}, 1000..60000, c)
counterpoll_llr(c) == LlrCapable /\ CounterPoll({"LLR"}, 100..30000, c)

---------------------------------------------------------------------------
(* crm config.  The groups of the command line spell the resource; a field *)
(* is the resource and the kind of threshold.                              *)
crm_config(attr, v) == db' = ModEntry(db, "CRM", "Config", attr :> v)
crm_interval(v) == v \in 1..9999 /\ crm_config(<<"polling_interval">>, v)
crm_threshold(resource, kind, v) == resource \in CrmResources /\ crm_config(<<resource, kind>>, v)
crm_dash_threshold(resource, kind, v) == IsDpu /\ crm_config(<<"dash", resource, kind>>, v)

---------------------------------------------------------------------------
(* config flowcnt-route pattern.  A pattern of the same address family is  *)
(* replaced once the operator agrees.                                      *)
_try_find_existing_pattern_by_ip_type(d, key) ==
  {k \in Keys(d, "FLOW_COUNTER_ROUTE_PATTERN") : Family[k[2]] = Family[key[2]] /\ k # key}
pattern_add(key, max_allowed_match, yes) ==
  LET others == _try_find_existing_pattern_by_ip_type(db, key)
  IN  /\ RouteFlowCounters
      /\ Field(db, "FLOW_COUNTER_ROUTE_PATTERN", key, "max_match_count", 0) # max_allowed_match
      /\ others # {} => yes
      /\ db' = ModEntry(DelEntries(db, "FLOW_COUNTER_ROUTE_PATTERN", others),
                        "FLOW_COUNTER_ROUTE_PATTERN", key, [max_match_count |-> max_allowed_match])
pattern_remove(key) ==
  /\ RouteFlowCounters /\ Has(db, "FLOW_COUNTER_ROUTE_PATTERN", key)
  /\ db' = DelEntry(db, "FLOW_COUNTER_ROUTE_PATTERN", key)

---------------------------------------------------------------------------
(* config dropcounters.  A monitor is TRUE when window and both thresholds *)
(* are given.                                                              *)
counter_name_in_use(c) == Has(db, "DEBUG_COUNTER", c)
ReasonsOf(d, c) == {k \in Keys(d, "DEBUG_COUNTER_DROP_REASON") : k[1] = c}
WithReasons(d, c, R) == SetAll(d, "DEBUG_COUNTER_DROP_REASON", {<<c, r>> : r \in R}, NoEntries)

dropcounters_install(c, R, monitor) ==
  /\ ~counter_name_in_use(c)
  /\ Cardinality(Keys(db, "DEBUG_COUNTER")) < AvailableDropCounters
  /\ R # {} /\ R \subseteq DropReasons
  /\ db' = SetEntry(WithReasons(db, c, R), "DEBUG_COUNTER", c,
                    [drop_monitor_status |-> "disabled", thresholds |-> monitor])
dropcounters_delete(c) ==
  /\ counter_name_in_use(c)
  /\ db' = DelEntries(DelEntry(db, "DEBUG_COUNTER", c), "DEBUG_COUNTER_DROP_REASON", ReasonsOf(db, c))
dropcounters_add_reasons(c, R) ==
  /\ counter_name_in_use(c) /\ R # {} /\ R \subseteq DropReasons
  /\ db' = WithReasons(db, c, R)
dropcounters_remove_reasons(c, R) ==
  /\ counter_name_in_use(c) /\ R # {}
  /\ db' = DelEntries(db, "DEBUG_COUNTER_DROP_REASON", {<<c, r>> : r \in R})

GlobalMonitor(d) == Field(d, "DEBUG_DROP_MONITOR", "CONFIG", "status", "none")
SetGlobalMonitor(d, s) == SetEntry(d, "DEBUG_DROP_MONITOR", "CONFIG", [status |-> s])
enable_global_monitor == db' = SetGlobalMonitor(db, "enabled")
enable_monitor(c, given) ==
  /\ counter_name_in_use(c) /\ GlobalMonitor(db) = "enabled"
  /\ given \/ db["DEBUG_COUNTER"][c].thresholds
  /\ db' = ModEntry(db, "DEBUG_COUNTER", c, [drop_monitor_status |-> "enabled", thresholds |-> TRUE])
DisableMonitors(d, C) ==
  [d EXCEPT !["DEBUG_COUNTER"] =
     [c \in DOMAIN @ |-> IF c \in C THEN [@[c] EXCEPT !.drop_monitor_status = "disabled"] ELSE @[c]]]
disable_monitor(c) == counter_name_in_use(c) /\ db' = DisableMonitors(db, {c})
disable_global_monitor ==
  db' = DisableMonitors(SetGlobalMonitor(db, "disabled"), Keys(db, "DEBUG_COUNTER"))

---------------------------------------------------------------------------
(* config hft.  The changes go through apply-patch, which validates them.  *)
(* SESSION is what orchagent reports in STATE_DB: it follows the           *)
(* configuration some time after it has changed.                           *)
PROFILE == "HIGH_FREQUENCY_TELEMETRY_PROFILE"
GROUP == "HIGH_FREQUENCY_TELEMETRY_GROUP"
SESSION == "HIGH_FREQUENCY_TELEMETRY_SESSION_TABLE"
_process_payload(d) == YangValid(d) /\ db' = d

hft_stream_state(p, state) ==
  Has(db, PROFILE, p) /\ _process_payload(ModEntry(db, PROFILE, p, [stream_state |-> state]))
hft_add_profile(p, state) ==
  Keys(db, PROFILE) = {} /\ _process_payload(SetEntry(db, PROFILE, p, [stream_state |-> state]))
_active_session_groups(p) ==
  {k \in Keys(db, SESSION) : k[1] = p /\ db[SESSION][k].stream_status = "enabled"}
_reject_if_stream_active(p) == _active_session_groups(p) = {}
hft_add_group(p, g, counters) ==
  /\ _reject_if_stream_active(p)
  /\ _process_payload(SetEntry(db, GROUP, <<p, g>>, [object_counters |-> counters]))

\* With one entry left the whole table is removed, whatever the command names.
_is_last_entry(t) == Cardinality(Keys(db, t)) <= 1
RemoveFrom(t, k) == IF _is_last_entry(t) THEN DelTable(db, t) ELSE DelEntry(db, t, k)
hft_delete_profile(p) ==
  /\ Keys(db, PROFILE) # {} /\ (_is_last_entry(PROFILE) \/ Has(db, PROFILE, p))
  /\ _process_payload(RemoveFrom(PROFILE, p))
hft_delete_group(p, g) ==
  /\ _reject_if_stream_active(p)
  /\ Keys(db, GROUP) # {} /\ (_is_last_entry(GROUP) \/ Has(db, GROUP, <<p, g>>))
  /\ _process_payload(RemoveFrom(GROUP, <<p, g>>))

hft_orchagent(k) ==
  LET s == IF Has(db, GROUP, k) /\ Field(db, PROFILE, k[1], "stream_state", "disabled") = "enabled"
           THEN "enabled" ELSE "disabled"
  IN  Field(db, SESSION, k, "stream_status", "disabled") # s
      /\ db' = SetEntry(db, SESSION, k, [stream_status |-> s])

---------------------------------------------------------------------------
(* config memory-stats                                                     *)
SetMemoryStatistics(f, v) == db' = ModEntry(db, "MEMORY_STATISTICS", "memory_statistics", f :> v)
update_memory_statistics_status(enabled) == SetMemoryStatistics("enabled", enabled)
memory_stats_sampling_interval(v) == v \in 3..15 /\ SetMemoryStatistics("sampling_interval", v)
memory_stats_retention_period(v) == v \in 1..30 /\ SetMemoryStatistics("retention_period", v)

---------------------------------------------------------------------------
\* There is at most one route pattern of a family, as the switch supports,
\* however patterns of different VRFs replace one another.
OnePatternPerFamily ==
  \A k, l \in Keys(db, "FLOW_COUNTER_ROUTE_PATTERN") : Family[k[2]] = Family[l[2]] => k = l

\* A counter is monitored only with its thresholds and while the monitor is
\* enabled for the switch, every reason is that of a counter, and there are
\* no more counters than the switch has.
DropCountersConsistent ==
  /\ \A c \in Keys(db, "DEBUG_COUNTER") :
       db["DEBUG_COUNTER"][c].drop_monitor_status = "enabled" =>
         GlobalMonitor(db) = "enabled" /\ db["DEBUG_COUNTER"][c].thresholds
  /\ \A k \in Keys(db, "DEBUG_COUNTER_DROP_REASON") : Has(db, "DEBUG_COUNTER", k[1])
  /\ Cardinality(Keys(db, "DEBUG_COUNTER")) <= AvailableDropCounters
===========================================================================
