---------------------------- MODULE PluginConfig ----------------------------
(* The CLI plugins of config/plugins generated from YANG models, and those *)
(* written after them: fine grained next hop groups, LDAP, password        *)
(* hardening, automatic techsupport, switch hash and packet trimming.      *)
(* Options that are not given are fields that data does not have.  Values  *)
(* are checked by the YANG models (YangValid) and, for hash and trimming,  *)
(* against what orchagent reports in the table SWITCH_CAPABILITY.          *)
EXTENDS ValidatedEntry

PluginTables == {"FG_NHG", "FG_NHG_PREFIX", "FG_NHG_MEMBER", "LDAP_SERVER", "LDAP",
                 "PASSW_HARDENING", "AUTO_TECHSUPPORT", "AUTO_TECHSUPPORT_FEATURE",
                 "SWITCH_HASH", "SWITCH_TRIMMING", "SWITCH_CAPABILITY"}

\* The field of a global entry that a command sets; the entry is created.
SetGlobal(t, k, f, v) == update_entry_validated(t, k, f :> v, TRUE)

---------------------------------------------------------------------------
(* config fg-nhg, fg-nhg-prefix, fg-nhg-member                             *)
FG_NHG_add(name, data) == add_entry_validated("FG_NHG", name, data)
FG_NHG_update(name, data) == update_entry_validated("FG_NHG", name, data, FALSE)
FG_NHG_delete(name) == del_entry_validated("FG_NHG", name)
FG_NHG_PREFIX_add(prefix, data) == add_entry_validated("FG_NHG_PREFIX", prefix, data)
FG_NHG_PREFIX_update(prefix, data) == update_entry_validated("FG_NHG_PREFIX", prefix, data, FALSE)
FG_NHG_PREFIX_delete(prefix) == del_entry_validated("FG_NHG_PREFIX", prefix)
FG_NHG_MEMBER_add(ip, data) == add_entry_validated("FG_NHG_MEMBER", ip, data)
FG_NHG_MEMBER_update(ip, data) == update_entry_validated("FG_NHG_MEMBER", ip, data, FALSE)
FG_NHG_MEMBER_delete(ip) == del_entry_validated("FG_NHG_MEMBER", ip)

---------------------------------------------------------------------------
(* config ldap-server, ldap global, passw-hardening policies,              *)
(* auto-techsupport global and auto-techsupport-feature                    *)
LDAP_SERVER_add(host, data) == add_entry_validated("LDAP_SERVER", host, data)
LDAP_SERVER_update(host, data) == update_entry_validated("LDAP_SERVER", host, data, FALSE)
LDAP_SERVER_delete(host) == del_entry_validated("LDAP_SERVER", host)
LDAP_global(f, v) == SetGlobal("LDAP", "global", f, v)
PASSW_HARDENING_POLICIES(f, v) == SetGlobal("PASSW_HARDENING", "POLICIES", f, v)
AUTO_TECHSUPPORT_GLOBAL(f, v) == SetGlobal("AUTO_TECHSUPPORT", "GLOBAL", f, v)
AUTO_TECHSUPPORT_FEATURE_add(feature, data) ==
  add_entry_validated("AUTO_TECHSUPPORT_FEATURE", feature, data)
AUTO_TECHSUPPORT_FEATURE_update(feature, data) ==
  update_entry_validated("AUTO_TECHSUPPORT_FEATURE", feature, data, FALSE)
AUTO_TECHSUPPORT_FEATURE_delete(feature) ==
  del_entry_validated("AUTO_TECHSUPPORT_FEATURE", feature)

---------------------------------------------------------------------------
(* config switch-hash global.  The capability of a hash has a flag and a   *)
(* set of supported values, "any" when orchagent does not list them.       *)
Capability(f, default) == Field(db, "SWITCH_CAPABILITY", "switch", f, default)
Supports(f, flag, values) ==
  /\ Capability(flag, FALSE)
  /\ Capability(f, {"any"}) # {"any"} => values \subseteq Capability(f, {})

get_dupes(list) == {list[i] : i \in {j \in DOMAIN list : \E k \in 1..(j-1) : list[k] = list[j]}}
ecmp_hash_validator(list) ==
  get_dupes(list) = {} /\ Supports("hash_field_list", "ecmp_hash_capable", {list[i] : i \in DOMAIN list})
lag_hash_validator(list) ==
  get_dupes(list) = {} /\ Supports("hash_field_list", "lag_hash_capable", {list[i] : i \in DOMAIN list})
ecmp_hash_algorithm_validator(a) ==
  Supports("ecmp_hash_algorithm", "ecmp_hash_algorithm_capable", {a})
lag_hash_algorithm_validator(a) ==
  Supports("lag_hash_algorithm", "lag_hash_algorithm_capable", {a})

\* These plugins do not validate the configuration.
UpdateGlobal(t, f, v) == db' = ModEntry(db, t, "GLOBAL", f :> v)
SWITCH_HASH_GLOBAL_ecmp_hash(list) ==
  ecmp_hash_validator(list) /\ UpdateGlobal("SWITCH_HASH", "ecmp_hash", list)
SWITCH_HASH_GLOBAL_lag_hash(list) ==
  lag_hash_validator(list) /\ UpdateGlobal("SWITCH_HASH", "lag_hash", list)
SWITCH_HASH_GLOBAL_ecmp_hash_algorithm(a) ==
  ecmp_hash_algorithm_validator(a) /\ UpdateGlobal("SWITCH_HASH", "ecmp_hash_algorithm", a)
SWITCH_HASH_GLOBAL_lag_hash_algorithm(a) ==
  lag_hash_algorithm_validator(a) /\ UpdateGlobal("SWITCH_HASH", "lag_hash_algorithm", a)

---------------------------------------------------------------------------
(* config switch-trimming global.  A mode is resolved from a number or     *)
(* dynamically; the capability may leave the modes or the numbers open.    *)
DscpMax == 63
Dynamic == -1     \* the value from-tc of dscp, dynamic of queue
ModeSupported(f, mode) == Capability(f, {"any"}) = {"any"} \/ mode \in Capability(f, {})
DscpTypeValidator(v) ==
  IF v = Dynamic THEN ModeSupported("dscp_mode", "FROM_TC")
  ELSE ModeSupported("dscp_mode", "DSCP_VALUE") /\ v \in 0..DscpMax
TcTypeValidator(v) == v \in 0..(Capability("tc_num", 256) - 1)
QueueTypeValidator(v) ==
  IF v = Dynamic THEN ModeSupported("queue_mode", "DYNAMIC")
  ELSE ModeSupported("queue_mode", "STATIC") /\ v \in 0..(Capability("queue_num", 256) - 1)

SWITCH_TRIMMING_GLOBAL(data) ==
  /\ DOMAIN data # {}
  /\ Capability("trimming_capable", FALSE)
  /\ "dscp_value" \in DOMAIN data => DscpTypeValidator(data.dscp_value)
  /\ "tc_value" \in DOMAIN data => TcTypeValidator(data.tc_value)
  /\ "queue_index" \in DOMAIN data => QueueTypeValidator(data.queue_index)
  /\ db' = ModEntry(db, "SWITCH_TRIMMING", "GLOBAL", data)
===========================================================================
