---------------------------- MODULE AclPbhConfig ----------------------------
(* ACL tables (group acl of config/main.py), the rules acl-loader installs *)
(* (acl_loader/main.py) and policy based hashing (config/plugins/pbh.py).  *)
(* One ASIC; STATE_DB says that every action is supported.                 *)
EXTENDS L2Config

CONSTANTS
  AclTables, AclFiles,  \* a file: ACL table -> set of OpenConfig entries
  MaxPriority,          \* acl-loader --max_priority
  PbhNames, PbhCap,     \* PbhCap: table -> field -> operations STATE_DB allows
  PbhMatches            \* the fields of a rule that match packets

ASSUME PbhMatchesAssumption == IsFiniteSet(PbhMatches)

AclTablesOfDb == {"ACL_TABLE", "ACL_RULE", "PBH_TABLE", "PBH_RULE", "PBH_HASH",
                  "PBH_HASH_FIELD", "PBH_COUNTERS"}

---------------------------------------------------------------------------
(* config acl add/remove table                                             *)
get_acl_bound_ports(d) ==
  {k[1] : k \in Keys(d, "PORTCHANNEL_MEMBER")} \cup
  (Keys(d, "PORT") \ {k[2] : k \in Keys(d, "PORTCHANNEL_MEMBER")})

expand_vlan_ports(d, p) ==
  IF ~Has(d, "VLAN", p) THEN {p}
  ELSE {k[2] : k \in {q \in Keys(d, "VLAN_MEMBER") : q[1] = p}}

\* ports: the set given with --ports, {} without the option.
parse_acl_table_info(d, ports) ==
  IF ports = {} THEN get_acl_bound_ports(d)
  ELSE UNION {expand_vlan_ports(d, p) : p \in ports}
add_table(t, type, ports, stage) ==
  /\ \A p \in ports : expand_vlan_ports(db, p) # {}
  /\ parse_acl_table_info(db, ports) \subseteq get_acl_bound_ports(db)
  /\ db' = SetEntry(db, "ACL_TABLE", t,
             [type |-> type, ports |-> parse_acl_table_info(db, ports), stage |-> stage])
\* The rules of the table stay.
remove_table(t) == db' = DelEntry(db, "ACL_TABLE", t)

---------------------------------------------------------------------------
(* acl-loader: an entry of a file is [seq, action, ethertype, protocol,    *)
(* icmp, tcp_flags]; one that cannot be converted is skipped.              *)
is_table_l3v4v6(type) == type = "L3V4V6"
is_table_ipv6(type) == type \in {"L3V6", "MIRRORV6"}
is_table_mirror(type) == type \in {"MIRROR", "MIRRORV6"}
is_table_control_plane(type) == type = "CTRLPLANE"

convert_action(d, type, r) ==
  CASE r.action = "ACCEPT" /\ is_table_control_plane(type) -> "ACCEPT"
    [] r.action = "ACCEPT" /\ is_table_mirror(type) ->
         IF Keys(d, "MIRROR_SESSION") = {} THEN "none" ELSE "MIRROR"
    [] r.action = "ACCEPT" -> "FORWARD"
    [] r.action \in {"DROP", "REJECT"} -> "DROP"
    [] OTHER -> "none"

convert_ip(type, r) ==
  IF r.protocol = "ICMP" /\ (\/ is_table_ipv6(type)
                             \/ is_table_l3v4v6(type) /\ r.ethertype = "IPV6")
  THEN "ICMPV6" ELSE r.protocol
convert_icmp(type, r) ==
  CASE is_table_ipv6(type) -> "ICMPV6"
    [] is_table_l3v4v6(type) -> IF r.ethertype = "IPV6" THEN "ICMPV6" ELSE "ICMP"
    [] OTHER -> IF r.protocol = "ICMPV6" THEN "ICMPV6" ELSE "ICMP"
validate_rule_fields(type, r) ==
  r.protocol # "" => /\ r.tcp_flags => convert_ip(type, r) = "TCP"
                     /\ r.icmp => convert_ip(type, r) = convert_icmp(type, r)
Convertible(d, type, r) ==
  /\ is_table_l3v4v6(type) => r.ethertype \in {"IPV4", "IPV6"}
  /\ convert_action(d, type, r) # "none"
  /\ validate_rule_fields(type, r)

convert_rule_to_db_schema(d, type, r) ==
  [PRIORITY |-> MaxPriority - r.seq, PACKET |-> convert_action(d, type, r),
   IP_PROTOCOL |-> convert_ip(type, r)]
deny_rule == [PRIORITY |-> 1, PACKET |-> "DROP", IP_PROTOCOL |-> ""]

\* The rules of a file, for the tables that exist (or the one asked for).
\* Key 0 of a table is DEFAULT_RULE.
convert_rules(d, file, current_table) ==
  LET tables == {t \in DOMAIN file : Has(d, "ACL_TABLE", t) /\ current_table \in {"", t}}
      type(t) == d["ACL_TABLE"][t].type
      mine(t) == {r \in file[t] : Convertible(d, type(t), r)}
      deny(t) == type(t) \in {"L3", "L3V6", "L3V4V6"} /\ d["ACL_TABLE"][t].stage # "egress"
      keys == UNION {{<<t, r.seq>> : r \in mine(t)} \cup (IF deny(t) THEN {<<t, 0>>} ELSE {})
                     : t \in tables}
  IN  [k \in keys |->
         IF k[2] = 0 THEN deny_rule
         ELSE convert_rule_to_db_schema(d, type(k[1]), CHOOSE r \in mine(k[1]) : r.seq = k[2])]

FullUpdate(d, file, table) ==
  LET old == {k \in Keys(d, "ACL_RULE") : table \in {"", k[1]}}
  IN  [d EXCEPT !["ACL_RULE"] =
         Over(convert_rules(d, file, table), [k \in DOMAIN @ \ old |-> @[k]])]
full_update(file, table) == db' = FullUpdate(db, file, table)

\* Mutant: the control plane's rules that are not in the file stay.
IncrementalUpdateKeeps(d, file) ==
  LET rules_info == convert_rules(d, file, "")
      data == {k \in Keys(d, "ACL_RULE") : ~is_table_control_plane(d["ACL_TABLE"][k[1]].type)}
  IN  [d EXCEPT !["ACL_RULE"] = Over(rules_info, [k \in DOMAIN @ \ data |-> @[k]])]

PutRules(d, rules, K) == [d EXCEPT !["ACL_RULE"] = Over([k \in K |-> rules[k]], @)]

\* The rules of the data plane are all replaced, those of the control plane
\* changed where they differ.
IncrementalUpdate(d, file) ==
  LET rules_info == convert_rules(d, file, "")
      new == DOMAIN rules_info
      ctrl(K) == {k \in K : is_table_control_plane(d["ACL_TABLE"][k[1]].type)}
      cur == Keys(d, "ACL_RULE")
      d1 == DelEntries(d, "ACL_RULE", cur \ ctrl(cur))
      d2 == PutRules(PutRules(d1, rules_info, new \ ctrl(new)), rules_info, ctrl(new) \ ctrl(cur))
      d3 == DelEntries(d2, "ACL_RULE", ctrl(cur) \ ctrl(new))
      changed == {k \in new \cap ctrl(cur) : rules_info[k] # d["ACL_RULE"][k]}
  IN  PutRules(d3, rules_info, changed)
\* A rule whose table was removed ends the command with a KeyError.
RuleTablesExist(d) == \A k \in Keys(d, "ACL_RULE") : Has(d, "ACL_TABLE", k[1])
incremental_update(file) == RuleTablesExist(db) /\ db' = IncrementalUpdate(db, file)

\* -1 stands for every rule, "" for every table.
delete_rules(table, rule) ==
  db' = DelEntries(db, "ACL_RULE",
          {k \in Keys(db, "ACL_RULE") : table \in {"", k[1]} /\ rule \in {-1, k[2]}})

---------------------------------------------------------------------------
(* config pbh.  data is a function of fields; capabilities restrict which  *)
(* fields an update may add, change or remove.                             *)
add_entry(t, k, data) == ~Has(db, t, k) /\ DOMAIN data # {} /\ db' = SetEntry(db, t, k, data)
update_entry(t, k, data) ==
  /\ Has(db, t, k) /\ DOMAIN data # {}
  /\ \A f \in DOMAIN data :
       (IF f \in DOMAIN db[t][k] THEN "UPDATE" ELSE "ADD") \in PbhCap[t][f]
  /\ db' = ModEntry(db, t, k, data)
RemoveFields(d, t, k, F) == [d EXCEPT ![t][k] = [f \in DOMAIN @ \ F |-> @[f]]]
del_entry(t, k) == Has(db, t, k) /\ db' = DelEntry(db, t, k)

\* Which hash fields go with which IP mask ("" when there is none).
hash_field_to_ip_mask_correspondence_validator(field, mask) ==
  CASE mask = ""   -> field \in {"INNER_IP_PROTOCOL", "INNER_L4_DST_PORT", "INNER_L4_SRC_PORT"}
    [] mask = "v4" -> field \in {"INNER_DST_IPV4", "INNER_SRC_IPV4"}
    [] mask = "v6" -> field \in {"INNER_DST_IPV6", "INNER_SRC_IPV6"}
Option(f, v) == IF v = "" THEN NoEntries ELSE One(f, v)
HashField(field, mask) == Over(Option("hash_field", field), Option("ip_mask", mask))
Stored(n, f) == Field(db, "PBH_HASH_FIELD", n, f, "")

\* Mutant: what is stored already is not looked at.
hash_field_to_given_mask_validator(n, field, mask) ==
  field # "" /\ mask # "" => hash_field_to_ip_mask_correspondence_validator(field, mask)

\* An option that an update leaves out is the one stored.
hash_field_to_ip_mask_validator(n, field, mask) ==
  field # "" \/ mask # "" =>
    hash_field_to_ip_mask_correspondence_validator(
      IF field = "" THEN Stored(n, "hash_field") ELSE field,
      IF mask = "" THEN Stored(n, "ip_mask") ELSE mask)

PBH_HASH_FIELD_add(n, field, mask) ==
  /\ hash_field_to_ip_mask_correspondence_validator(field, mask)
  /\ add_entry("PBH_HASH_FIELD", n, HashField(field, mask))
PBH_HASH_FIELD_update(n, field, mask) ==
  /\ hash_field_to_ip_mask_validator(n, field, mask)
  /\ update_entry("PBH_HASH_FIELD", n, HashField(field, mask))
PBH_HASH_FIELD_delete(n) == del_entry("PBH_HASH_FIELD", n)

hash_field_list_validator(F) == F # {} /\ F \subseteq Keys(db, "PBH_HASH_FIELD")
PBH_HASH_add(n, F) ==
  hash_field_list_validator(F) /\ add_entry("PBH_HASH", n, [hash_field_list |-> F])
PBH_HASH_update(n, F) ==
  hash_field_list_validator(F) /\ update_entry("PBH_HASH", n, [hash_field_list |-> F])
PBH_HASH_delete(n) == del_entry("PBH_HASH", n)

MatchesIn(e) == DOMAIN e \cap PbhMatches
HashExists(data) == "hash" \in DOMAIN data => Has(db, "PBH_HASH", data.hash)
PBH_RULE_add(t, r, data) ==
  /\ Has(db, "PBH_TABLE", t) /\ HashExists(data) /\ MatchesIn(data) # {}
  /\ add_entry("PBH_RULE", <<t, r>>, data)
\* The counters a user has cleared are forgotten when the rule stops counting.
DropCounters(d, t, r) == DelEntry(d, "PBH_COUNTERS", <<t, r>>)
PBH_RULE_update_field_set(t, r, data) ==
  /\ Has(db, "PBH_TABLE", t) /\ HashExists(data)
  /\ Has(db, "PBH_RULE", <<t, r>>) /\ DOMAIN data # {}
  /\ \A f \in DOMAIN data : (IF f \in DOMAIN db["PBH_RULE"][<<t, r>>] THEN "UPDATE" ELSE "ADD")
                              \in PbhCap["PBH_RULE"][f]
  /\ LET d == ModEntry(db, "PBH_RULE", <<t, r>>, data)
     IN  db' = IF Field(d, "PBH_RULE", <<t, r>>, "flow_counter", "") = "DISABLED"
                    /\ "flow_counter" \in DOMAIN data
               THEN DropCounters(d, t, r) ELSE d
pbh_match_count(t, r, F) ==
  <<Cardinality(MatchesIn(db["PBH_RULE"][<<t, r>>])),
    Cardinality(MatchesIn(db["PBH_RULE"][<<t, r>>]) \cap F)>>
PBH_RULE_update_field_del(t, r, F) ==
  /\ Has(db, "PBH_TABLE", t) /\ Has(db, "PBH_RULE", <<t, r>>)
  /\ F # {} /\ F \subseteq DOMAIN db["PBH_RULE"][<<t, r>>]
  /\ pbh_match_count(t, r, F)[2] < pbh_match_count(t, r, F)[1]
  /\ \A f \in F : "REMOVE" \in PbhCap["PBH_RULE"][f]
  /\ LET d == RemoveFields(db, "PBH_RULE", <<t, r>>, F)
     IN  db' = IF "flow_counter" \in F THEN DropCounters(d, t, r) ELSE d
PBH_RULE_delete(t, r) ==
  /\ Has(db, "PBH_TABLE", t) /\ Has(db, "PBH_RULE", <<t, r>>)
  /\ db' = DropCounters(DelEntry(db, "PBH_RULE", <<t, r>>), t, r)

interface_list_validator(ports) ==
  ports # {} /\ \A p \in ports : is_valid_port(db, p) \/ is_valid_portchannel(db, p)
PBH_TABLE_add(t, ports) ==
  interface_list_validator(ports) /\ add_entry("PBH_TABLE", t, [interface_list |-> ports])
PBH_TABLE_update(t, ports) ==
  interface_list_validator(ports) /\ update_entry("PBH_TABLE", t, [interface_list |-> ports])
PBH_TABLE_delete(t) == del_entry("PBH_TABLE", t)

\* sonic-clear pbh statistics saves the counters of the rules that count.
clear_pbh_counters ==
  db' = [db EXCEPT !["PBH_COUNTERS"] =
           [k \in {r \in Keys(db, "PBH_RULE") :
                     Field(db, "PBH_RULE", r, "flow_counter", "") = "ENABLED"} |-> NoEntries]]

---------------------------------------------------------------------------
\* A port of an ACL table is not a member of a port channel: the table
\* command leaves members out and the member command refuses bound ports.
AclPortsNotInPortchannel ==
  \A t \in Keys(db, "ACL_TABLE") : \A p \in db["ACL_TABLE"][t].ports :
    ~interface_is_in_portchannel(db, p)

\* The incremental update of acl-loader, which replaces the rules of the
\* data plane and patches those of the control plane, installs exactly the
\* rules the full update would, whatever file was loaded before.
IncrementalIsFull ==
  RuleTablesExist(db) =>
    \A file \in AclFiles :
      IncrementalUpdate(db, file)["ACL_RULE"] = FullUpdate(db, file, "")["ACL_RULE"]

\* A PBH rule keeps a field to match by through all updates and removals of
\* single fields; the mask of a hash field is of its address family, also
\* when hash field and mask are updated one at a time; saved counters are
\* those of existing rules that count.
PbhConsistent ==
  /\ \A k \in Keys(db, "PBH_RULE") : MatchesIn(db["PBH_RULE"][k]) # {}
  /\ \A n \in Keys(db, "PBH_HASH_FIELD") :
       hash_field_to_ip_mask_correspondence_validator(Stored(n, "hash_field"), Stored(n, "ip_mask"))
  /\ \A k \in Keys(db, "PBH_COUNTERS") :
       Field(db, "PBH_RULE", k, "flow_counter", "") = "ENABLED"
===========================================================================
