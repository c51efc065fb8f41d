--------------------------- MODULE AccessConfig ---------------------------
(* Who may log in, where the switch reports to and the servers it asks:    *)
(* config aaa, tacacs and radius (config/aaa.py), syslog                   *)
(* (config/syslog.py), snmp, snmptrap and snmpagentaddress, ntp, dns,      *)
(* console, ssh, serial_console and banner.  The restart of a service      *)
(* after a write changes no table and is left out.                         *)
EXTENDS ConfigDb

CONSTANTS
  Servers,         \* addresses of servers
  V6Servers,       \* the ones of IPv6
  SpecialAddrs,    \* loopback, multicast, link-local, reserved: refused as sources
  LinuxAddresses,  \* VRF known to Linux (and "default") -> addresses on it
  Containers,      \* features that run in a container
  Lines, Devices,  \* console lines and the devices behind them
  Substrings,      \* pairs <<s, t>> of texts, s a part of t
  BadSecrets,      \* texts the checks of length and characters refuse
  RadiusMaxServers, NameserversMaxNum

AccessTables == {"AAA", "TACPLUS", "TACPLUS_SERVER", "RADIUS", "RADIUS_SERVER", "SYSLOG_SERVER",
                 "SYSLOG_CONFIG", "SYSLOG_CONFIG_FEATURE", "FEATURE", "CONTAINERCFGD", "LOGGER",
                 "SNMP_AGENT_ADDRESS_CONFIG", "SNMP_TRAP_CONFIG", "SNMP_COMMUNITY", "SNMP",
                 "SNMP_USER", "NTP_SERVER", "DNS_NAMESERVER", "CONSOLE_SWITCH", "CONSOLE_PORT",
                 "SSH_SERVER", "SERIAL_CONSOLE", "BANNER_MESSAGE", "VRF", "MGMT_VRF_CONFIG"}

SetField(t, k, f, v) == db' = ModEntry(db, t, k, f :> v)
ClearField(t, k, f) == Has(db, t, k) /\ db' = WithoutField(db, t, k, f)

---------------------------------------------------------------------------
(* aaa, tacacs, radius.  The option "default" takes the field away, and    *)
(* leaves the entry even when it was the last one.                         *)
add_table_kv(t, k, f, v) == SetField(t, k, f, v)
del_table_key(t, k, f) == ClearField(t, k, f)
Default == "default"
AuthenticationFlag(f, option) ==
  IF option = Default THEN del_table_key("AAA", "authentication", f)
                      ELSE add_table_kv("AAA", "authentication", f, option = "enable")
failthrough(option) == AuthenticationFlag("failthrough", option)
fallback(option) == AuthenticationFlag("fallback", option)
debug(option) == AuthenticationFlag("debug", option)
trace(option) == AuthenticationFlag("trace", option)

\* Two protocols: exactly one of them is the local database.
GoodPair(ps) == (ps[1] = "local") # (ps[2] = "local")
login(ps) ==
  /\ Len(ps) \in 1..2
  /\ IF \E n \in 1..Len(ps) : ps[n] = Default
     THEN Len(ps) = 1 /\ del_table_key("AAA", "authentication", "login")
     ELSE (Len(ps) = 2 => GoodPair(ps)) /\ add_table_kv("AAA", "authentication", "login", ps)
authorization(ps) == ps # << >> /\ add_table_kv("AAA", "authorization", "login", ps)
accounting(ps) ==
  IF ps = <<"disable">> THEN del_table_key("AAA", "accounting", "login")
                        ELSE ps # << >> /\ add_table_kv("AAA", "accounting", "login", ps)

GlobalParam(t, f, v, valid) ==
  IF v = Default THEN del_table_key(t, "global", f)
                 ELSE valid /\ add_table_kv(t, "global", f, v)
tacacs_timeout(v) == GlobalParam("TACPLUS", "timeout", v, v # "0")
tacacs_authtype(v) == GlobalParam("TACPLUS", "auth_type", v, TRUE)
tacacs_passkey(v) == GlobalParam("TACPLUS", "passkey", v, TRUE)
traceid_authorization(v) == GlobalParam("TACPLUS", "traceid_authorization", v, TRUE)
add_tacacs_server(s, data) ==
  /\ ~Has(db, "TACPLUS_SERVER", s)
  /\ db' = SetEntry(db, "TACPLUS_SERVER", s, data)
del_tacacs_server(s) == db' = DelEntry(db, "TACPLUS_SERVER", s)

radius_timeout(v) == GlobalParam("RADIUS", "timeout", v, TRUE)
retransmit(v) == GlobalParam("RADIUS", "retransmit", v, TRUE)
radius_authtype(v) == GlobalParam("RADIUS", "auth_type", v, TRUE)
radius_passkey(v) == GlobalParam("RADIUS", "passkey", v, v \notin BadSecrets)
sourceip(v) == GlobalParam("RADIUS", "src_ip", v, v \notin SpecialAddrs)
nasip(v) == GlobalParam("RADIUS", "nas_ip", v, v \notin SpecialAddrs)
radius_statistics(v) == GlobalParam("RADIUS", "statistics", v, TRUE)
add_radius_server(s, data) ==
  /\ "passkey" \in DOMAIN data => data.passkey \notin BadSecrets
  /\ ~Has(db, "RADIUS_SERVER", s)
  /\ Cardinality(Keys(db, "RADIUS_SERVER")) # RadiusMaxServers
  /\ db' = SetEntry(db, "RADIUS_SERVER", s, data)
del_radius_server(s) == db' = DelEntry(db, "RADIUS_SERVER", s)

---------------------------------------------------------------------------
(* syslog.  "" stands for an option that is not given.                     *)
is_mgmt_vrf_enabled(d) == Field(d, "MGMT_VRF_CONFIG", "vrf_global", "mgmtVrfEnabled", "false") = "true"
server_validator(s, is_exist) == Has(db, "SYSLOG_SERVER", s) = is_exist
source_validator(s, source) == source \notin SpecialAddrs /\ (s \in V6Servers) = (source \in V6Servers)
vrf_validator(vrf) ==
  vrf \in {Default} \cup Keys(db, "VRF") \cup (IF is_mgmt_vrf_enabled(db) THEN {"mgmt"} ELSE {})
source_to_vrf_validator(source, vrf) ==
  LET v == IF vrf = "" THEN Default ELSE vrf
  IN  /\ v \in DOMAIN LinuxAddresses
      /\ source = "" \/ source \in LinuxAddresses[v]
Options(o) == [f \in {g \in DOMAIN o : o[g] # ""} |-> o[f]]
add_syslog_server(s, o) ==
  /\ server_validator(s, FALSE)
  /\ o.source = "" \/ source_validator(s, o.source)
  /\ o.vrf = "" \/ vrf_validator(o.vrf)
  /\ source_to_vrf_validator(o.source, o.vrf)
  /\ db' = SetEntry(db, "SYSLOG_SERVER", s, Options(o))
del_syslog_server(s) == server_validator(s, TRUE) /\ db' = DelEntry(db, "SYSLOG_SERVER", s)

\* None is a limit that is not given; a limit of zero turns both off.
None == -1
rate_limit_validator(interval, burst) == interval # None \/ burst # None
\* The table FEATURE is keyed by namespace, "" the one of the host.
service_validator(d, c) == Field(d, "FEATURE", <<"", c>>, "support_syslog_rate_limit", "false") = "true"
save_rate_limit_to_db(t, k, interval, burst) ==
  LET off == interval = 0 \/ burst = 0
      e == IF off THEN [rate_limit_interval |-> 0, rate_limit_burst |-> 0]
           ELSE (IF interval = None THEN NoEntries ELSE "rate_limit_interval" :> interval)
                @@ (IF burst = None THEN NoEntries ELSE "rate_limit_burst" :> burst)
  IN  db' = ModEntry(db, t, k, e)
rate_limit_host(interval, burst) ==
  rate_limit_validator(interval, burst)
  /\ save_rate_limit_to_db("SYSLOG_CONFIG", "GLOBAL", interval, burst)
rate_limit_container(c, interval, burst) ==
  /\ rate_limit_validator(interval, burst) /\ service_validator(db, c)
  /\ save_rate_limit_to_db("SYSLOG_CONFIG_FEATURE", c, interval, burst)

(* The daemon that applies the limits inside a container: its file, that   *)
(* supervisor knows it, and whether it runs.  A command runs four steps in *)
(* each running container and stops at the first that fails; done is the   *)
(* number of steps that work in each container.                            *)
get_feature_names_to_proceed(c) == IF c = "" THEN {f \in Containers : service_validator(db, f)} ELSE {c}
EnableSteps(e, n) ==
  [running |-> e.running, conf |-> e.conf \/ n >= 1, known |-> n >= 3, started |-> n >= 4]
DisableSteps(e, n) ==
  [running |-> e.running, conf |-> e.conf /\ n < 2, known |-> e.known /\ n < 4,
   started |-> e.started /\ n < 1]
ActedOn(c, known) ==
  {f \in get_feature_names_to_proceed(c) \cap Keys(db, "CONTAINERCFGD") :
     db["CONTAINERCFGD"][f].running /\ db["CONTAINERCFGD"][f].known = known}
enable_rate_limit_feature(c, done) ==
  /\ c # "" => service_validator(db, c)
  /\ db' = [db EXCEPT !["CONTAINERCFGD"] = [f \in ActedOn(c, FALSE) |-> EnableSteps(@[f], done[f])] @@ @]
disable_rate_limit_feature(c, done) ==
  /\ c # "" => service_validator(db, c)
  /\ db' = [db EXCEPT !["CONTAINERCFGD"] = [f \in ActedOn(c, TRUE) |-> DisableSteps(@[f], done[f])] @@ @]

level(identifier, l, container, program, pid) ==
  /\ program => container
  /\ container => program \/ pid
  /\ SetField("LOGGER", identifier, "LOGLEVEL", l)

---------------------------------------------------------------------------
(* snmpagentaddress, snmptrap, snmp.  A key of the agents is <<address,    *)
(* port, VRF>>; the search for another with the same beginning takes the   *)
(* missing port for every port, and then fails on it.                      *)
AgentFound(ip) == \E v \in DOMAIN LinuxAddresses : ip \in LinuxAddresses[v]
add_snmp_agent_address(ip, port, vrf) ==
  /\ vrf = "" => ~is_mgmt_vrf_enabled(db)
  /\ AgentFound(ip)
  /\ ~\E k \in Keys(db, "SNMP_AGENT_ADDRESS_CONFIG") :
        k[1] = ip /\ (k[2] = port \/ <<port, k[2]>> \in Substrings \/ port = "")
  /\ db' = SetEntry(db, "SNMP_AGENT_ADDRESS_CONFIG", <<ip, port, vrf>>, NoEntries)
del_snmp_agent_address(ip, port, vrf) ==
  db' = DelEntry(db, "SNMP_AGENT_ADDRESS_CONFIG", <<ip, port, vrf>>)
modify_snmptrap_server(ver, data) == db' = ModEntry(db, "SNMP_TRAP_CONFIG", ver, data)
delete_snmptrap_server(ver) == db' = DelEntry(db, "SNMP_TRAP_CONFIG", ver)

is_valid_community_type(type) == type \in {"RO", "RW"}
snmp_community_secret_check(c) == c \notin BadSecrets
add_community(c, type) ==
  /\ is_valid_community_type(type) /\ snmp_community_secret_check(c)
  /\ ~Has(db, "SNMP_COMMUNITY", c)
  /\ db' = SetEntry(db, "SNMP_COMMUNITY", c, [TYPE |-> type])
del_community(c) == Has(db, "SNMP_COMMUNITY", c) /\ db' = DelEntry(db, "SNMP_COMMUNITY", c)
replace_community(c, new) ==
  /\ Has(db, "SNMP_COMMUNITY", c) /\ snmp_community_secret_check(new)
  /\ ~Has(db, "SNMP_COMMUNITY", new)
  /\ db' = DelEntry(SetEntry(db, "SNMP_COMMUNITY", new, db["SNMP_COMMUNITY"][c]), "SNMP_COMMUNITY", c)

\* The contact is an entry with one field, its name; a part of the name is
\* enough to delete it.
Within(s, t) == s = t \/ <<s, t>> \in Substrings
ContactName(d) == CHOOSE c \in DOMAIN d["SNMP"]["CONTACT"] : TRUE
add_contact(c, email) == ~Has(db, "SNMP", "CONTACT") /\ db' = SetEntry(db, "SNMP", "CONTACT", c :> email)
del_contact(c) ==
  /\ Has(db, "SNMP", "CONTACT") /\ Within(c, ContactName(db))
  /\ db' = DelEntry(db, "SNMP", "CONTACT")
modify_contact(c, email) ==
  /\ Has(db, "SNMP", "CONTACT") /\ db["SNMP"]["CONTACT"] # (c :> email)
  /\ db' = SetEntry(db, "SNMP", "CONTACT", c :> email)
add_location(l) == ~Has(db, "SNMP", "LOCATION") /\ db' = SetEntry(db, "SNMP", "LOCATION", [Location |-> l])
delete_location(l) ==
  Field(db, "SNMP", "LOCATION", "Location", "") = l /\ db' = DelEntry(db, "SNMP", "LOCATION")
modify_location(l) ==
  /\ Has(db, "SNMP", "LOCATION") /\ ~Within(l, db["SNMP"]["LOCATION"].Location)
  /\ db' = ModEntry(db, "SNMP", "LOCATION", [Location |-> l])

snmp_username_check(u) == u \notin BadSecrets
is_valid_user_type(type) == type \in {"noAuthNoPriv", "AuthNoPriv", "Priv"}
is_valid_auth_type(a) == a \in {"MD5", "SHA", "HMAC-SHA-2"}
is_valid_encrypt_type(e) == e \in {"DES", "AES"}
snmp_user_secret_check(s) == s \notin BadSecrets \cup {""}
add_user(u, e) ==
  /\ snmp_username_check(u) /\ is_valid_user_type(e.type) /\ is_valid_community_type(e.permission)
  /\ IF e.type = "noAuthNoPriv" THEN e.auth = ""
     ELSE is_valid_auth_type(e.auth) /\ snmp_user_secret_check(e.auth_password)
  /\ e.type = "AuthNoPriv" => e.encrypt = ""
  /\ e.type = "Priv" => is_valid_encrypt_type(e.encrypt) /\ snmp_user_secret_check(e.encrypt_password)
  /\ ~Has(db, "SNMP_USER", u)
  /\ db' = SetEntry(db, "SNMP_USER", u, e)
del_user(u) == Has(db, "SNMP_USER", u) /\ db' = DelEntry(db, "SNMP_USER", u)

---------------------------------------------------------------------------
(* ntp, dns                                                                *)
add_ntp_server(s, association_type, options) ==
  /\ s \in Servers \/ association_type = "pool"
  /\ ~Has(db, "NTP_SERVER", s)
  /\ db' = SetEntry(db, "NTP_SERVER", s,
             IF association_type = "server" THEN options
             ELSE ("association_type" :> association_type) @@ options)
del_ntp_server(s) == Has(db, "NTP_SERVER", s) /\ db' = DelEntry(db, "NTP_SERVER", s)
to_ip_address(s) == s \notin SpecialAddrs
get_nameservers(d) == Keys(d, "DNS_NAMESERVER")
add_dns_nameserver(s) ==
  /\ to_ip_address(s) /\ s \notin get_nameservers(db)
  /\ Cardinality(get_nameservers(db)) < NameserversMaxNum
  /\ db' = SetEntry(db, "DNS_NAMESERVER", s, NoEntries)
del_dns_nameserver(s) ==
  to_ip_address(s) /\ s \in get_nameservers(db) /\ db' = DelEntry(db, "DNS_NAMESERVER", s)

---------------------------------------------------------------------------
(* console: the switch as a terminal server.                               *)
enable_console_switch == SetField("CONSOLE_SWITCH", "console_mgmt", "enabled", "yes")
disable_console_switch == SetField("CONSOLE_SWITCH", "console_mgmt", "enabled", "no")
update_console_heartbeat(x) == SetField("CONSOLE_SWITCH", "controlled_device", "enabled", x)
set_console_default_escape_char(x) ==
  IF x = "clear"
  THEN db' = IF Has(db, "CONSOLE_SWITCH", "console_mgmt")
             THEN WithoutField(db, "CONSOLE_SWITCH", "console_mgmt", "default_escape_char")
             ELSE SetEntry(db, "CONSOLE_SWITCH", "console_mgmt", NoEntries)
  ELSE SetField("CONSOLE_SWITCH", "console_mgmt", "default_escape_char", x)

isExistingSameDevice(d, device) ==
  \E l \in Keys(d, "CONSOLE_PORT") : Field(d, "CONSOLE_PORT", l, "remote_device", "") = device
add_console_setting(l, baud, flow, device, escape) ==
  /\ ~Has(db, "CONSOLE_PORT", l)
  /\ device # "" => ~isExistingSameDevice(db, device)
  /\ db' = SetEntry(db, "CONSOLE_PORT", l,
             [baud_rate |-> baud, flow_control |-> flow] @@ Options([remote_device |-> device, escape_char |-> escape]))
remove_console_setting(l) == Has(db, "CONSOLE_PORT", l) /\ db' = DelEntry(db, "CONSOLE_PORT", l)
update_console_remote_device_name(l, device) ==
  /\ Has(db, "CONSOLE_PORT", l)
  /\ IF device = "" THEN db' = WithoutField(db, "CONSOLE_PORT", l, "remote_device")
     ELSE ~isExistingSameDevice(db, device) /\ SetField("CONSOLE_PORT", l, "remote_device", device)
LineField(l, f, v) == Has(db, "CONSOLE_PORT", l) /\ SetField("CONSOLE_PORT", l, f, v)
update_console_baud(l, baud) == LineField(l, "baud_rate", baud)
update_console_flow_control(l, x) == LineField(l, "flow_control", x)
update_console_escape_char(l, x) ==
  IF x = "clear" THEN ClearField("CONSOLE_PORT", l, "escape_char") ELSE LineField(l, "escape_char", x)
\* The defaults fill only what the line has not set.
apply_default_logging_config(e, l) ==
  e @@ [log_file |-> <<"default_log_file", l>>, logrotate |-> "default"]
_set_console_logging_state(l, x) ==
  /\ Has(db, "CONSOLE_PORT", l)
  /\ LET e == db["CONSOLE_PORT"][l]
         filled == IF x = "yes" THEN apply_default_logging_config(e, l) ELSE e
     IN  db' = SetEntry(db, "CONSOLE_PORT", l, ("logging_enabled" :> x) @@ filled)
enable_console_logging(l) == _set_console_logging_state(l, "yes")
disable_console_logging(l) == _set_console_logging_state(l, "no")
validate_log_file_path(file) == file \notin BadSecrets
set_console_logging_filename(l, file, rotate) ==
  /\ validate_log_file_path(file) /\ Has(db, "CONSOLE_PORT", l)
  /\ db' = ModEntry(db, "CONSOLE_PORT", l, [log_file |-> <<file>>, logrotate |-> rotate])

---------------------------------------------------------------------------
(* ssh, serial_console, banner                                             *)
inactivity_timeout_ssh(n) == n \in 0..35000 /\ SetField("SSH_SERVER", "POLICIES", "inactivity_timeout", n)
max_sessions(n) == n \in 0..100 /\ SetField("SSH_SERVER", "POLICIES", "max_sessions", n)
sysrq_capabilities(x) == SetField("SERIAL_CONSOLE", "POLICIES", "sysrq_capabilities", x)
inactivity_timeout_serial(n) ==
  n \in 0..35000 /\ SetField("SERIAL_CONSOLE", "POLICIES", "inactivity_timeout", n)
banner_state(x) == SetField("BANNER_MESSAGE", "global", "state", x)
banner_message(which, text) == SetField("BANNER_MESSAGE", "global", which, text)

---------------------------------------------------------------------------
\* A device is reached over one console line, however lines are added,
\* renamed and removed: consutil finds a line by the name of its device and
\* takes the first it meets.
OneLinePerDevice ==
  \A l, m \in Keys(db, "CONSOLE_PORT") :
    (l # m /\ Field(db, "CONSOLE_PORT", l, "remote_device", "") # "")
      => Field(db, "CONSOLE_PORT", l, "remote_device", "") # Field(db, "CONSOLE_PORT", m, "remote_device", "")

\* Once a line's log is switched on it has a file and a rotation, also after
\* every later change of the line.
LoggedLineHasFile ==
  \A l \in Keys(db, "CONSOLE_PORT") :
    Field(db, "CONSOLE_PORT", l, "logging_enabled", "no") = "yes"
      => {"log_file", "logrotate"} \subseteq DOMAIN db["CONSOLE_PORT"][l]
===========================================================================
