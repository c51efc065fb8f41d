----------------------------- MODULE MuxCable -----------------------------
(* config muxcable and show muxcable.  Some commands write the             *)
(* configuration; most ask the daemon of the cables (ycabled, external)    *)
(* through tables: the command writes a request for a port, waits for the  *)
(* response of that port and reads the result.  A request carries no       *)
(* identity: the numbers below exist in the model only, to tell which      *)
(* request an answer belongs to.                                           *)
EXTENDS ConfigDb, SequencesExt

CONSTANTS
  Operators,      \* command lines open at the same time
  CablePorts,     \* the logical ports, in the order the platform lists them
  FirstPorts,     \* the ones that are the first of their physical port
  MaxRequests     \* bound on the requests of a behaviour

VARIABLES
  request,        \* <<channel, port>> -> the request there, and whether it was taken
  work,           \* requests the daemon has taken and not yet answered
  rsp, res,       \* <<channel, port>> -> response, and the result that goes with it
  cli,            \* what each operator's command is doing
  numRequests,    \* requests written so far
  abandoned       \* requests whose command no longer waits for them

muxVars == <<request, work, rsp, res, cli, numRequests, abandoned>>

MuxTables == {"MUX_CABLE", "MUX_CABLE_TABLE", "LINK_PROBE_STATS", "MUX_LINKMGR", "XCVRD_LOG"}
\* How a command ends: whether it is a show command, when it reads the
\* result, and whether it empties the tables afterwards.
Ending(show, reads, cleans) == [show |-> show, reads |-> reads, cleans |-> cleans]
NoCommand ==
  [pc |-> "idle", channel |-> "", todo |-> << >>, ending |-> Ending(FALSE, "never", TRUE), id |-> 0,
   events |-> << >>, batch |-> << >>, status |-> "unknown", from |-> 0, result |-> 0, alone |-> TRUE]
MuxInit ==
  /\ request = NoEntries /\ work = {} /\ rsp = NoEntries /\ res = NoEntries
  /\ cli = [s \in Operators |-> NoCommand] /\ numRequests = 0 /\ abandoned = {}

---------------------------------------------------------------------------
(* The tables.  A subscriber (SubscriberStateTable, external) is told of   *)
(* the keys that are written and deleted; it reads the values when it asks *)
(* for the news, all at once, and skips keys that have gone by then.       *)
OfChannel(f, ch) == {k \in DOMAIN f : k[1] = ch}
WithoutKeys(f, K) == [k \in DOMAIN f \ K |-> f[k]]
Without(f, ch) == WithoutKeys(f, OfChannel(f, ch))
Notify(C, ch, news) ==
  [s \in Operators |-> IF C[s].channel = ch /\ C[s].pc \in {"ask", "wait"}
                       THEN [C[s] EXCEPT !.events = @ \o news] ELSE C[s]]
Deletions(K) ==
  LET ks == SetToSeq(K) IN [n \in 1..Len(ks) |-> [port |-> ks[n][2], deleted |-> TRUE]]
\* What the subscribers hear when the responses of a channel are deleted.
delete_all_keys_in_db_table(C, ch) == Notify(C, ch, Deletions(OfChannel(rsp, ch)))

\* The lists of the numbers in K in increasing order: there is one.
Increasing(K) == {m \in SetToSeqs(K) : \A i, j \in DOMAIN m : i < j => m[i] < m[j]}
NoAnswer == [id |-> 0, status |-> ""]
Value(ch, e) ==
  [port |-> e.port, answer |-> IF e.deleted THEN NoAnswer ELSE rsp[<<ch, e.port>>]]
Read(events, ch) ==
  LET there == {n \in DOMAIN events : events[n].deleted \/ <<ch, events[n].port>> \in DOMAIN rsp}
  IN  {[i \in DOMAIN m |-> Value(ch, events[m[i]])] : m \in Increasing(there)}

---------------------------------------------------------------------------
(* A command empties its tables and then goes through its ports: for each  *)
(* it subscribes, writes the request and waits.                            *)
Begin(s, ch, ports, ending) ==
  /\ cli[s].pc = "idle" /\ ports # << >>
  /\ request' = Without(request, ch) /\ rsp' = Without(rsp, ch)
  /\ res' = IF ending.reads = "never" THEN res ELSE Without(res, ch)
  /\ LET told == delete_all_keys_in_db_table(cli, ch)
         crowd == {o \in Operators \ {s} : cli[o].pc # "idle" /\ cli[o].channel = ch}
     IN  cli' = [o \in Operators |->
                   IF o = s THEN [NoCommand EXCEPT !.pc = "subscribe", !.channel = ch, !.todo = ports,
                                              !.ending = ending, !.alone = (crowd = {})]
                   ELSE IF o \in crowd THEN [told[o] EXCEPT !.alone = FALSE] ELSE told[o]]
  /\ UNCHANGED <<work, numRequests, abandoned>>

PortOf(s) == Head(cli[s].todo)
GivenRequest(s) == [key |-> <<cli[s].channel, PortOf(s)>>, id |-> cli[s].id]
\* The subscriber starts with the responses that are there, which are then
\* deleted; a port the platform does not know ends here.
Subscribe(s) ==
  /\ cli[s].pc = "subscribe"
  /\ LET ch == cli[s].channel
         there == SetToSeq(OfChannel(rsp, ch))
         fresh == [cli[s] EXCEPT !.pc = "ask", !.status = "unknown", !.from = 0, !.result = 0,
                     !.batch = [n \in 1..Len(there) |-> [port |-> there[n][2], answer |-> rsp[there[n]]]],
                     !.events = Deletions(OfChannel(rsp, ch))]
         known == \E n \in 1..Len(CablePorts) : CablePorts[n] = PortOf(s)
     IN  /\ rsp' = Without(rsp, ch)
         /\ request' = IF cli[s].ending.show THEN Without(request, ch) ELSE request
         /\ cli' = [delete_all_keys_in_db_table(cli, ch) EXCEPT
                      ![s] = IF known THEN fresh
                             ELSE [cli[s] EXCEPT !.pc = "report", !.status = "unknown", !.from = 0]]
  /\ UNCHANGED <<work, res, numRequests, abandoned>>
Ask(s) ==
  /\ cli[s].pc = "ask" /\ numRequests < MaxRequests
  /\ numRequests' = numRequests + 1
  /\ request' = Put(request, <<cli[s].channel, PortOf(s)>>, [id |-> numRequests + 1, taken |-> FALSE])
  /\ cli' = [cli EXCEPT ![s].pc = "wait", ![s].id = numRequests + 1]
  /\ UNCHANGED <<work, rsp, res, abandoned>>

\* The news of the own port decides; news of another port is passed over,
\* but deletes the response of the own one.
Verdict(c, answer) ==
  [c EXCEPT !.pc = "report", !.events = << >>, !.batch = << >>, !.from = answer.id,
            !.status = IF answer = NoAnswer THEN "unknown" ELSE answer.status]
IsForAnyPort(news, port) == TRUE
IsForPort(news, port) == news = << >> \/ Head(news).port = port
update_and_get_response_for_xcvr_cmd(s) ==
  /\ cli[s].pc = "wait" /\ (cli[s].batch # << >> \/ cli[s].events # << >>)
  /\ LET c == cli[s]
         ch == c.channel
         cached == c.batch # << >>
     IN  \E news \in IF cached THEN {c.batch} ELSE Read(c.events, ch) :
         LET left == [c EXCEPT !.events = IF cached THEN @ ELSE << >>, !.batch = Tail(news)]
             own == {<<ch, PortOf(s)>>} \cap DOMAIN rsp
             done == Verdict(c, IF news = << >> THEN NoAnswer ELSE Head(news).answer)
         IN  IF IsForPort(news, PortOf(s))
             THEN /\ rsp' = Without(rsp, ch)
                  /\ request' = IF c.ending.show THEN Without(request, ch) ELSE request
                  /\ cli' = [delete_all_keys_in_db_table(cli, ch) EXCEPT ![s] = done]
                  /\ abandoned' = IF done.from = c.id THEN abandoned ELSE abandoned \cup {GivenRequest(s)}
             ELSE /\ rsp' = WithoutKeys(rsp, own)
                  /\ cli' = Notify([cli EXCEPT ![s] = left], ch, Deletions(own))
                  /\ UNCHANGED <<request, abandoned>>
  /\ UNCHANGED <<work, res, numRequests>>
\* The time is up, whatever has arrived: the command reports a failure.
TimeOut(s) ==
  /\ cli[s].pc = "wait"
  /\ cli' = [cli EXCEPT ![s] = Verdict(@, NoAnswer)]
  /\ abandoned' = abandoned \cup {GivenRequest(s)}
  /\ UNCHANGED <<request, work, rsp, res, numRequests>>

get_result(s) == LET k == <<cli[s].channel, PortOf(s)>> IN IF k \in DOMAIN res THEN res[k] ELSE 0
Report(s) ==
  /\ cli[s].pc = "report"
  /\ LET c == cli[s]
         ch == c.channel
         reads == c.ending.reads = "always" \/ (c.ending.reads = "good" /\ c.status = "True")
         reported == [c EXCEPT !.pc = "reported", !.result = IF reads THEN get_result(s) ELSE 0]
     IN  /\ res' = IF reads \/ (c.ending.cleans /\ c.ending.reads # "never") THEN Without(res, ch) ELSE res
         /\ IF c.ending.cleans
            THEN /\ request' = Without(request, ch) /\ rsp' = Without(rsp, ch)
                 /\ cli' = [delete_all_keys_in_db_table(cli, ch) EXCEPT ![s] = reported]
            ELSE UNCHANGED <<request, rsp>> /\ cli' = [cli EXCEPT ![s] = reported]
  /\ UNCHANGED <<work, numRequests, abandoned>>
NextPort(s) ==
  /\ cli[s].pc = "reported"
  /\ LET c == cli[s]
     IN  cli' = [cli EXCEPT ![s] = IF Len(c.todo) = 1 THEN NoCommand
                                   ELSE [c EXCEPT !.pc = "subscribe", !.todo = Tail(c.todo)]]
  /\ UNCHANGED <<request, work, rsp, res, numRequests, abandoned>>

---------------------------------------------------------------------------
(* The daemon: takes a request once, answers it at some time, or forgets   *)
(* it when it restarts.  The result is there before the response.          *)
Take(k) ==
  /\ ~request[k].taken
  /\ request' = [request EXCEPT ![k].taken = TRUE]
  /\ work' = work \cup {[key |-> k, id |-> request[k].id]}
  /\ UNCHANGED <<rsp, res, cli, numRequests, abandoned>>
Answer(w, status) ==
  /\ work' = work \ {w}
  /\ res' = Put(res, w.key, w.id)
  /\ rsp' = Put(rsp, w.key, [id |-> w.id, status |-> status])
  /\ cli' = Notify(cli, w.key[1], <<[port |-> w.key[2], deleted |-> FALSE]>>)
  /\ UNCHANGED <<request, numRequests, abandoned>>
DaemonRestart == work # {} /\ work' = {} /\ UNCHANGED <<request, rsp, res, cli, numRequests, abandoned>>

---------------------------------------------------------------------------
(* The commands.  Several share a channel, so that an answer to one may be *)
(* an answer to another.  A status of "True" stands for the expected one.  *)
AllCables == SelectSeq(CablePorts, LAMBDA p : p \in FirstPorts)
Configures == Ending(FALSE, "never", TRUE)
prbs_enable(s, p) == Begin(s, "CONFIG_PRBS", <<p>>, Configures)
prbs_disable(s, p) == Begin(s, "CONFIG_PRBS", <<p>>, Configures)
reset(s, p) == Begin(s, "CONFIG_PRBS", <<p>>, Configures)
set_anlt(s, p) == Begin(s, "CONFIG_PRBS", <<p>>, Configures)
set_fec(s, p) == Begin(s, "CONFIG_PRBS", <<p>>, Configures)
loopback_enable(s, p) == Begin(s, "CONFIG_LOOP", <<p>>, Configures)
loopback_disable(s, p) == Begin(s, "CONFIG_LOOP", <<p>>, Configures)
hwmode_state(s, ports) == Begin(s, "CONFIG_HWMODE_DIR", ports, Configures)
setswitchmode(s, ports) == Begin(s, "CONFIG_HWMODE_SWMODE", ports, Configures)
activate(s, ports) == Begin(s, "ACTI_FW", ports, Configures)
rollback(s, ports) == Begin(s, "ROLL_FW", ports, Configures)
download(s, p) == Begin(s, "DOWN_FW", <<p>>, Configures)
\* For all ports the call lacks arguments: it raises after the tables were
\* emptied.
download_all(s) ==
  /\ cli[s].pc = "idle"
  /\ request' = Without(request, "DOWN_FW") /\ rsp' = Without(rsp, "DOWN_FW")
  /\ cli' = delete_all_keys_in_db_table(cli, "DOWN_FW")
  /\ UNCHANGED <<work, res, numRequests, abandoned>>

ShowsResult == Ending(TRUE, "good", TRUE)
ShowsAndLeaves == Ending(TRUE, "good", FALSE)
berinfo(s, p) == Begin(s, "GET_BER", <<p>>, ShowsResult)
eyeinfo(s, p) == Begin(s, "GET_BER", <<p>>, ShowsResult)
fecstatistics(s, p) == Begin(s, "GET_BER", <<p>>, ShowsResult)
pcsstatistics(s, p) == Begin(s, "GET_BER", <<p>>, ShowsResult)
debugdumpregisters(s, p) == Begin(s, "GET_BER", <<p>>, ShowsResult)
alivecablestatus(s, p) == Begin(s, "GET_BER", <<p>>, ShowsResult)
queueinfo(s, p) == Begin(s, "GET_BER", <<p>>, ShowsAndLeaves)
health(s, p) == Begin(s, "GET_BER", <<p>>, ShowsAndLeaves)
resetcause(s, p) == Begin(s, "GET_BER", <<p>>, ShowsAndLeaves)
operationtime(s, p) == Begin(s, "GET_BER", <<p>>, ShowsAndLeaves)
get_fec_anlt_speed(s, p) == Begin(s, "GET_FEC", <<p>>, ShowsResult)
event_log(s, p) == Begin(s, "EVENT_LOG", <<p>>, ShowsResult)
version(s, p) == Begin(s, "SHOW_FW", <<p>>, ShowsResult)
check_port_in_mux_cable_table(p) == Has(db, "MUX_CABLE", p)
\* Of the ports of a list, those at the places K.
Those(ports, K) == {[i \in DOMAIN m |-> ports[m[i]]] : m \in Increasing(K)}
InMuxTable(ports) == {n \in DOMAIN ports : check_port_in_mux_cable_table(ports[n])}
switchmode(s, ports) ==
  \E asked \in Those(ports, InMuxTable(ports)) :
    Begin(s, "SHOW_HWMODE_SWMODE", asked, Ending(TRUE, "never", TRUE))
\* An active-active cable is read from the state database; the presence of
\* another is read whatever the response was.
ActiveStandby(p) == Field(db, "MUX_CABLE", p, "cable_type", "active-standby") = "active-standby"
get_hwmode_mux_direction_port(s, ports) ==
  \E asked \in Those(ports, {n \in InMuxTable(ports) : ActiveStandby(ports[n])}) :
    Begin(s, "SHOW_HWMODE_DIR", asked, Ending(TRUE, "always", TRUE))

---------------------------------------------------------------------------
(* The commands that write the configuration: an entry is written anew     *)
(* with the fields the command knows.                                      *)
get_value_for_key_in_config_tbl(p, f) == Has(db, "MUX_CABLE", p) /\ f \in DOMAIN db["MUX_CABLE"][p]
KnownFields == {"state", "server_ipv4", "server_ipv6", "soc_ipv4", "soc_ipv6", "cable_type", "prober_type",
                "neighbor_mode", "pck_loss_data_reset"}
Complete(p) == \A f \in {"state", "server_ipv4", "server_ipv6"} : get_value_for_key_in_config_tbl(p, f)
Rewritten(e, f, v) == (f :> v) @@ [g \in DOMAIN e \cap KnownFields |-> e[g]]
\* The ports are done in turn, the first that lacks a field ends the
\* command; the ones before it are written.
UpTo(ports) == {ports[n] : n \in {m \in 1..Len(ports) : \A i \in 1..m : Complete(ports[i])}}
UpdateMux(P, f, v) ==
  db' = [db EXCEPT !["MUX_CABLE"] = [p \in DOMAIN @ |-> IF p \in P THEN Rewritten(@[p], f, v) ELSE @[p]]]
lookup_statedb_and_update_configdb(P, state) ==
  UpdateMux({p \in P : db["MUX_CABLE"][p].state # state}, "state", state)
Stated(ports, t) == \A n \in 1..Len(ports) : Has(db, t, ports[n])
mode(state, ports) ==
  Stated(ports, "MUX_CABLE_TABLE") /\ lookup_statedb_and_update_configdb(UpTo(ports), state)
probertype(type, ports) ==
  Stated(ports, "MUX_CABLE_TABLE") /\ UpdateMux(UpTo(ports), "prober_type", type)
packetloss(ports) ==
  Stated(ports, "LINK_PROBE_STATS") /\ UpdateMux(UpTo(ports), "pck_loss_data_reset", "reset")
kill_radv(x) == db' = ModEntry(db, "MUX_LINKMGR", "SERVICE_MGMT", [kill_radv |-> x = "enable"])
telemetry(x) ==
  /\ Has(db, "XCVRD_LOG", "Y_CABLE") /\ "log_verbosity" \in DOMAIN db["XCVRD_LOG"]["Y_CABLE"]
  /\ db' = SetEntry(db, "XCVRD_LOG", "Y_CABLE",
             [log_verbosity |-> db["XCVRD_LOG"]["Y_CABLE"].log_verbosity, disable_telemetry |-> x = "disable"])
\* The timer is written for the link manager to see and the entry of before
\* written back; without one the table is left with no entry.
SuspendReset(P) == ModEntry(db, "MUX_LINKMGR", "LINK_PROBER", [reset_suspend_timer |-> P])
PutBack(d) ==
  IF Has(db, "MUX_LINKMGR", "LINK_PROBER")
  THEN SetEntry(d, "MUX_LINKMGR", "LINK_PROBER", db["MUX_LINKMGR"]["LINK_PROBER"])
  ELSE DelEntry(d, "MUX_LINKMGR", "LINK_PROBER")
reset_heartbeat_suspend(P) ==
  /\ P # {} /\ \A p \in P : Has(db, "MUX_CABLE", p) /\ ActiveStandby(p)
  /\ db' = PutBack(SuspendReset(P))

---------------------------------------------------------------------------
\* Any operators, with any names of ports, known or not: one, or all cables;
\* the configuration is what other commands make of it.
PortLists == {ports \in Seq(STRING) : IsInjective(ports)}
CableCommand(s) ==
  \/ \E p \in STRING :
       \/ prbs_enable(s, p) \/ prbs_disable(s, p) \/ reset(s, p) \/ set_anlt(s, p) \/ set_fec(s, p)
       \/ loopback_enable(s, p) \/ loopback_disable(s, p) \/ download(s, p)
       \/ berinfo(s, p) \/ eyeinfo(s, p) \/ fecstatistics(s, p) \/ pcsstatistics(s, p)
       \/ debugdumpregisters(s, p) \/ alivecablestatus(s, p)
       \/ queueinfo(s, p) \/ health(s, p) \/ resetcause(s, p) \/ operationtime(s, p)
       \/ get_fec_anlt_speed(s, p) \/ event_log(s, p) \/ version(s, p)
  \/ \E ports \in PortLists :
       \/ hwmode_state(s, ports) \/ setswitchmode(s, ports) \/ activate(s, ports) \/ rollback(s, ports)
       \/ switchmode(s, ports) \/ get_hwmode_mux_direction_port(s, ports)
  \/ download_all(s)
CablesNext ==
  \/ \E s \in Operators :
       \/ CableCommand(s) \/ Subscribe(s) \/ Ask(s) \/ update_and_get_response_for_xcvr_cmd(s)
       \/ TimeOut(s) \/ Report(s) \/ NextPort(s)
  \/ \E k \in DOMAIN request : Take(k)
  \/ \E w \in work, status \in {"True", "False"} : Answer(w, status)
  \/ DaemonRestart
CablesSpec == MuxInit /\ [][CablesNext]_muxVars

---------------------------------------------------------------------------
\* What a command reports comes from an answer for its own port and, unless
\* commands overlapped, either to its own request or to one that an earlier
\* command gave up: the port is all that ties an answer to a request.
OwnAnswer ==
  \A s \in Operators :
    (cli[s].pc = "reported" /\ cli[s].alone) =>
      LET of == {0, cli[s].id} \cup {a.id : a \in {b \in abandoned : b.key = GivenRequest(s).key}}
      IN  cli[s].from \in of /\ cli[s].result \in of
===========================================================================
