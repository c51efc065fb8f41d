--------------------------- MODULE ConfigReload ---------------------------
(* config reload, load, save, load_minigraph and override-config-table: a  *)
(* configuration goes from files to the databases of the host and of the   *)
(* ASICs, namespace after namespace, while the services are down.  A       *)
(* configuration is what it was made from (tags) and what it has: the      *)
(* system information, the HwSKU, the mark that it is initialised, the     *)
(* version of its schema.  A command may die between two steps.            *)
EXTENDS Naturals, Sequences, FiniteSets, SequencesExt

CONSTANTS
  Admins,        \* command lines
  NsOrder,    \* sequence: the host, then the ASICs
  NamedFiles,    \* file set given by name -> [namespace -> File]
  SingleFiles,   \* the names that stand for one file with all namespaces
  FirstFiles,    \* [namespace -> File] in /etc/sonic at first
  Golden,        \* [namespace -> File]: the golden configuration
  GoodGolden,    \* the namespaces whose overridden configuration is valid
  PortConfigFits,    \* port_config.json names ports of the switch only
  NoTag,
  MaxReloads,    \* bound on the commands given
  MaxDeaths      \* bound on commands that die

VARIABLES
  cfg,        \* namespace -> configuration in its database
  etc,        \* namespace -> File in /etc/sonic
  services,   \* [up, monitored, failed, ready]
  warmboot,   \* a warm or fast boot is in progress
  leftover,   \* state of transceivers and BGP peers from before the reload
  admin,      \* command line -> the steps to do
  flock,      \* the reload lock
  done,       \* tag of the last command, if it ended well and alone
  reloads, deaths
reloadVars ==
  <<cfg, etc, services, warmboot, leftover, admin, flock, done, reloads, deaths>>

NS == Range(NsOrder)
HostNs == NsOrder[1]
EmptyConfig == [tags |-> {}, sysinfo |-> FALSE, hwsku |-> FALSE, mark |-> FALSE, latest |-> FALSE,
                ports |-> FALSE]
IsConfig(c) == c = [tags |-> c.tags, sysinfo |-> c.sysinfo, hwsku |-> c.hwsku, mark |-> c.mark,
                    latest |-> c.latest, ports |-> c.ports]
(* The host and the ASICs are different namespaces; a file passes YANG only *)
(* if it is there, and golden configuration that is not there has no tag.  *)
ASSUME ReloadAssumption ==
  /\ NsOrder \in Seq(NS) /\ NsOrder # <<>> /\ IsInjective(NsOrder)
  /\ FirstFiles = [n \in NS |-> FirstFiles[n]] /\ {"minigraph", "golden"} \cap DOMAIN NamedFiles = {}
  /\ \A n \in NS :
       /\ FirstFiles[n].valid => FirstFiles[n].exists
       /\ \A name \in DOMAIN NamedFiles : NamedFiles[name][n].valid => NamedFiles[name][n].exists
       /\ ~Golden[n].exists => Golden[n].config.tags = {}
       /\ IsConfig(FirstFiles[n].config) /\ IsConfig(Golden[n].config)

(* A file: whether it exists, parses and passes YANG, and its configuration *)
NoSuchFile == [exists |-> FALSE, valid |-> FALSE, config |-> EmptyConfig]
Truncated == [exists |-> TRUE, valid |-> FALSE, config |-> EmptyConfig]
Readable(file) == file.exists /\ file # Truncated
IdleAdmin == [steps |-> <<>>, files |-> "", sysinfo |-> FALSE, now |-> FALSE, held |-> NoSuchFile,
              tag |-> NoTag, alone |-> TRUE]

ReloadInit ==
  /\ etc = FirstFiles /\ cfg = [n \in NS |-> [FirstFiles[n].config EXCEPT !.mark = TRUE]]
  /\ services = [up |-> TRUE, monitored |-> TRUE, failed |-> FALSE, ready |-> TRUE]
  /\ warmboot \in BOOLEAN /\ leftover = TRUE
  /\ admin = [a \in Admins |-> IdleAdmin] /\ flock = NoTag /\ done = NoTag
  /\ reloads = 0 /\ deaths = 0

FilesOf(name) == IF name = "default" THEN etc ELSE NamedFiles[name]
Reading(a, n) == FilesOf(admin[a].files)[n]

---------------------------------------------------------------------------
(* The parts of the commands                                               *)
load_sysinfo_if_missing(file) == ~file.config.sysinfo
flush_configdb(n) == [cfg EXCEPT ![n] = EmptyConfig]
multiasic_write_to_db(n, c) ==
  [cfg EXCEPT ![n].tags = @ \cup c.tags, ![n].sysinfo = @ \/ c.sysinfo, ![n].hwsku = @ \/ c.hwsku,
              ![n].latest = c.latest]
migrate_db_to_lastest(n) == [cfg EXCEPT ![n].latest = TRUE]
multiasic_validate_single_file(name) == \A n \in NS : NamedFiles[name][n].exists
config_file_yang_validation(name) == \A n \in NS : FilesOf(name)[n].valid
_swss_ready == services.ready
_is_system_starting == ~services.up
_stop_services == [services EXCEPT !.up = FALSE, !.monitored = FALSE, !.ready = FALSE]
_reset_failed_services == [services EXCEPT !.failed = FALSE]
_restart_services == [services EXCEPT !.up = TRUE, !.monitored = TRUE]

(* AAA with tacacs+ needs a passkey; the golden file has none that lacks it. *)
table_hard_dependency_check(file) == file.valid

(* Golden metadata without mac and platform takes those of the running     *)
(* configuration, or of the platform.                                      *)
HasMetadata(c) == c.sysinfo \/ c.hwsku
generate_sysinfo(golden) == IF HasMetadata(golden) THEN [golden EXCEPT !.sysinfo = TRUE] ELSE golden

(* The tables of the golden file are deleted, then written.                *)
delete_tables(n, golden) ==
  IF HasMetadata(golden) THEN [cfg EXCEPT ![n].sysinfo = FALSE, ![n].hwsku = FALSE] ELSE cfg
override_config_db(n, golden) ==
  [cfg EXCEPT ![n].tags = @ \cup golden.tags, ![n].sysinfo = @ \/ golden.sysinfo, ![n].hwsku = @ \/ golden.hwsku]

---------------------------------------------------------------------------
(* Commands                                                                *)
Running == {a \in Admins : admin[a].steps # <<>>}
\* The steps in each of the namespaces, one namespace after the other.
OnAll(Steps, ns) ==
  [i \in 1..(Len(Steps) * Len(ns)) |-> <<Steps[((i - 1) % Len(Steps)) + 1], ns[((i - 1) \div Len(Steps)) + 1]>>]
On(step) == << <<step, HostNs>> >>

\* Mutant: a lock that is held is taken over.
StartAnyway(a, files, sysinfo, tag, locked, steps) ==
  /\ admin[a] = IdleAdmin /\ reloads < MaxReloads /\ reloads' = reloads + 1
  /\ flock' = IF locked THEN a ELSE flock
  /\ admin' = [admin EXCEPT ![a] = [steps |-> steps, files |-> files, sysinfo |-> sysinfo, now |-> sysinfo,
                                    held |-> NoSuchFile, tag |-> tag, alone |-> TRUE]]
  /\ done' = NoTag
  /\ UNCHANGED <<cfg, etc, services, warmboot, leftover, deaths>>

(* A command that starts beside another spoils it, and the reverse: only   *)
(* commands without the lock can.                                          *)
StartCommand(a, files, sysinfo, tag, locked, steps) ==
  /\ admin[a] = IdleAdmin /\ reloads < MaxReloads /\ reloads' = reloads + 1
  /\ IF locked /\ flock # NoTag THEN UNCHANGED <<admin, flock, done>>
     ELSE /\ flock' = IF locked THEN a ELSE flock
          /\ admin' = [x \in Admins |->
               IF x = a THEN [steps |-> steps, files |-> files, sysinfo |-> sysinfo, now |-> sysinfo,
                              held |-> NoSuchFile, tag |-> tag, alone |-> Running = {}]
               ELSE IF x \in Running THEN [admin[x] EXCEPT !.alone = FALSE] ELSE admin[x]]
          /\ done' = NoTag
  /\ UNCHANGED <<cfg, etc, services, warmboot, leftover, deaths>>

(* reload: the checks come before anything is changed, except for what is  *)
(* read again in the loop over the namespaces.                             *)
NamespaceSteps(name) ==
  IF name \in SingleFiles THEN <<"check", "flush", "sysinfo", "write", "mark", "migrate">>
  ELSE <<"check", "flush", "forget", "sysinfo", "write", "mark", "migrate">>
reload(a, name, load_sysinfo, restart, force, bypass) ==
  /\ (~force /\ restart) => (~_is_system_starting /\ _swss_ready)
  /\ name \in SingleFiles => multiasic_validate_single_file(name)
  /\ (name # "default" \/ ~force) => config_file_yang_validation(name)
  /\ restart => ~warmboot
  /\ StartCommand(a, name, load_sysinfo, IF force THEN NoTag ELSE name, ~bypass,
       (IF restart THEN On("stop") ELSE <<>>) \o OnAll(NamespaceSteps(name), NsOrder) \o
       (IF restart THEN On("reset_failed") \o On("restart") ELSE <<>>))

(* load_minigraph: the ACL, QoS, watchdog, BGP and environment files that  *)
(* follow the minigraph change nothing the configuration is told by; the   *)
(* port_config file is one step, the version is set in every namespace.    *)
load_minigraph(a, restart, override, bypass) ==
  /\ override => \A n \in NS : Golden[n].exists => table_hard_dependency_check(Golden[n])
  /\ StartCommand(a, "minigraph", TRUE, IF override THEN "golden" ELSE "minigraph", ~bypass,
       (IF restart THEN On("forget") \o On("stop") ELSE <<>>) \o
       OnAll(<<"flush", "minigraph", "mark">>, NsOrder) \o
       On("port_config") \o OnAll(<<"set_version">>, NsOrder) \o
       (IF override THEN OnAll(<<"override", "apply">>, NsOrder) ELSE <<>>) \o
       On("platform_plugin") \o
       (IF restart THEN On("reset_failed") \o On("restart") ELSE <<>>))

(* Without the lock: each namespace is merged, none is flushed. *)
load(a, name) == StartCommand(a, name, FALSE, NoTag, FALSE, OnAll(<<"merge">>, NsOrder))

override_config_table(a) ==
  StartCommand(a, "golden", FALSE, NoTag, FALSE, OnAll(<<"override", "apply">>, NsOrder))

(* The shell empties the file before sonic-cfggen writes to it; it is read *)
(* back, emptied again and written in order.                               *)
save(a) ==
  StartCommand(a, "default", FALSE, NoTag, FALSE, OnAll(<<"truncate", "dump", "reopen", "sort">>, NsOrder))

load_mgmt_config(a) == StartCommand(a, "default", FALSE, NoTag, FALSE, On("mgmt"))

---------------------------------------------------------------------------
(* Steps                                                                   *)
StepName(a) == admin[a].steps[1][1]
StepAt(a) == admin[a].steps[1][2]
release_flock(a) == flock' = IF flock = a THEN NoTag ELSE flock

(* With no step left, the command has ended well. *)
GoOn(a, rest) ==
  IF rest # <<>>
  THEN admin' = [admin EXCEPT ![a].steps = rest] /\ UNCHANGED <<flock, done>>
  ELSE /\ admin' = [admin EXCEPT ![a] = IdleAdmin]
       /\ done' = IF admin[a].alone THEN admin[a].tag ELSE NoTag
       /\ release_flock(a)
Proceed(a) == GoOn(a, Tail(admin[a].steps))
Abort(a) == admin' = [admin EXCEPT ![a] = IdleAdmin] /\ release_flock(a) /\ UNCHANGED done
Unmoved == UNCHANGED <<warmboot, reloads, deaths>>

(* A file that is gone is skipped with its namespace; one that cannot be   *)
(* parsed ends the command.  Once a file lacks its system information it   *)
(* is loaded for this and all later namespaces; a single file is looked at *)
(* namespace by namespace.                                                 *)
CheckFile(a) ==
  LET n == StepAt(a)
      file == Reading(a, n)
      sys == admin[a].sysinfo \/ load_sysinfo_if_missing(file)
      rest == SubSeq(admin[a].steps, Len(NamespaceSteps(admin[a].files)) + 1, Len(admin[a].steps))
  IN /\ StepName(a) = "check"
     /\ IF ~file.exists THEN GoOn(a, rest)
        ELSE IF file = Truncated \/ (sys /\ ~file.config.hwsku) THEN Abort(a)
        ELSE /\ admin' = [admin EXCEPT ![a].steps = Tail(@), ![a].now = sys,
                                       ![a].sysinfo = IF admin[a].files \in SingleFiles THEN @ ELSE sys]
             /\ UNCHANGED <<flock, done>>
     /\ UNCHANGED <<cfg, etc, services, leftover>> /\ Unmoved

DbStepOf(a) ==
  LET n == StepAt(a) IN
  /\ cfg' = CASE StepName(a) = "flush" -> flush_configdb(n)
              [] StepName(a) = "sysinfo" -> IF admin[a].now THEN [cfg EXCEPT ![n].sysinfo = TRUE] ELSE cfg
              [] StepName(a) \in {"write", "merge"} -> multiasic_write_to_db(n, Reading(a, n).config)
              [] StepName(a) = "mark" -> [cfg EXCEPT ![n].mark = TRUE]
              [] StepName(a) \in {"migrate", "set_version"} -> migrate_db_to_lastest(n)
              [] StepName(a) = "minigraph" ->
                   multiasic_write_to_db(n, [EmptyConfig EXCEPT !.tags = {"minigraph"}, !.sysinfo = TRUE,
                                                    !.hwsku = TRUE])
              [] StepName(a) = "port_config" -> [cfg EXCEPT ![n].ports = PortConfigFits]
              [] StepName(a) = "mgmt" -> [cfg EXCEPT ![n].tags = @ \cup {"mgmt"}]
              [] StepName(a) = "apply" ->
                   IF Golden[n].exists THEN override_config_db(n, generate_sysinfo(Golden[n].config)) ELSE cfg
  /\ StepName(a) \in {"merge", "write"} => Readable(Reading(a, n))
  /\ Proceed(a)
  /\ UNCHANGED <<etc, services, leftover>> /\ Unmoved

(* load stops at the first file that does not exist; sonic-cfggen fails    *)
(* when the file it is given is gone or torn by now.                       *)
FileUnreadable(a) ==
  /\ StepName(a) \in {"merge", "write"} /\ ~Readable(Reading(a, StepAt(a)))
  /\ Abort(a)
  /\ UNCHANGED <<cfg, etc, services, leftover>> /\ Unmoved

delete_transceiver_tables(a) ==
  /\ StepName(a) = "forget" /\ leftover' = FALSE
  /\ Proceed(a)
  /\ UNCHANGED <<cfg, etc, services>> /\ Unmoved

ServiceStep(a) ==
  /\ services' = CASE StepName(a) = "stop" -> _stop_services
                   [] StepName(a) = "reset_failed" -> _reset_failed_services
                   [] StepName(a) = "restart" -> _restart_services
  /\ Proceed(a)
  /\ UNCHANGED <<cfg, etc, leftover>> /\ Unmoved

(* One namespace after the other: the first that is not valid ends the     *)
(* command, the ones before it are overridden.                             *)
OverrideStep(a) ==
  LET n == StepAt(a) IN
  /\ StepName(a) = "override"
  /\ IF ~Golden[n].exists /\ n # HostNs THEN Proceed(a) /\ UNCHANGED cfg
     ELSE IF ~Golden[n].exists \/ n \notin GoodGolden THEN Abort(a) /\ UNCHANGED cfg
     ELSE /\ cfg' = delete_tables(n, Golden[n].config)
          /\ Proceed(a)
  /\ UNCHANGED <<etc, services, leftover>> /\ Unmoved

(* A plug-in that fails ends load_minigraph with the services down. *)
PlatformPlugin(a) ==
  /\ StepName(a) = "platform_plugin"
  /\ Proceed(a) \/ Abort(a)
  /\ UNCHANGED <<cfg, etc, services, leftover>> /\ Unmoved

SaveStep(a) ==
  LET n == StepAt(a) IN
  /\ etc' = CASE StepName(a) \in {"truncate", "reopen"} -> [etc EXCEPT ![n] = Truncated]
              [] StepName(a) = "dump" -> [etc EXCEPT ![n] = [exists |-> TRUE, valid |-> TRUE, config |-> cfg[n]]]
              [] StepName(a) = "sort" -> [etc EXCEPT ![n] = admin[a].held]
  /\ IF StepName(a) = "reopen"
     THEN /\ etc[n] # Truncated /\ UNCHANGED <<flock, done>>
          /\ admin' = [admin EXCEPT ![a].steps = Tail(@), ![a].held = etc[n]]
     ELSE Proceed(a)
  /\ UNCHANGED <<cfg, services, leftover>> /\ Unmoved

(* Another save has emptied the file that is read back. *)
SaveStops(a) ==
  /\ StepName(a) = "reopen" /\ etc[StepAt(a)] = Truncated
  /\ Abort(a)
  /\ UNCHANGED <<cfg, etc, services, leftover>> /\ Unmoved

AdminStep(a) ==
  /\ admin[a].steps # <<>>
  /\ \/ CheckFile(a)
     \/ StepName(a) \in {"flush", "sysinfo", "write", "merge", "mark", "migrate", "set_version", "minigraph",
                     "port_config", "mgmt", "apply"} /\ DbStepOf(a)
     \/ FileUnreadable(a)
     \/ delete_transceiver_tables(a)
     \/ StepName(a) \in {"stop", "reset_failed", "restart"} /\ ServiceStep(a)
     \/ OverrideStep(a)
     \/ PlatformPlugin(a)
     \/ StepName(a) \in {"truncate", "dump", "reopen", "sort"} /\ SaveStep(a)
     \/ SaveStops(a)

(* A command of the command fails, or the process is killed: flock is freed. *)
Dies(a) ==
  /\ admin[a].steps # <<>> /\ deaths < MaxDeaths
  /\ deaths' = deaths + 1
  /\ Abort(a)
  /\ UNCHANGED <<cfg, etc, services, warmboot, leftover, reloads>>

SwssComesUp ==
  /\ services.up /\ ~services.ready
  /\ services' = [services EXCEPT !.ready = TRUE]
  /\ UNCHANGED <<cfg, etc, warmboot, leftover, admin, flock, done, reloads, deaths>>

WarmbootEnds ==
  /\ warmboot /\ warmboot' = FALSE
  /\ UNCHANGED <<cfg, etc, services, leftover, admin, flock, done, reloads, deaths>>

---------------------------------------------------------------------------
(* Any commands from any command line, with any files.                     *)
FileNames == {"default"} \cup DOMAIN NamedFiles
ReloadsNext ==
  \/ \E a \in Admins :
       \/ \E name \in FileNames, load_sysinfo, restart, force, bypass \in BOOLEAN :
            reload(a, name, load_sysinfo, restart, force, bypass)
       \/ \E restart, override, bypass \in BOOLEAN : load_minigraph(a, restart, override, bypass)
       \/ \E name \in FileNames : load(a, name)
       \/ override_config_table(a) \/ save(a) \/ load_mgmt_config(a)
       \/ AdminStep(a) \/ Dies(a)
  \/ SwssComesUp \/ WarmbootEnds
ReloadsSpec == ReloadInit /\ [][ReloadsNext]_reloadVars

---------------------------------------------------------------------------
\* The tables a database should hold after the last command that ended well.
SourceTags(n) ==
  CASE done = "minigraph" -> {"minigraph"}
    [] done = "golden" -> {"minigraph"} \cup Golden[n].config.tags
    [] OTHER -> FilesOf(done)[n].config.tags

(* Hazard: commands that die or are refused in the middle, and another     *)
(* command line at the same time.  When a reload (not forced) or a         *)
(* load_minigraph has ended well and nothing without the lock ran beside   *)
(* it, every database holds that source and nothing else, with its system  *)
(* information, its mark and the latest schema.                            *)
ReloadIsWhole ==
  done # NoTag =>
    \A n \in NS :
      /\ cfg[n].tags = SourceTags(n)
      /\ cfg[n].sysinfo /\ cfg[n].mark /\ cfg[n].latest
===========================================================================
