-------------------------- MODULE PackageManager --------------------------
(***************************************************************************)
(* The SONiC package manager (sonic_package_manager/): a package is an     *)
(* image of docker, a service (unit files, scripts, YANG modules, initial  *)
(* configuration), a row of FEATURE, a place in the order in which         *)
(* services shut down, and plug-ins of the command line.  Every command is *)
(* a process: it reads packages.json when it starts, takes a file lock     *)
(* that it does not wait for, checks, runs its steps one after the other,  *)
(* each of which can fail, and commits its copy of packages.json.  Install *)
(* and upgrade push an undo for each step done and run them in the reverse *)
(* order when a step fails; uninstall has no undo.                         *)
(*                                                                         *)
(* A package object is a pair <<name, version>>; what its manifest says is *)
(* a constant.  The service has the name of the package.                   *)
(***************************************************************************)
EXTENDS Naturals, FiniteSets, Sequences

CONSTANTS
  Names, Versions,    \* versions are numbers; 0 stands for none
  Clients,            \* processes of sonic-package-manager
  BuiltIn,            \* names of packages that are part of the system
  Known,              \* names that packages.json lists at the start
  Earlier,            \* names installed before, with a manifest file
  DefaultVersion,     \* name -> version of the default reference, or 0
  ImageOf,            \* package -> image
  Depends, Breaks,    \* package -> set of [name, versions, components]
  Components,         \* package -> set of <<component, version>>
  BaseOs,             \* packages the versions of the base system allow
  Plugins,            \* package -> number of plug-in files
  MandatoryCli,       \* packages whose plug-ins cannot be skipped
  Asic,               \* packages with a service per ASIC
  DebugDump,          \* packages with a debug dump
  Yang,               \* packages with YANG modules, and configuration
  AutoCli,            \* packages whose command line is generated from them
  DependentOf,        \* package -> names of services it depends on
  After, Before,      \* reboot type -> package -> names of services
  OldPackages,        \* name -> version installed in the image migrated from
  Forcing,              \* values of the option --force
  MaxFaults,          \* bound: steps that fail, rollbacks that fail, kills
  MaxCommands         \* bound: commands started

Packages == Names \X Versions
NoClient == "none"

ASSUME PackageAssumption ==
  /\ BuiltIn \cup Earlier \subseteq Known /\ BuiltIn \cap Earlier = {} /\ Known \subseteq Names
  /\ Versions \subseteq Nat \ {0} /\ 1 \in Versions /\ Forcing \subseteq BOOLEAN
  /\ MaxFaults \in Nat /\ MaxCommands \in Nat /\ NoClient \notin Clients
  /\ DefaultVersion \in [Names -> Versions \cup {0}]
  /\ DOMAIN OldPackages \subseteq Names /\ \A n \in DOMAIN OldPackages : OldPackages[n] \in Versions

VARIABLES
  file,       \* packages.json: name -> entry
  sys,        \* images, services, features, plug-ins, orders, running, config
  lock,       \* the holder of the lock file
  client,     \* the processes
  manifests,  \* names with a manifest file
  edits,      \* names with a manifest file being edited
  faults,     \* number of faults so far
  commands,   \* number of commands started
  suspect,    \* history: names of which an operation was torn
  unchecked   \* history: a commit ignored a failed check or a newer file

packageVars == <<file, sys, lock, client, manifests, edits, faults, commands,
                 suspect, unchecked>>

PackageEntry(default) ==
  [installed |-> FALSE, version |-> 0, image |-> "None", default |-> default]

InstalledEntry(n) ==
  [installed |-> TRUE, version |-> 1, image |-> ImageOf[<<n, 1>>],
   default |-> DefaultVersion[n]]

Idle == [pc |-> "idle", db |-> <<>>, name |-> NoClient, entry |-> <<>>,
         todo |-> <<>>, undo |-> <<>>, more |-> {}, ignored |-> FALSE,
         edit |-> FALSE, rollback |-> FALSE]

(* What creating a service makes of a package: files, each in its version, *)
(* and lines in lists that services share.                                 *)
GeneratedFiles(p) ==
  {"container", "service", "systemd"} \cup (IF p \in Asic THEN {"systemd@"} ELSE {})

DumpAndReconcile(p) ==
  {"reconcile"} \cup (IF p \in DebugDump THEN {"dump"} ELSE {})

YangParts(p) ==
  {<<f, p[2]>> : f \in {x \in {"yang", "cli"} :
                          p \in Yang /\ (x = "cli" => p \in AutoCli)}}

Made(p) ==
  {<<f, p[2]>> : f \in GeneratedFiles(p) \cup DumpAndReconcile(p)} \cup YangParts(p)

Listed(p) ==
  {<<"generated_services", p[1]>>} \cup {<<m, p[1]>> : m \in DependentOf[p]}

PluginFiles(p, k) == {<<p[1], i, p[2]>> : i \in 1..k}

PackagesInit ==
  LET there == BuiltIn \cup Earlier IN
  /\ file = [n \in Known |-> IF n \in there THEN InstalledEntry(n)
                             ELSE PackageEntry(DefaultVersion[n])]
  /\ sys = [images |-> {ImageOf[<<n, 1>>] : n \in there},
            files |-> [n \in Names |-> IF n \in there THEN Made(<<n, 1>>)
                                       ELSE {}],
            lists |-> UNION {Listed(<<n, 1>>) : n \in there},
            features |-> [n \in Names |->
                            IF n \in BuiltIn THEN "enabled"
                            ELSE IF n \in Earlier THEN "disabled" ELSE "none"],
            plugins |-> UNION {PluginFiles(<<n, 1>>, Plugins[<<n, 1>>]) :
                                 n \in there},
            order |-> [t \in {"fast", "warm"} |-> {<<n, 1>> : n \in there}],
            up |-> BuiltIn,
            config |-> {n \in there : <<n, 1>> \in Yang}]
  /\ lock = NoClient
  /\ client = [c \in Clients |-> Idle]
  /\ manifests = Earlier /\ edits = {}
  /\ faults = 0 /\ commands = 0 /\ suspect = {} /\ unchecked = FALSE

-----------------------------------------------------------------------------
(* What the process sees of its copy of packages.json.                     *)
has_package(db, n) == n \in DOMAIN db

is_installed(db, n) == has_package(db, n) /\ db[n].installed

(* The manifest of an installed package is read from the labels of its     *)
(* image, so an image that is gone raises.                                 *)
get_installed_package(db, n) == <<n, db[n].version>>

CanRead(db, n) == is_installed(db, n) /\ db[n].image \in sys.images

Installed(db) == {n \in DOMAIN db : db[n].installed}

get_installed_packages(db) ==
  {get_installed_package(db, n) : n \in Installed(db)}

AllReadable(db) == \A n \in Installed(db) : CanRead(db, n)

(* A mutated version: the package itself is not in the set.                *)
_get_installed_packages_only(db, p) == get_installed_packages(db)

_get_installed_packages_and(db, p) ==
  {q \in get_installed_packages(db) : q[1] # p[1]} \cup {p}

_get_installed_packages_except(db, p) ==
  {q \in get_installed_packages(db) : q[1] # p[1]}

add_package(db, n, default) ==
  [m \in DOMAIN db \cup {n} |-> IF m = n THEN PackageEntry(default)
                                ELSE db[m]]

-----------------------------------------------------------------------------
(* Checks.                                                                 *)
validate_package_base_os_constraints(p) == p \in BaseOs

(* ^major.minor.0, with a version written as 10 * major + minor.           *)
Allows(x, y) == y \div 10 = x \div 10 /\ y >= x

(* A dependency that names no components asks for those of the package     *)
(* itself.                                                                 *)
DependencyComponents(p, d) ==
  IF d.components # {} THEN d.components ELSE Components[p]

(* Comparing the components of a conflicting package asks a version for    *)
(* what only a constraint has: it raises as soon as there is a component.  *)
validate_package_tree(S) ==
  \A p \in S :
    /\ \A d \in Depends[p] :
         \E q \in S :
           /\ q[1] = d.name /\ q[2] \in d.versions
           /\ \A x \in DependencyComponents(p, d) :
                \E y \in Components[q] : y[1] = x[1] /\ Allows(x[2], y[2])
    /\ \A b \in Breaks[p] : \A q \in S :
         q[1] = b.name => q[2] \notin b.versions /\ Components[q] = {}

(* The packages that are there at the start fit together.                  *)
ASSUME StartAssumption == validate_package_tree({<<n, 1>> : n \in BuiltIn \cup Earlier})

validate_package_cli_can_be_skipped(p, skip) == ~(p \in MandatoryCli /\ skip)

(* Who is stopped before whom: the services of the packages S that their   *)
(* manifests order.                                                        *)
shutdown_graph(t, S) ==
  LET there == {q[1] : q \in S} IN
  UNION {{<<a, p[1]>> : a \in After[t][p] \cap there} : p \in S}
    \cup UNION {{<<p[1], b>> : b \in Before[t][p] \cap there} : p \in S}

(* A topological order exists: every set of services has one to begin with.*)
get_shutdown_sequence(t, S) ==
  LET G == shutdown_graph(t, S) IN
  \A N \in SUBSET {q[1] : q \in S} :
    N # {} => \E n \in N : \A m \in N : <<m, n>> \notin G

-----------------------------------------------------------------------------
(* The steps: what each one does to the system.                            *)
Step(do, p, opt, undo) == [do |-> do, pkg |-> p, opt |-> opt, undo |-> undo]

(* Values that are there already are kept.                                 *)
set_initial_config(config, p) ==
  IF p \in Yang THEN config \cup {p[1]} ELSE config

remove_config(config, p) == IF p \in Yang THEN config \ {p[1]} ELSE config

RegisterFeature(current, state) == IF current = "none" THEN state ELSE current

create(s, p, register, state) ==
  LET n == p[1] IN
  [s EXCEPT !.files[n] = {f \in @ : f[1] \notin {g[1] : g \in Made(p)}}
                           \cup Made(p),
            !.lists = @ \cup Listed(p),
            !.config = set_initial_config(@, p),
            !.features[n] = IF register THEN RegisterFeature(@, state) ELSE @]

(* The files have fixed names, but the YANG modules and the lists are those*)
(* of the manifest of the package that is removed.                         *)
remove(s, p, deregister, keep) ==
  LET n == p[1] IN
  [s EXCEPT !.files[n] = {f \in @ : f[1] \in {"yang", "cli"}} \ YangParts(p),
            !.lists = @ \ Listed(p),
            !.config = IF deregister /\ ~keep THEN remove_config(@, p) ELSE @,
            !.features[n] = IF deregister THEN "none" ELSE @]

WithoutFiles(files, p, k) == {f \in files : f[1] # p[1] \/ f[2] > k}

_install_cli_plugins(s, p, k) ==
  [s EXCEPT !.plugins = WithoutFiles(@, p, k) \cup PluginFiles(p, k)]

_uninstall_cli_plugins(s, p, k) == [s EXCEPT !.plugins = WithoutFiles(@, p, k)]

generate_shutdown_sequence_files(s, S) ==
  [s EXCEPT !.order = [t \in DOMAIN s.order |-> S]]

feature_update(s, p) ==
  [s EXCEPT !.features[p[1]] = IF @ = "none" THEN "disabled" ELSE @]

_start_feature(s, p) == [s EXCEPT !.up = @ \cup {p[1]}]

_stop_feature(s, p) == [s EXCEPT !.up = @ \ {p[1]}]

_disable_feature(s, p) ==
  [s EXCEPT !.features[p[1]] = "disabled", !.up = @ \ {p[1]}]

remove_unused_docker_image(s, p, db) ==
  IF \E m \in DOMAIN db : m # p[1] /\ db[m].image = ImageOf[p] THEN s
  ELSE [s EXCEPT !.images = @ \ {ImageOf[p]}]

Effect(s, x, db) ==
  CASE x.do = "source.install" ->
         [s EXCEPT !.images = @ \cup {ImageOf[x.pkg]}]
    [] x.do = "source.uninstall" ->
         [s EXCEPT !.images = @ \ {ImageOf[x.pkg]}]
    [] x.do = "create" -> create(s, x.pkg, TRUE, x.opt)
    [] x.do = "recreate" -> create(s, x.pkg, FALSE, "disabled")
    [] x.do = "remove" -> remove(s, x.pkg, TRUE, x.opt)
    [] x.do = "unmake" -> remove(s, x.pkg, FALSE, FALSE)
    [] x.do = "order" -> generate_shutdown_sequence_files(s, x.opt)
    [] x.do = "plugins" -> _install_cli_plugins(s, x.pkg, Plugins[x.pkg])
    [] x.do = "unplug" -> _uninstall_cli_plugins(s, x.pkg, Plugins[x.pkg])
    [] x.do = "update" -> feature_update(s, x.pkg)
    [] x.do = "start" -> _start_feature(s, x.pkg)
    [] x.do = "stop" -> _stop_feature(s, x.pkg)
    [] x.do = "disable" -> _disable_feature(s, x.pkg)
    [] x.do = "rmi" -> remove_unused_docker_image(s, x.pkg, db)
    [] OTHER -> s                                \* rm_by_ancestor

(* A step that cannot succeed: services ordered in a circle, a feature     *)
(* that is not in the table.                                               *)
Possible(s, x) ==
  /\ x.do = "order" =>
       \A t \in DOMAIN s.order : get_shutdown_sequence(t, x.opt)
  /\ x.do = "disable" => s.features[x.pkg[1]] # "none"

(* What a step that raises may leave behind.  Creating a service removes   *)
(* what it made, with the configuration of the package; the others stop    *)
(* half way.                                                               *)
FailedEffects(s, x) ==
  CASE x.do = "create" -> {remove(s, x.pkg, TRUE, FALSE)}
    [] x.do = "recreate" -> {remove(s, x.pkg, FALSE, FALSE)}
    [] x.do = "order" ->
         {s} \cup (IF get_shutdown_sequence("fast", x.opt)
                   THEN {[s EXCEPT !.order["fast"] = x.opt]} ELSE {})
    [] x.do = "plugins" ->
         {_install_cli_plugins(s, x.pkg, k) : k \in 0..(Plugins[x.pkg] - 1)}
           \cup {s}
    [] x.do = "unplug" ->
         {_uninstall_cli_plugins(s, x.pkg, k) : k \in 0..(Plugins[x.pkg] - 1)}
           \cup {s}
    [] x.do = "start" -> {s, _start_feature(s, x.pkg)}
    [] x.do = "stop" -> {s, _stop_feature(s, x.pkg)}
    [] OTHER -> {s}

(* A mutated version: the service is not taken back.                       *)
InstallStepsKeepService(db, p, state, skip) ==
  <<Step("source.install", p, "", <<Step("source.uninstall", p, "", <<>>)>>),
    Step("create", p, state, <<>>),
    Step("order", p, _get_installed_packages_and(db, p), <<>>)>>
  \o IF skip THEN <<>>
     ELSE <<Step("plugins", p, "", <<Step("unplug", p, "", <<>>)>>)>>

InstallSteps(db, p, state, skip) ==
  <<Step("source.install", p, "", <<Step("source.uninstall", p, "", <<>>)>>),
    Step("create", p, state, <<Step("remove", p, FALSE, <<>>)>>),
    Step("order", p, _get_installed_packages_and(db, p),
         <<Step("order", p, get_installed_packages(db), <<>>)>>)>>
  \o IF skip THEN <<>>
     ELSE <<Step("plugins", p, "", <<Step("unplug", p, "", <<>>)>>)>>

(* The undo of the last step lacks an argument: it always fails.           *)
UpgradeSteps(s, db, old, new, update_only, skip) ==
  LET enabled == s.features[old[1]] = "enabled" IN
  <<Step("unplug", old, "", <<Step("plugins", old, "", <<>>)>>)>>
  \o (IF update_only THEN <<>>
      ELSE <<Step("source.install", new, "",
                  <<Step("source.uninstall", new, "", <<>>)>>)>>)
  \o (IF enabled THEN <<Step("stop", old, "", <<Step("start", old, "", <<>>)>>)>>
      ELSE <<>>)
  \o <<Step("unmake", old, "", <<Step("recreate", old, "", <<>>)>>),
       Step("rm", old, "", <<>>),
       Step("recreate", new, "", <<Step("unmake", new, "", <<>>)>>),
       Step("order", new, _get_installed_packages_and(db, new),
            <<Step("order", old, _get_installed_packages_and(db, old), <<>>)>>),
       Step("update", new, "", <<Step("update", old, "", <<>>)>>)>>
  \o (IF enabled THEN <<Step("start", new, "", <<Step("stop", new, "", <<>>)>>)>>
      ELSE <<>>)
  \o (IF skip THEN <<>>
      ELSE <<Step("plugins", new, "", <<Step("missing", new, "", <<>>)>>)>>)
  \o (IF ImageOf[old] = ImageOf[new] THEN <<>>
      ELSE <<Step("rmi", old, "", <<>>)>>)

UninstallSteps(db, p, keep) ==
  <<Step("disable", p, "", <<>>), Step("unplug", p, "", <<>>),
    Step("remove", p, keep, <<>>),
    Step("order", p, _get_installed_packages_except(db, p), <<>>),
    Step("rm", p, "", <<>>), Step("rmi", p, "", <<>>)>>

-----------------------------------------------------------------------------
(* Commands.                                                               *)
get_manager(c) ==
  /\ client[c].pc = "idle" /\ commands < MaxCommands
  /\ client' = [client EXCEPT ![c] = [Idle EXCEPT !.pc = "ready", !.db = file]]
  /\ commands' = commands + 1
  /\ UNCHANGED <<file, sys, lock, manifests, edits, faults, suspect, unchecked>>

(* The command ends without a change: the lock is taken, or a check raises.*)
Refused(c) ==
  /\ client[c].pc = "ready"
  /\ client' = [client EXCEPT ![c] = Idle]
  /\ UNCHANGED <<file, sys, lock, manifests, edits, faults, suspect, unchecked>>

(* The lock is not waited for.                                             *)
under_lock(c) == client[c].pc = "ready" /\ lock = NoClient /\ lock' = c

Begin(c, from, n, entry, steps, ignored, edit, rollback) ==
  /\ client' = [client EXCEPT ![c] =
       [from EXCEPT !.pc = "run", !.name = n, !.entry = entry, !.todo = steps,
                    !.undo = <<>>, !.ignored = ignored, !.edit = edit,
                    !.rollback = rollback]]
  /\ UNCHANGED <<file, sys, manifests, edits, faults, suspect, unchecked>>

(* Only an image pulled from a registry gives the entry a default.         *)
install_image(default, p, registry) ==
  IF registry /\ default = 0 THEN p[2] ELSE default

(* Ignoring a failed check is what --force does.                           *)
failure_ignore(force, check) == force \/ check

install_from_source(c, from, p, registry, state, skip, force) ==
  LET db == from.db
      check == /\ validate_package_base_os_constraints(p)
               /\ validate_package_tree(_get_installed_packages_and(db, p))
               /\ validate_package_cli_can_be_skipped(p, skip)
      known == IF has_package(db, p[1]) THEN db ELSE add_package(db, p[1], 0)
      entry == [known[p[1]] EXCEPT !.installed = TRUE, !.version = p[2],
                                   !.image = ImageOf[p],
                                   !.default = install_image(@, p, registry)]
  IN /\ ~is_installed(db, p[1])
     /\ AllReadable(db)
     /\ failure_ignore(force, check)
     /\ Begin(c, [from EXCEPT !.db = known], p[1], entry,
              InstallSteps(db, p, state, skip), ~check, FALSE, TRUE)

upgrade_from_source(c, from, p, registry, update_only, skip, downgrade, force) ==
  LET db == from.db
      n == p[1]
      old == get_installed_package(db, n)
      wanted == update_only \/ (p[2] # old[2] /\ (p[2] > old[2] \/ downgrade))
      check == /\ wanted
               /\ validate_package_base_os_constraints(p)
               /\ validate_package_tree(_get_installed_packages_and(db, p))
               /\ validate_package_cli_can_be_skipped(p, skip)
  IN /\ CanRead(db, n) /\ n \notin BuiltIn
     /\ AllReadable(db)
     /\ failure_ignore(force, check)
     /\ Begin(c, from, n,
              [db[n] EXCEPT !.version = p[2],
                            !.image = IF update_only THEN @ ELSE ImageOf[p],
                            !.default = install_image(@, p, registry)],
              UpgradeSteps(sys, db, old, p, update_only, skip), ~check,
              update_only, TRUE)

install(c, p, registry, enable, skip, downgrade, force) ==
  /\ under_lock(c)
  /\ IF is_installed(client[c].db, p[1])
     THEN ~enable /\ upgrade_from_source(c, client[c], p, registry, FALSE,
                                         skip, downgrade, force)
     ELSE ~downgrade /\ install_from_source(c, client[c], p, registry,
            IF enable THEN "enabled" ELSE "disabled", skip, force)

update(c, n, skip, force) ==
  /\ under_lock(c)
  /\ is_installed(client[c].db, n) /\ n \in edits
  /\ upgrade_from_source(c, client[c], get_installed_package(client[c].db, n),
                         FALSE, TRUE, skip, FALSE, force)

reset(c, n, skip, force) ==
  LET db == client[c].db IN
  /\ under_lock(c)
  /\ CanRead(db, n) /\ db[n].default # 0
  /\ upgrade_from_source(c, client[c], <<n, db[n].default>>, TRUE, FALSE, skip,
                         TRUE, force)

uninstall(c, n, keep, force) ==
  LET db == client[c].db
      p == get_installed_package(db, n)
      check == /\ sys.features[n] # "enabled"
               /\ validate_package_tree(_get_installed_packages_except(db, p))
  IN /\ under_lock(c)
     /\ CanRead(db, n) /\ n \notin BuiltIn
     /\ AllReadable(db)
     /\ failure_ignore(force, check)
     /\ Begin(c, client[c], n,
              [db[n] EXCEPT !.installed = FALSE, !.version = 0,
                            !.image = "None"],
              UninstallSteps(db, p, keep), ~check, FALSE, FALSE)

(* A commit replaces the whole file: entries that another process has      *)
(* changed since this one read it are lost.                                *)
Lost(db) ==
  {m \in DOMAIN db \cup DOMAIN file :
     /\ is_installed(file, m) \/ is_installed(db, m)
     /\ ~(m \in DOMAIN db /\ m \in DOMAIN file /\ db[m] = file[m])}

Commit(c, db) ==
  LET lost == Lost(client[c].db) IN
  /\ file' = db
  /\ suspect' = suspect \cup lost
  /\ unchecked' = (unchecked \/ client[c].ignored \/ lost # {})

add_repository(c, n, default) ==
  LET db == client[c].db IN
  /\ client[c].pc = "ready" /\ lock = NoClient
  /\ ~has_package(db, n)
  /\ Commit(c, add_package(db, n, default))
  /\ client' = [client EXCEPT ![c] = Idle]
  /\ UNCHANGED <<sys, lock, manifests, edits, faults>>

remove_repository(c, n) ==
  LET db == client[c].db IN
  /\ client[c].pc = "ready" /\ lock = NoClient
  /\ has_package(db, n) /\ n \notin BuiltIn /\ ~db[n].installed
  /\ Commit(c, [m \in DOMAIN db \ {n} |-> db[m]])
  /\ client' = [client EXCEPT ![c] = Idle]
  /\ UNCHANGED <<sys, lock, manifests, edits, faults>>

(* After a command, or between two packages of a migration.                *)
Rest(me, db) ==
  IF me.more = {} THEN Idle
  ELSE [Idle EXCEPT !.pc = "migrate", !.db = db, !.more = me.more]

Free(c, me) == lock' = IF me.pc = "idle" THEN NoClient ELSE c

CommandStep(c) ==
  LET me == client[c]
      x == Head(me.todo)
  IN /\ me.pc = "run" /\ me.todo # <<>>
     /\ Possible(sys, x)
     /\ sys' = Effect(sys, x, me.db)
     /\ client' = [client EXCEPT ![c].todo = Tail(@), ![c].undo = x.undo \o @]
     /\ UNCHANGED <<file, lock, manifests, edits, faults, suspect, unchecked>>

(* update_package, commit; an update renames the edited manifest, and      *)
(* uninstall deletes the manifest files.                                   *)
Finish(c) ==
  LET me == client[c]
      n == me.name
      db == [me.db EXCEPT ![n] = me.entry]
  IN /\ me.pc = "run" /\ me.todo = <<>>
     /\ Commit(c, db)
     /\ client' = [client EXCEPT ![c] = Rest(me, db)]
     /\ Free(c, Rest(me, db))
     /\ manifests' = IF me.edit THEN manifests \cup {n}
                     ELSE IF me.rollback THEN manifests ELSE manifests \ {n}
     /\ edits' = IF me.edit \/ ~me.rollback THEN edits \ {n} ELSE edits
     /\ UNCHANGED <<sys, faults>>

(* The undo brings back what there was unless there is none, the file has  *)
(* changed since it was read, or a forced upgrade to the version installed *)
(* removes the image that it found there.                                  *)
CanUndo(me) ==
  /\ me.rollback
  /\ me.name \notin Lost(me.db)
  /\ me.edit \/ me.entry.image # me.db[me.name].image

(* A step raises: the undo stack is run when there is one.                 *)
StepFails(c) ==
  LET me == client[c]
      x == Head(me.todo)
  IN /\ me.pc = "run" /\ me.todo # <<>>
     /\ Possible(sys, x) => faults < MaxFaults
     /\ faults' = IF Possible(sys, x) THEN faults + 1 ELSE faults
     /\ sys' \in FailedEffects(sys, x)
     /\ client' = [client EXCEPT ![c].pc = "undo",
                                 ![c].undo = IF me.rollback THEN @ ELSE <<>>]
     /\ suspect' = IF CanUndo(me) THEN suspect ELSE suspect \cup {me.name}
     /\ UNCHANGED <<file, lock, manifests, edits, unchecked>>

(* An undo that raises is logged, and the next one is run.                 *)
rollback(c) ==
  LET me == client[c]
      x == Head(me.undo)
  IN /\ me.pc = "undo" /\ me.undo # <<>>
     /\ client' = [client EXCEPT ![c].undo = Tail(@)]
     /\ \/ /\ x.do # "missing" /\ Possible(sys, x)
           /\ sys' = Effect(sys, x, me.db)
           /\ UNCHANGED <<faults, suspect>>
        \/ /\ x.do # "missing"
           /\ Possible(sys, x) => faults < MaxFaults
           /\ faults' = IF Possible(sys, x) THEN faults + 1 ELSE faults
           /\ sys' \in FailedEffects(sys, x)
           /\ suspect' = suspect \cup {me.name}
        \/ /\ x.do = "missing"
           /\ UNCHANGED <<sys, faults, suspect>>
     /\ UNCHANGED <<file, lock, manifests, edits, unchecked>>

(* A migration ends with the first package that fails.                     *)
Failed(c) ==
  /\ client[c].pc = "undo" /\ client[c].undo = <<>>
  /\ client' = [client EXCEPT ![c] = Idle]
  /\ lock' = NoClient
  /\ UNCHANGED <<file, sys, manifests, edits, faults, suspect, unchecked>>

(* The process dies: its lock goes with it, nothing is undone.             *)
Killed(c) ==
  /\ client[c].pc \in {"run", "undo"} /\ faults < MaxFaults
  /\ client' = [client EXCEPT ![c] = Idle]
  /\ lock' = NoClient
  /\ faults' = faults + 1
  /\ suspect' = suspect \cup {client[c].name}
  /\ UNCHANGED <<file, sys, manifests, edits, unchecked>>

-----------------------------------------------------------------------------
(* Migration of the packages of the previous image.                        *)
_migrate_package_database(db) ==
  [n \in DOMAIN db \cup DOMAIN OldPackages |->
     IF n \in DOMAIN db THEN db[n] ELSE PackageEntry(DefaultVersion[n])]

migrate_packages(c) ==
  LET db == _migrate_package_database(client[c].db) IN
  /\ under_lock(c)
  /\ client' = [client EXCEPT ![c].pc = "migrate", ![c].db = db,
                              ![c].more = DOMAIN OldPackages \ BuiltIn]
  /\ UNCHANGED <<file, sys, manifests, edits, faults, suspect, unchecked>>

(* The version to install: the old one when it is newer than the one       *)
(* installed or than the default of the new image.                         *)
MigratedVersion(db, n) ==
  LET old == OldPackages[n] IN
  IF db[n].installed THEN IF old > db[n].version THEN old ELSE 0
  ELSE IF db[n].default > old THEN db[n].default ELSE old

migrate_package(c, n) ==
  LET me == client[c]
      v == MigratedVersion(me.db, n)
      rest == [me EXCEPT !.more = @ \ {n}]
  IN /\ me.pc = "migrate" /\ n \in me.more
     /\ \/ /\ v # 0
           /\ IF is_installed(me.db, n)
              THEN upgrade_from_source(c, rest, <<n, v>>, FALSE, FALSE, FALSE,
                                       FALSE, FALSE)
              ELSE install_from_source(c, rest, <<n, v>>, FALSE, "disabled",
                                       FALSE, FALSE)
           /\ UNCHANGED lock
        \/ /\ v = 0
           /\ Commit(c, me.db)
           /\ client' = [client EXCEPT ![c] = Rest(rest, me.db)]
           /\ Free(c, Rest(rest, me.db))
           /\ UNCHANGED <<sys, manifests, edits, faults>>

(* The checks of a migrated package raise: the migration ends.             *)
MigrationRefused(c) ==
  /\ client[c].pc = "migrate"
  /\ client' = [client EXCEPT ![c] = Idle]
  /\ lock' = NoClient
  /\ UNCHANGED <<file, sys, manifests, edits, faults, suspect, unchecked>>

-----------------------------------------------------------------------------
(* Manifest files, which no lock guards.                                   *)
ManifestCommand(c, m, e) ==
  /\ client[c].pc = "ready"
  /\ manifests' = m /\ edits' = e
  /\ client' = [client EXCEPT ![c] = Idle]
  /\ UNCHANGED <<file, sys, lock, faults, suspect, unchecked>>

create_package_manifest(c, n) ==
  /\ ~is_installed(client[c].db, n) /\ n \notin manifests
  /\ ManifestCommand(c, manifests \cup {n}, edits)

update_package_manifest(c, n) ==
  /\ n \in manifests
  /\ ManifestCommand(c, manifests, IF is_installed(client[c].db, n)
                                   THEN edits \cup {n} ELSE edits)

delete_package_manifest(c, n) ==
  /\ n \in manifests
  /\ ManifestCommand(c, manifests \ {n}, edits)

Command(c) ==
  \/ Refused(c)
  \/ \E p \in Packages, registry, enable, skip, down \in BOOLEAN, force \in Forcing :
       install(c, p, registry, enable, skip, down, force)
  \/ \E n \in Names, skip \in BOOLEAN, force \in Forcing :
       update(c, n, skip, force) \/ reset(c, n, skip, force)
  \/ \E n \in Names, keep \in BOOLEAN, force \in Forcing :
       uninstall(c, n, keep, force)
  \/ \E n \in Names : add_repository(c, n, DefaultVersion[n])
  \/ \E n \in Names : remove_repository(c, n)
  \/ migrate_packages(c) \/ MigrationRefused(c)
  \/ \E n \in Names : migrate_package(c, n)
  \/ CommandStep(c) \/ Finish(c) \/ StepFails(c) \/ rollback(c) \/ Failed(c)
  \/ Killed(c)
  \/ \E n \in Names : \/ create_package_manifest(c, n)
                      \/ update_package_manifest(c, n)
                      \/ delete_package_manifest(c, n)

PackagesNext ==
  \E c \in Clients :
    \/ get_manager(c)
    \/ Command(c) /\ UNCHANGED commands

PackagesSpec == PackagesInit /\ [][PackagesNext]_packageVars

-----------------------------------------------------------------------------
Busy(n) == \E c \in Clients : client[c].pc \in {"run", "undo"} /\ client[c].name = n

Shared(p) == \E q \in Packages : q # p /\ ImageOf[q] = ImageOf[p]

(* What packages.json says is installed is there as a whole, in that       *)
(* version and no other - files of the service, its lines in the lists of  *)
(* other services, row of FEATURE, image - and what it says is not         *)
(* installed has left none of them; after failed installs and upgrades     *)
(* too, whose undo steps ran (install_from_source, upgrade_from_source).   *)
(* Not claimed of a package of which an operation was killed, had an undo  *)
(* that failed, was an uninstall or a forced upgrade to the same version   *)
(* that failed, or met a copy of the file that was out of date.            *)
InstalledIsComplete ==
  \A n \in Names \ suspect :
    Busy(n) \/
    IF is_installed(file, n)
    THEN LET p == get_installed_package(file, n) IN
         /\ sys.files[n] = Made(p) /\ sys.features[n] # "none"
         /\ {l \in sys.lists : l[2] = n} = Listed(p)
         /\ Shared(p) \/ ImageOf[p] \in sys.images
    ELSE /\ sys.files[n] = {} /\ sys.features[n] = "none"
         /\ \A l \in sys.lists : l[2] # n

(* As long as no failed check was ignored with --force and no commit came  *)
(* from a file read before another commit, the packages that packages.json *)
(* says are installed satisfy each other's dependencies and conflicts      *)
(* (validate_package_tree), whatever was installed, upgraded, reset,       *)
(* migrated and removed, in whichever order, and whatever failed.          *)
DependenciesHold ==
  unchecked \/ validate_package_tree(get_installed_packages(file))
=============================================================================
