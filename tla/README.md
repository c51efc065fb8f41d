# sonic-utilities: a TLA+ model of the SONiC command line

`sonic-utilities` is the command line of the SONiC network operating system:
`config`, `show`, `sonic-installer`, `sonic-package-manager` and the scripts
around them. It changes the state of a switch in four ways, and the project has a
group of modules for each:

* the **Generic Config Updater** (`generic_config_updater/`) takes a JSON patch for
  the whole configuration, searches for an order in which the switch can take the
  changes one by one, applies them to a database others write too, and can go back
  to a checkpoint;
* the **config commands** (`config/`, `acl_loader/`, `pfcwd/`, `counterpoll/`,
  `crm/`): some 500 commands, each a check of its arguments against some tables of
  ConfigDB and a few writes to others;
* **commands with a protocol of their own** on the running switch: `config reload`
  and its lock, dynamic port breakout, mux cables, console lines;
* **upgrades**: migration of the databases, packages, images and boot loaders.

TLC checks all of them; TLAPS proves the central results: about the search of the
patch sorter and what its plans may do, about the sessions of the updater and the
atomicity of a sole one; ten invariants of the switching and routing commands; the
reload lock, the reload, the port breakout and the answers of the mux cables; the
packages, and what the boot loaders are left with by an interrupted installation.

## 1. Inventory

| Component | State | Operations | Interacts with | What makes it correct |
|---|---|---|---|---|
| Patch sorter, search (`patch_sorter.py`) | recursion stack, visited set | `sort` | move generator and validators | a returned list leads from current to target through accepted moves; failure means there is none; it ends |
| Patch sorter, moves (`patch_sorter.py`, `gu_common.py`) | none; YANG models | seven validators, seven generators, four extenders | YANG library | every legal patch is sorted; references, create-only fields, "port must be down" hold after every change |
| Patch and change applier (`generic_updater.py`, `change_applier.py`) | ConfigDB; the configuration remembered in the loop | `apply`, `set_entry` per entry, service validation, verification | ConfigDB, daemons that write backend tables, other sessions | a failure leaves ConfigDB alone; what was applied stays; a kill can be recovered from |
| Replacer, rollbacker, checkpoints | checkpoint directory | `replace`, `rollback`, `checkpoint`, `delete_checkpoint` | patch applier, file system | commands are atomic for a sole operator |
| Front end, multi-ASIC (`main.py`, `generic_updater.py`) | result dictionary, one ConfigDB per ASIC | pre-processing, split by scope, threads; replace and rollback scope by scope | patch applier, other writers | success means applied in every scope |
| Reload lock (`utilities_common/flock.py`) | lock file, flock(2), owner record | `try_lock` around a function | `config reload`, `load_minigraph` | one owner; waits are bounded; the record names the owner |
| `config reload`, `load`, `save`, `load_minigraph`, override | databases of all namespaces, files in /etc/sonic, services | flush, load, migrate, restart | reload lock, migrator, commands without the lock | what a reload that ended well leaves is one source, whole |
| Switching commands (VLAN, port channel, STP, mirror, ports) | ConfigDB | about 120 commands | each other's tables | memberships point at what exists; one role per port; trees follow VLANs |
| Routing and overlay commands (interfaces, VRF, VRRP, VXLAN, MCLAG, EVPN, NAT, ACL, PBH) | ConfigDB | about 120 commands | each other's tables | addressed ports are not switched; bindings exist; maps one to one; NAT tables disjoint |
| ACL loader | ACL_RULE | full and incremental update, delete | ACL tables | the incremental update equals the full one |
| Host commands (QoS, buffers, watchdog, counters, access, logging, services, plug-ins) | ConfigDB, STATE_DB, files | about 250 commands | daemons | tables stay consistent through any sequence |
| Dynamic port breakout (`config_mgmt.py`) | ConfigDB, AsicDB | delete ports, wait, add ports | orchagent, other commands | no lane is asked for while another port holds it |
| Mux cables (`config/muxcable.py`, `show/muxcable.py`) | request and answer tables | request, wait, read, give up | the cable daemon | a command reports its own answer |
| Console utility (`consutil/`) | STATE_DB, processes | connect, clear, show, mirror | picocom, other users | a line is refused only if it was in use |
| Package manager, service creator | packages.json, docker, unit files, FEATURE | install, uninstall, upgrade, reset, migrate, with rollback callbacks | docker, systemd, other command lines | installed means complete; dependencies hold |
| DB migrator | version field, tables | chain of version methods, common operations | ConfigDB, ApplDB, restart | can be interrupted and run again; no old format is left |
| Installer | images, boot variables, UEFI db, docker images | install, remove, select, prune certificates, upgrade a docker | four boot loaders, firmware | boots an image that is there and trusted |
| Technical support (`utilities_common/auto_techsupport_helper.py` and the scripts around it) | /var/dump, /var/core, STATE_DB, a lock directory | core and memory events, dump, cleanup | generate_dump, other handlers and cleanups | no dump before the interval since the last one has passed, whatever was cleaned up |
| Non-strict sorter, reboot scripts, consistency checkers, show/clear/dump, platform utilities, CLI generator | mostly none | - | - | see section 6 and `PROJECT.json` |

Behaviours that are hard here: the search backtracks through a graph whose edges
are what six rules leave over; the updater reads ConfigDB three times before it
writes and applies every change to what it remembers, not to what is there; its
lock is a stub, so that commands interleave; a command can be killed between any
two writes; daemons write some of the tables it compares; requests to daemons carry
no identity and time out; migrations and boot variables are written one by one
while power may go; the undo of a package step can fail; and 500 commands each check
a part of what must hold between the tables they share. `PROJECT.json` lists these
hazards line by line with the properties that watch them.

## 2. Modules

```
DfsSorter --- DfsSorterProofs ---.         MoveValidators
    |  \                          |             |    \
    |   `---- PatchPlans ---------|-------------'   PatchMoves
    |           |     \           |                     |
MCDfsSorter     |      PatchPlansProofs                 |
                `----------------------- MCPatchSorter -'

GenericUpdater --- GenericUpdaterProofs    Flock --- RunningSwitchProofs
    |                     |                  |
UpdaterAtomicity --- UpdaterAtomicityProofs  MCFlock
    |      `- AtomicUpdate (INSTANCE)
MCGenericUpdater

ConfigDb --- StpConfig - L2Config --+- L3Config --+- OverlayConfig --.
    |                               |             `- NatConfig ------+- SwitchingConfig
    |                               +- AclPbhConfig -----------------+    |    |
    |                               `- PortConfig -------------------'    |  SwitchingProofs
    |                                                                 MCSwitching
    +- ValidatedEntry -- (OverlayConfig, PluginConfig)
    +- QosConfig, CounterConfig, PluginConfig, AccessConfig, ServiceConfig -.
    +- ConsoleUtil, TechSupport, ScopedUpdater -----------------------------+- MCHost
    |  MuxCable, ConfigReload, PortBreakout --------------------------------'
    |     `- RunningSwitchProofs (with Flock)
    `- DbMigrator --.
PackageManager -----+- MCUpgrade
SonicInstaller -----'
    `- UpgradeProofs (with PackageManager)
```

**DfsSorter** is `DfsSorter.sort` with its recursion as an explicit stack: `arg`
and `ret` are the argument and the result of the innermost call, a frame holds
the configuration of a call and the moves its loop has left, `visited` is
`self.visited`. One action per branch of the function: `NoDiff`,
`AlreadyVisited`, `Expand`, `TryMove`, `RejectMove`, `OutOfMoves`, and the two
ways a recursive call comes back, `ReturnNone` and `ReturnFound`. Configurations,
generator, validators and simulation are constants, so that the theorems hold for
every rule set.

**MoveValidators** and **PatchMoves** give those constants the meaning they have in
the code: JSON trees as functions from paths to node values, `JsonMove` and
`JsonMoveGroup` and all validators in the first, generators and extenders in the
second, as `SortAlgorithmFactory.create` wires them, in their order, with the
hard-coded create-only and required-value settings. What the YANG models say
(leafrefs, mandatory leaves, order of tables by backlinks) is a parameter. A leaf-list
is a set of items: positions are abstracted. Generators are sequences in yield order
because the search takes the first plan it finds. `TableLevelMoveGenerator` is
commented out in the factory and left out here. The generators are recursive operators,
the validators are not: **PatchPlans**, the search with the validators of the code and
any generator, can be proved about.

**GenericUpdater** is a set of sessions, each running one command at a time on a
shared ConfigDB and checkpoint directory. `pc[s]` is where a session stands,
`job[s]` holds the local variables of `PatchApplier.apply`, `ConfigReplacer.replace`
and `FileSystemConfigRollbacker`. The steps follow the code's reads and writes:
`CheckExists`, `LoadCheckpoint`, `GeneratePatch`, `ReadOldConfig`, `StrictSort` and
`Sort` each read the outside world once; `StartChange` computes the entries a
change alters from the configuration remembered so far; `WriteEntry` is one
`set_entry`; `Verify` and `VerifyReplace` are the comparisons at the end. `Kill`
stops a session anywhere, `BackendWrite` is a daemon. The sorter appears as
`Plans(current, target)`, the set of lists it may return (empty: it raises).
`jsonpatch` and `set_entry` (which stores `[]` as `['']`) are external and modelled
from their use. `before` and `planned` are history for the properties. Patches
reach `apply_unsorted` through `ValidatedConfigDBConnector`, which turns values to
strings, so that its patches carry no empty leaf-lists.

**Flock** is `try_lock` with `acquire_flock` and `release_flock`: open, attempt with
LOCK_NB, the sleep loop with its clock, truncate and write the record, run, release,
truncate, and the refused caller that reads the record. Time is counted in sleeps.
The function itself (`Return`) may never return; `Kill` lets the kernel free the lock.

**AtomicUpdate** is what the updater's commands promise somebody who runs them one
at a time: a request is accepted and then committed at once, refused without effect,
or killed, which leaves every field at its old value, its new value or absent. The
one thing that is not atomic is stated too: a `checkpoint` loses the file of its name
when it opens it (`Truncate`). **UpdaterAtomicity** instantiates it with
`config <- Visible(IF running THEN job.before ELSE db)`: while a command runs, its
writes are not visible yet. It also states what the refinement needs of the sorter, the
commands and the daemons. Fields may also hold a value in passing on real switches
(a port is taken down while its queue changes); `Interim` is the set of such values,
`{Unset}` in the instance.

**ConfigDb** is ConfigDB as the commands see it: table, key, entry, and the
connector's operations. A command is an action of the module of its area that has the
name of the function: its guard is the conjunction of the checks that end in
`ctx.fail`, its effect all writes of the function and of the functions it calls. A
command that fails writes nothing and is not enabled. Values are abstracted to what
checks distinguish; keys made of several parts are sequences.

* **StpConfig**, **L2Config**, **PortConfig**: spanning tree, VLANs, port channels,
  mirror sessions, switch port modes, storm control, port parameters.
* **L3Config**, **OverlayConfig**, **NatConfig**, **AclPbhConfig**: router
  interfaces, VRFs, VRRP, static routes; VXLAN, VNET, MCLAG, EVPN; NAT; ACL tables,
  `acl-loader` and policy based hashing.
* **QosConfig**, **CounterConfig**, **AccessConfig**, **ServiceConfig**,
  **PluginConfig**: the host. **ValidatedEntry** holds the functions that every
  generated plug-in carries; the YANG validation in them is the leafrefs listed in
  `Refs`.

**SwitchingConfig** composes the commands of the first two groups: any of them at any
time, with any arguments, from empty tables. The theorems are about this specification;
`MCSwitching` takes the same commands with small sets of arguments.

**PortBreakout** has the command, orchagent and another command line; **MuxCable** the
commands, the cable daemon and the two tables between them, with request numbers that
exist only in the model (`CablesSpec` is any command of any operator, on any ports); **ConsoleUtil** users, picocom processes and STATE_DB.
**TechSupport** has the handlers that a core or a lack of memory starts, the dumps
they make (collected, done, aborted, killed with their lock left behind) and the
cleanup every finished dump starts; a cleanup lists the archives in one step and
removes them one by one. A dump that is being collected is a directory that the limit
sees and an archive that a cleanup sees. The moment between the creation of the lock
directory and of the process id in it is left out.
**ConfigReload** runs two command lines through the steps of reload, load, save and
load_minigraph over the databases of all namespaces; a configuration is the set of
sources it was made from and what completes it (`ReloadsSpec` is any command with any
options, from any file). **ScopedUpdater** is the front end of
apply-patch on several databases; one updater in it does what GenericUpdater is shown
to do.

**DbMigrator** translates each version method to a list of writes computed from the
tables as they are when the method starts; `Stop` ends the script between two writes.
`trial` is a run without interruption on a copy, made when the behaviour starts.
**PackageManager** has processes that read packages.json, take the lock, check, run
steps and push undos. **SonicInstaller** writes boot variables and files one by one
for grub, U-Boot, U-Boot on a BMC and aboot; `StepFailed`, a signal and
`Reboot` (power loss) end a command between two.

## 3. Runs

| Run | Result | Distinct states | Shows |
|---|---|---|---|
| `search` | passes | 11,360 | the search on all 512 graphs of three configurations and a target, with dead ends, cycles and unreachable targets |
| `moves` | passes | 14,172 | the search with the real moves on 600 pairs of configurations |
| `updater` | passes | 239,976 | one session, three commands out of eleven, killed anywhere, with a daemon writing a backend table; it implements AtomicUpdate |
| `sessions` | passes | 2,387,844 | two sessions without a lock, three commands in all |
| `lost_field` | violated | - | finding 1 |
| `empty_list` | violated | - | finding 2 |
| `reload_lock` | passes | 67,680 | five calls: without timeout, timed, blocking, bypassing, killed anywhere |
| `lock_record` | violated | - | finding 3 |
| `switching` | passes | 157,796 | all sequences of switching, routing, overlay, ACL and NAT commands, in 21 areas |
| `upgrade` | passes | 490,745 | migration of seven databases, package commands, installer commands, dockers, interrupted and failing |
| `host` | passes | 556,532 | breakout, cables, reloads, scopes, console lines, technical support and settings, in 16 areas |
| `pfcwd_history` | violated | - | finding 4 |

What the passing runs establish:

* `search`: `PlanReachesTarget`, `FailureIsFinal` (on failure the visited set is
  closed under accepted moves and lacks the target), `NoRepeatedConfig`,
  `Terminates`.
* `moves`: `AlwaysSorted` (the rules never leave a patch of this instance without
  an order), and along every plan `NoEmptyTableOnTheWay`,
  `CreateOnlyThroughRemoval`, `CriticalChangesWhilePortDown`,
  `UntouchedPortStays`. The second and the last also show that the wrong table
  `BulkKeyLevelMoveGenerator` appends to a group (the table of the *next* key) is
  always caught by the validators.
* `updater`: `ErrorLeavesConfigUntouched` (a failed command of a sole session has
  changed nothing a comparison sees), `RecoveryAlwaysWorks` (after any kill, `replace`
  and `rollback` fail only for a target that is not acceptable or a checkpoint that
  is missing or torn), `EveryCommandEnds`, and `CommandsAreAtomic`, the refinement.
* `sessions`: `AppliedEntriesStay`: sessions whose changes are about different
  entries do not disturb each other although none of them takes a lock.
* `reload_lock`: `MutualExclusion`, `RecordNamesNobodyElse`, `WaitIsBounded`.
* `switching`: eleven invariants of the tables after every sequence of commands.
  Most relate tables that different commands write: `StpFollowsVlans`, `MembersExist`,
  `OneRole`, `AddressedIsNotSwitched`, `BoundVrfExists`, `VniMapsConsistent`,
  `NatDisjoint`, `MembersMatchPortchannel`; `LimitsHold` and `PbhConsistent` are
  about values set by one command each; `IncrementalIsFull` compares the two updates
  of `acl-loader` on every reachable set of rules.
* `upgrade`: `RerunConverges` and `NoLegacyLeft` (migration), `InstalledIsComplete`
  and `DependenciesHold` (packages), `BootsInstalledImage` (a BMC, whenever power
  goes) and `BootChainTrusted` (UEFI db). Each names in its comment the cases in
  which the code does not hold what one would expect; they are in `PROJECT.json` as
  hazards.
* `host`: `LanesNeverShared`, `OwnAnswer`, `ReloadIsWhole`, and `HostConsistent`, the
  conjunction of the smaller invariants (`BusyIsFresh`, `SuccessMeansApplied` and
  `GlobalRateLimit` are the three about concurrency; the last one depends on the
  cleanup keeping the newest archive and on the limit seeing unfinished dumps).

**Bounds.** `search`: three inner nodes are enough for a cycle, a dead end under a
cycle, and a node met twice on different paths. `moves`: two ports, so that lanes
can trade places; a queue (reference by key, needs the port down); an ACL
(reference by leaf-list item, so that the port has two kinds of referrers); two
values per field; one side of each problem is a configuration with everything in
it, so that creations, deletions and changes combine. `updater` and `sessions`:
three entries (a port with a create-only field, an ACL that needs it, a backend
entry) of two fields; three commands allow checkpoint, something killed, rollback,
or two commands of one session around one of the other. The plans in
`MCGenericUpdater` are what the sorter returns on these entries: changes entry by
entry in any order through valid configurations, the port's create-only field
through removal. In `sessions` the daemon is left out to keep the run small; the
proof has it. `SessionSymmetry` is sound: no session is named in the model and
the run has no liveness property. `reload_lock`: timeouts of 0 and 2 sleeps, -1 for
"wait for ever", two calls of the first kind. `switching`: two ports, two
port channels, two VLANs, VRFs, VNETs and VNIs, one instance of spanning tree fewer
than VLANs, so that every limit is met and every check has a case on both sides. A
behaviour stays in one area (a `VARIABLE` of the run): commands of other areas look
at other tables, and the tables an area only reads start filled; within an area the
sequences are unbounded. `upgrade`: one interruption is enough for a rerun (a second
stops a rerun, which is a first run on other tables: the seven start databases are
of that kind); two clients with two commands and two faults give a failing step and a
failing undo; three images where a loader keeps two. `host`: three breakout modes, two of which have the same port with different lanes,
two reloads of which one
dies, one operator with two cable requests and a daemon that may answer late, two
users with two sessions, three updates over a host and one ASIC with one foreign
write, three events for two handlers with two dumps, each larger than the limit of the cleanup. In area `settings` the commands that only check and write a table of their own
are taken in sequences of two (`MaxSettings`). `Symmetry` in `upgrade` permutes the
clients of the package manager, which nothing names.

**Fairness.** `search`: weak fairness of the whole step, one thread running.
`updater`: weak fairness of each session's own steps: a process that can go on is
scheduled; nothing is assumed of kills, new commands or daemons. `reload_lock`: weak
fairness of each call's steps inside `flock.py`, not of `Return`: the decorated
function may hang.

`switching`, `upgrade` and `host` check invariants only and
assume no fairness: an operator may stop giving commands, a daemon may never answer.

Deadlock is checked in the runs of the updater, the sorter and the lock; the states in which all work is done have a
stuttering step (`Stopped`, `AllDone`). In the other three a behaviour may end
when the bounds are used up or nothing is left to configure.

## 4. Findings

1. **A patch is lost** (`lost_field`). `ConfigLock` is a stub and `ChangeApplier`
   writes whole entries computed from the configuration its session read first.
   Two sessions that patch different fields of one entry can both report success
   while one of the patches is gone; the comment in `change_applier.py` relies on the
   lock. For different *entries* this cannot happen (`AppliedEntriesStay`).
2. **An empty leaf-list fails a replace that worked** (`empty_list`).
   `PatchApplier` normalises its target, `ConfigReplacer` compares with the
   configuration as given.
3. **The lock record of a running owner is erased** (`lock_record`). `try_lock`
   truncates the file after it has released the lock. Mutual exclusion is not
   affected, and the record never names somebody else (proved).
4. **The watchdog loses a history setting** (`pfcwd_history`). `pfcwd start` hands one
   dictionary to all ports; `setdefault` puts the history setting of the first port
   into it and the others get that instead of their own.

Met while proving:

* A breakout that is killed after the new ports are written and before the new mode is
  recorded leaves a switch on which the next breakout deletes the wrong ports;
  `LanesNeverShared` excepts that state (`unrecorded`).
* `check_vrrp_ip_exist` searches the table of the address's family while the commands
  write the table of their own, so that a foreign-family address can be given to several
  instances; `LimitsHold` speaks of addresses of the own family.
* `StpFollowsVlans` does not hold over all spanning tree commands: `config vlan add`
  writes STP_VLAN in MST mode too, and `config spanning-tree disable mst` leaves STP_VLAN
  and STP_VLAN_PORT behind. The run checks it for PVST.
* A daemon that adds or removes a field of a backend entry between the readings of one
  `apply` can make it fail after its first writes: the patch sorter then plans from a
  configuration to which the remembered one is not similar. The atomicity theorems
  assume that it changes values only (`DaemonsKeepFields`).
* The validators alone allow a move that takes the queue of a port away from its target
  and raises the port at once; that no plan does so depends on the generators.

Met while modelling, and in the model as the code has it, without a property that
would contradict a document: `config nat remove bindings` fails on an undefined name;
STP_PORT is never deleted with the last membership (the list is read too early);
deleting a VRF leaves static routes and syslog servers that name it; `mpls add` and
`nat remove interfaces` rewrite an interface entry without its VRF; removing an ACL
table leaves its rules, after which the incremental update fails; the last rollback
of a package upgrade lacks an argument; the conflict check of package components
raises on any package that has components; removing an image on U-Boot leaves
`boot_once`, on aboot SWI_DEFAULT; a failing write after the installer deletes the
image the loader already selects; the last try of the breakout's wait fails even when
the ports are gone; the duplicate filter of apply-patch drops every addition of a
value that the patch repeats; the interval of a feature between two technical support
dumps is measured from the oldest dump on record, so that it holds back nothing once
that one is old (`verify_rate_limit_intervals` takes the first of the sorted times,
while `doc/Command-Reference.md` asks for both intervals to have passed); an interval
that is not configured, and every memory event, end the handler with an exception, the
latter after its dump is made.

## 5. Proofs

Every theorem holds for all values of the constants that satisfy the named
assumptions. Where a module has a hypothesis of its own it is a definition named in the
theorem's ASSUME.

**DfsSorterProofs**, from `MovesWellTyped` (generated moves that are accepted lead
to configurations): `TypeCorrect`, `PlanIsSound`, `FailureIsSound`, `NeverRepeats`,
`FailureMeansNoPlan`. None of the properties is inductive. `SearchInv` adds that
every waiting frame holds an accepted move that leads to the frame above it
(`FramesLinked`: the plan is put together from these on return), that frames are
visited and the target is not, and, for failure, that a visited configuration is
either on the stack or has only visited successors (`VisitedSettled`), where a
frame has in its `todo` whatever leads to an unvisited configuration
(`FramesSettled`). `FailureMeansNoPlan` follows from the closed set: a plan
would have to leave it; the step where it does is found by a least element, not by
induction with an operator.

**PatchPlansProofs**: what the validators guarantee of every plan, for any generator,
any tables and any YANG models: `PlansStayValid`, `CreateOnlyIsRecreated`,
`CriticalChangesFindPortDown` and `PlansLeaveNoEmptyTable`. `SorterOfTheCode` says
that the search uses `ValidateMove` and `ApplyGroup`; `PlanIsSound` makes each change
of a plan an accepted move. The second follows along the plan: as long as the entry
stays, its create-only field stays with its value. The last needs `TablesGiven`, that
a move puts values only into the table its path names (checked on the generators by
`TablesKeptHere` in `MCPatchSorter`) and that the start has no empty table; the
configurations inside a group come from unfolding the recursive function in
`ApplyGroup` (`GroupStates`). `CriticalChangesFindPortDown` is what the validators alone
give; `CriticalChangesWhilePortDown`, which the run checks, says more of the state after
the change and depends on the generators, as `AlwaysSorted` and `UntouchedPortStays` do.

**GenericUpdaterProofs**, from `PlansWellTyped` (the sorter returns lists of
changes): `UpdaterTypeCorrect` and `AppliedStays`, for any number of sessions and
commands. `SessionInv` says that what a session has still to write is among the
entries its changes are about (`WritesArePlanned`), that the target it compares
with holds its patch (`TargetHoldsPatch`; needs that no two operations of a patch
touch one field), and that the patch stays from the comparison on (`PatchStays`).
It needs nothing of the sorter: if the changes do not do what the patch says, the
comparison fails and nothing is reported as applied.

**UpdaterAtomicityProofs**: for a sole session, with daemons writing beside it and kills
anywhere, `FailedCommandsChangeNothing`, `SoleSessionIsAtomic` (the refinement of
AtomicUpdate, step by step) and `SoleSessionRecovers`. Hypotheses (`SoleAndSorted`): one
session; the sorter's lists lead to their target through configurations that mix old and
new fields (`PlansLead`, the first half of which is `PlanIsSound`, and which
`PlansLeadHere` checks of the plans of the run); nothing is asked for with an empty
leaf-list (finding 2); checkpoint files that are missing or torn are told from
configurations; and the daemons change values but not the presence of fields while a
command runs (`DaemonsKeepFields`, a hypothesis on the behaviour). Recovery also needs
that the validation judges a configuration by the tables the daemons do not write
(`JudgedByVisible`). `SoleInv` is an argument about paths: when the changes start, the
list leads from something like the remembered configuration to something like the
target (`Approaches`), although the list was computed from a later reading than the
one that is remembered; each change moves both one step along the path; ConfigDB agrees
with the remembered configuration but for the entries still to be written; so that at
the end the comparison succeeds, and in between every visible field is old, new or in
`Interim`. `RecoveryInv` adds that the patch `replace` generates stays applicable until
it is sorted.

**SwitchingProofs**: ten of the eleven invariants of run `switching`, over all commands
of `SwitchingConfig` with unbounded arguments: `MembershipsAreKept`,
`RoutedIsNotSwitched`, `BindingsAreValid`, `NatEntriesAreDisjoint`,
`IncrementalUpdateIsFull`, `PbhIsConsistent`, `PortsHaveOneRole`, `MembersMatch`,
`VniMapsAreConsistent`, `LimitsAreKept`. One lemma per group of commands names the
tables it writes; for each invariant the groups that write none of its tables follow
from these frames, the others are proved command by command. Some invariants had to be
restated or strengthened: `Roles` says "at most one" as uniqueness and that every ACL
table has its field `ports`; `Matching` that every port channel keeps the MTU it is
created with and its members agree with that value; `VniInv` that the fields of a map
entry are the VNI and VLAN of its key; `Timers` that a PVST global entry has all three
timer fields; `VrrpInv` that the address set of an instance is finite, table by table.

**RunningSwitchProofs** has the commands with a protocol of their own.

* The lock: `LockExcludes` and `RecordNeverMisleads`, for any number of calls and any
  timeouts. `LockInv`: who is between flock and release is exactly who the kernel says
  has the lock; calls with bypass never touch it; the record is empty between the
  owner's truncate and its write.
* The breakout: `BreakoutIsSafe`, for any modes, division of lanes and length of the
  wait. `OneMode`: ConfigDB and ASIC_DB hold ports of one mode at a time, which one
  depending on where the command stands.
* The cables: `AnswersAreOwn`, for any operators, ports and commands, and a daemon that
  answers late or never. `CablesInv`: every request that is still open, and every
  response in the table, belongs to the command that waits for it or was given up
  (`AllOwed`); open requests have numbers of their own (`ToldApart`); the responses in
  the table and in the notifications of a command are to requests that are not open any
  more (`AnswersAreOver`); a command that was alone so far shares its channel with
  nobody (`AloneOnChannel`), and all that it may still read (notifications, the answer
  in its hand, the result table) is for the port it is about to report, from its own
  request or from one that was given up (`Reports`). The conjuncts need each other: an answer is
  the command's own only because a second open request of that port cannot exist.
* The reload: `ReloadsAreWhole`, for any number of namespaces and command lines.
  `ReloadInv` looks at a command that has been alone so far: its tag, and the steps that
  remain for a namespace, tell what the database of that namespace holds (`OnCourse`;
  `Reloaded` and `Regenerated` say which of the source, the system information, the mark
  and the schema version must be there once their step is no longer to come). That each
  step meets what it needs follows from the order of the steps (`Later`, `NoMore`,
  `ChecksFirst`), which holds of the lists the commands start with, whether they go
  through the namespaces once or several times, and of every rest of them.

**UpgradeProofs** has what sits on top of the switch.

* Packages: `PackagesFit` and `PackagesComplete`, for any packages, manifests, number of
  processes, faults and deaths. `PackageInv`: who runs steps or undos them is exactly
  who has the lock (`LockHeld`); what the commit of a command will write satisfies the
  dependency check, unless a failed check was ignored (`FitAtEnd`); packages no process
  works on agree with packages.json (`AllSettled`); and for those in work, the steps
  that are left, or the undos if one has failed, walk each package from what it is now
  to what packages.json will say of it (`Healthy`). The
  last is what makes completeness inductive: a state between two steps satisfies nothing
  but "the rest would settle it".
* Images: `ChainStaysTrusted` (grub) and `BmcAlwaysBoots` (U-Boot of a BMC), in every
  state, power loss at any write included. `ChainInv` says that the steps left to a
  command end with a UEFI db that has a signer for each image of the menu and for the
  shim. `SlotsInv` says
  that both selectors name a slot whose image is there, and that the writes left to a
  command have one of four shapes (`Installing`, `Selecting`, `Removing`, `Erasing`),
  each of which gives up the selector before the slot and the slot before the image, so
  that every write keeps it. As in the properties, a db whose update failed or was cut
  off is excepted, and a BMC on which a write failed after the installer, which then
  deletes the new image (section 4).

The assumptions on constants (`ProblemsAssumption`, `ProcessesAssumption`,
`FilesAssumption`, `BoundAssumption`, `CommandsAssumption`, `ParametersAssumption`,
`ListsAssumption`, `BreakoutAssumption`, `ReloadAssumption`, `PackageAssumption`,
`StartAssumption`, `InstallerAssumption`; of the switching commands `InterfaceNames`,
`VipsAssumption`, `VlanNumberAssumption`, `VniAssumption`, `PbhMatchesAssumption`; and
those of the modules without proofs) are evaluated by TLC in every run of the module.
Those of the switching commands say that the names of ports, port channels, VLANs,
loopbacks and sub-interfaces are told apart and that numbers are numbers.
`ReloadAssumption`: the namespaces are several different names, a file that passes
YANG validation exists (`read_json_file` raises on a missing one before anything is
validated), and golden configuration that does not exist contributes nothing (main.py
tests for the file). `PackageAssumption`: the packages an earlier version left are
known, versions are positive numbers, names and versions have a default;
`StartAssumption`: what is installed when the behaviour starts satisfies its own
dependencies. `InstallerAssumption`: images, the shim and the empty slot are different
things, and the switch boots when the behaviour starts.

Only model-checked:

* liveness (`Terminates`, `EveryCommandEnds`, `WaitIsBounded`), which is out of the
  prover's reach;
* `AlwaysSorted`, `UntouchedPortStays` and `CriticalChangesWhilePortDown`, which depend
  on generators written with recursive operators;
* `StpFollowsVlans`, which holds in one mode of spanning tree only (section 4);
* `RerunConverges` and `NoLegacyLeft`: both are about what a chain of version methods
  leaves, each a fold over tables, and what a fold computes needs induction over data;
* `HostConsistent`: a conjunction of nine smaller invariants over tables that do not
  meet; the run checks them area by area.

## 6. Not modelled

* `BfsSorter` and `MemoizationSorter` (never selected), the dry-run classes, the
  trace tree of the sorter, and the non-strict sorter, whose split depends on which
  tables have YANG models.
* The SonicYang object the generators share with the validators: a lazy generator
  may go on with data loaded for another configuration. Every move is still
  validated, so that plans stay sound.
* Order and duplicates inside a leaf-list in the sorter; chains of references longer
  than ten, which the code cuts off.
* What the service validators do to daemons; the rules of
  `field_operation_validators.py` (a parameter, `Permitted`).
* In the config commands: more than one ASIC (but for feature states, reload and the
  scoped updater), YANG validation of ordinary commands (off by default), restarts of
  services, and the text of messages.
* `show`, `clear`, `dump` and statistics commands read and format. The platform
  utilities call vendor libraries that are not in the repository. The reboot scripts
  drive services and kexec from shell. The consistency checkers read and compare.
  The CLI generator writes Python from YANG models.
* Liveness outside the updater, the search and the lock: the programs that wait
  (breakout, cables, `feature state --block`) wait for daemons outside the repository.

## 7. Plan

Done: the sorter, the updater and the lock, the atomicity of a sole session, the
switching and routing commands, the breakout, the cables, reload, packages and
installer, all with proofs; the composition over scopes, console, technical support,
migrator and the other configuration commands, model-checked. Left, in this order:

1. The concurrent conjuncts of `HostConsistent` (`BusyIsFresh`, `SuccessMeansApplied`,
   `GlobalRateLimit`) as theorems.
2. ConfigReload composed with Flock and GenericUpdater in place of its own lock and
   of the commands without one.
3. The loaded configuration of SonicYang as a variable of the sorter; the non-strict
   sorter.
