--------------------------- MODULE GenericUpdater ---------------------------
(***************************************************************************)
(* The Generic Config Updater around the patch sorter: PatchApplier,       *)
(* ConfigReplacer, FileSystemConfigRollbacker and ChangeApplier            *)
(* (generic_config_updater/generic_updater.py, change_applier.py), run by  *)
(* command line sessions that share one ConfigDB and one checkpoint        *)
(* directory.  ConfigLock is not implemented: acquire_lock and             *)
(* release_lock do nothing, so nothing here waits for another session.     *)
(*                                                                         *)
(* ConfigDB is written one entry at a time (set_entry) and read as a whole *)
(* (sonic-cfggen -d).  A session can be killed between any two steps.      *)
(***************************************************************************)
EXTENDS Naturals, Sequences, FiniteSets

CONSTANTS
    Sessions,         \* concurrent `config` commands
    Keys,             \* entries of ConfigDB, pairs of table and key
    TableRank,        \* entry -> the position of its table in sorted order
    Fields,           \* fields an entry can have
    Values,           \* what a field can hold, EmptyList and BlankList included
    EmptyList,        \* the leaf-list []
    BlankList,        \* what [] becomes in ConfigDB: ['']
    BackendKeys,      \* entries of tables the backend writes too
    BackendEntries,   \* what it writes there
    Names,            \* checkpoint names
    Commands,         \* what a session can be started with
    InitialConfigs,   \* contents of ConfigDB to start from
    Permitted(_, _),  \* validate_field_operation and get_empty_tables accept old, target
    Valid(_),         \* validate_config_db_config accepts the configuration
    Plans(_, _),      \* lists of changes PatchSorter.sort may return for current, target
    NoFile, Torn,     \* no checkpoint file; one that json.loads rejects
    MaxCommands       \* bound on the commands started

ASSUME FilesAssumption == NoFile # Torn
ASSUME BoundAssumption == MaxCommands \in Nat

Unset == "unset"
Entries == [Fields -> Values \cup {Unset}]
Configs == [Keys -> Entries]
NoConfig == [k \in Keys |-> [f \in Fields |-> Unset]]

\* One operation of a JsonPatch.  A patch is a set of them.
Edits == [op : {"add", "replace", "remove"}, key : Keys, field : Fields, value : Values \cup {Unset}]

\* No two operations of a patch touch one field.
Consistent(p) == \A d, e \in p : d.key = e.key /\ d.field = e.field => d = e

\* What the command line hands over: a JsonPatch, a configuration or a checkpoint name.
ApplyOps == {"apply", "apply_unsorted"}
FileOps == {"rollback", "delete", "checkpoint"}
CommandsWellFormed ==
    \A c \in Commands :
        /\ c.op \in ApplyOps \cup FileOps \cup {"replace"}
        /\ c.op \in ApplyOps => c.patch \in SUBSET Edits /\ Consistent(c.patch) /\ IsFiniteSet(c.patch)
        /\ c.op = "replace" => c.config \in Configs
        /\ c.op \in FileOps => c.name \in Names

ParametersWellTyped ==
    /\ InitialConfigs \subseteq Configs
    /\ BackendKeys \subseteq Keys /\ BackendEntries \subseteq Entries
    /\ BlankList \in Values

ASSUME CommandsAssumption == CommandsWellFormed
ASSUME ParametersAssumption == ParametersWellTyped

VARIABLES
    db,        \* ConfigDB
    files,     \* /etc/sonic/checkpoints
    pc,        \* session -> where it stands
    outcome,   \* session -> how its last command ended
    job,       \* session -> the local variables of its command
    issued     \* commands started

vars == <<db, files, pc, outcome, job, issued>>

\* The local variables.  `before` and `planned` only record history.
Jobs ==
    [cmd     : Commands \cup {[op |-> "none"]},
     goal    : Configs,            \* configuration to replace with, or to save
     patch   : SUBSET Edits,       \* the patch being applied
     target  : Configs,            \* target_config of PatchApplier.apply
     current : Configs,            \* current_config of its loop over the changes
     changes : Seq(SUBSET Edits),  \* changes still to apply
     dirty   : SUBSET Keys,        \* entries of the change still to write
     orphan  : BOOLEAN,            \* the open checkpoint file was deleted by another session
     before  : Configs,            \* ConfigDB when the command started
     planned : SUBSET Keys]        \* entries of all changes of this and the session's earlier commands

-----------------------------------------------------------------------------
(* Patches *)

Cell(c, e) == c[e.key][e.field]

\* jsonpatch raises when it removes or replaces what is not there.
Applies(p, c) == \A e \in p : e.op \in {"remove", "replace"} => Cell(c, e) # Unset

ApplyPatch(p, c) ==
    [k \in Keys |-> [f \in Fields |->
        IF \E e \in p : e.key = k /\ e.field = f
        THEN (CHOOSE e \in p : e.key = k /\ e.field = f).value
        ELSE c[k][f]]]

\* remove_empty_leaf_lists
Normalised(c) == [k \in Keys |-> [f \in Fields |-> IF c[k][f] = EmptyList THEN Unset ELSE c[k][f]]]

\* Mutant: empty leaf-lists stay.
SimulateRaw(p, c) == ApplyPatch(p, c)

\* simulate_config_db_patch
Simulate(p, c) == Normalised(ApplyPatch(p, c))

\* The operation that brings field f of entry k from c to t.
EditTo(c, t, k, f) ==
    [op    |-> IF c[k][f] = Unset THEN "add" ELSE IF t[k][f] = Unset THEN "remove" ELSE "replace",
     key   |-> k, field |-> f, value |-> t[k][f]]

\* generate_patch (jsonpatch.make_patch)
Diff(c, t) ==
    {EditTo(c, t, at[1], at[2]) : at \in {kf \in Keys \X Fields :
        c[kf[1]][kf[2]] # t[kf[1]][kf[2]]}}

\* set_entry turns an empty list into [''].
Stored(entry) == [f \in Fields |-> IF entry[f] = EmptyList THEN BlankList ELSE entry[f]]

\* remove_backend_tables_from_config, before the comparisons.
Visible(c) == [k \in Keys \ BackendKeys |-> c[k]]

-----------------------------------------------------------------------------
(* Sessions *)

Idle(s) == pc[s] = "idle"
Op(s) == job[s].cmd.op
Name(s) == job[s].cmd.name

Goto(s, label) == pc' = [pc EXCEPT ![s] = label]

\* The command ends: exit code 0, or an exception that reaches the command line.
End(s, how) == Goto(s, "idle") /\ outcome' = [outcome EXCEPT ![s] = how]
Succeed(s) == End(s, "ok")
Raise(s) == End(s, "error") /\ UNCHANGED <<db, files, job, issued>>

FirstStep(c) ==
    CASE c.op \in ApplyOps -> "read"
      [] c.op = "replace" -> "diff"
      [] c.op \in {"rollback", "delete"} -> "exists"
      [] c.op = "checkpoint" -> "snapshot"

NewJob(c, planned) ==
    [cmd |-> c,
     goal |-> IF c.op = "replace" THEN c.config ELSE NoConfig,
     patch |-> IF c.op \in ApplyOps THEN c.patch ELSE {},
     target |-> NoConfig, current |-> NoConfig, changes |-> <<>>, dirty |-> {},
     orphan |-> FALSE, before |-> db, planned |-> planned]

(* ConfigLockDecorator.execute_write_action: acquire_lock does nothing. *)
Start(s, c) ==
    /\ Idle(s)
    /\ issued < MaxCommands
    /\ issued' = issued + 1
    /\ job' = [job EXCEPT ![s] = NewJob(c, job[s].planned)]
    /\ Goto(s, FirstStep(c))
    /\ outcome' = [outcome EXCEPT ![s] = "running"]
    /\ UNCHANGED <<db, files>>

(* The session is interrupted; nothing is undone. *)
Kill(s) == ~Idle(s) /\ End(s, "killed") /\ UNCHANGED <<db, files, job, issued>>

-----------------------------------------------------------------------------
(* Checkpoints *)

\* check_checkpoint_exists, in rollback and delete_checkpoint.
CheckExists(s) ==
    /\ pc[s] = "exists"
    /\ IF files[Name(s)] = NoFile THEN Raise(s)
       ELSE /\ Goto(s, IF Op(s) = "rollback" THEN "load" ELSE "unlink")
            /\ UNCHANGED <<db, files, outcome, job, issued>>

\* Mutant: a torn file is taken for a configuration.
LoadAnything(s) ==
    /\ pc[s] = "load"
    /\ IF files[Name(s)] = NoFile THEN Raise(s)
       ELSE /\ job' = [job EXCEPT ![s].goal = files[Name(s)]]
            /\ Goto(s, "diff")
            /\ UNCHANGED <<db, files, outcome, issued>>

\* get_checkpoint_content: the file may be gone by now, or not be JSON.
LoadCheckpoint(s) ==
    /\ pc[s] = "load"
    /\ IF files[Name(s)] \in {NoFile, Torn} THEN Raise(s)
       ELSE /\ job' = [job EXCEPT ![s].goal = files[Name(s)]]
            /\ Goto(s, "diff")
            /\ UNCHANGED <<db, files, outcome, issued>>

\* os.remove.  Sessions that have the file open go on writing to what has no name.
DeleteCheckpoint(s) ==
    /\ pc[s] = "unlink"
    /\ IF files[Name(s)] = NoFile THEN Raise(s)
       ELSE /\ files' = [files EXCEPT ![Name(s)] = NoFile]
            /\ job' = [t \in Sessions |->
                   IF pc[t] = "save" /\ Name(t) = Name(s) THEN [job[t] EXCEPT !.orphan = TRUE] ELSE job[t]]
            /\ Succeed(s)
            /\ UNCHANGED <<db, issued>>

\* checkpoint: get_config_json.
Snapshot(s) ==
    /\ pc[s] = "snapshot"
    /\ job' = [job EXCEPT ![s].goal = db]
    /\ Goto(s, "open")
    /\ UNCHANGED <<db, files, outcome, issued>>

\* save_json_file: open(path, "w") truncates what was there.
OpenCheckpoint(s) ==
    /\ pc[s] = "open"
    /\ files' = [files EXCEPT ![Name(s)] = Torn]
    /\ Goto(s, "save")
    /\ UNCHANGED <<db, outcome, job, issued>>

\* save_json_file: write.  What another session wrote since may stick out behind it.
SaveCheckpoint(s) ==
    /\ pc[s] = "save"
    /\ \/ /\ job[s].orphan
          /\ UNCHANGED files
       \/ /\ ~job[s].orphan
          /\ files' = [files EXCEPT ![Name(s)] = job[s].goal]
       \/ /\ ~job[s].orphan
          /\ files[Name(s)] \notin {Torn, job[s].goal}
          /\ files' = [files EXCEPT ![Name(s)] = Torn]
    /\ Succeed(s)
    /\ UNCHANGED <<db, job, issued>>

-----------------------------------------------------------------------------
(* ConfigReplacer.replace, up to the call of PatchApplier.apply *)

\* Mutant: what the target lacks is left alone.
GeneratePatchWithoutRemovals(s) ==
    /\ pc[s] = "diff"
    /\ job' = [job EXCEPT ![s].patch = {e \in Diff(db, job[s].goal) : e.op # "remove"}]
    /\ Goto(s, "read")
    /\ UNCHANGED <<db, files, outcome, issued>>

GeneratePatch(s) ==
    /\ pc[s] = "diff"
    /\ job' = [job EXCEPT ![s].patch = Diff(db, job[s].goal)]
    /\ Goto(s, "read")
    /\ UNCHANGED <<db, files, outcome, issued>>

-----------------------------------------------------------------------------
(* PatchApplier.apply *)

\* sort=False (ValidatedConfigDBConnector): one change per operation, in the patch's order.
Unsorted(p) ==
    {[i \in DOMAIN order |-> {order[i]}]
        : order \in {o \in [1..Cardinality(p) -> p] : {o[i] : i \in 1..Cardinality(p)} = p}}

\* The changes to apply, and the entries they are about.
WithChanges(j, list) ==
    [j EXCEPT !.changes = list, !.planned = @ \cup {e.key : e \in UNION {list[i] : i \in DOMAIN list}}]

\* old_config, target_config, and the checks on the two.
ReadOldConfig(s) ==
    /\ pc[s] = "read"
    /\ LET p == job[s].patch
           read == [job[s] EXCEPT !.target = Simulate(p, db), !.current = db]
       IN  IF ~(Applies(p, db) /\ Permitted(db, Simulate(p, db))) THEN Raise(s)
           ELSE /\ IF Op(s) = "apply_unsorted"
                   THEN \E list \in Unsorted(p) :
                           job' = [job EXCEPT ![s] = WithChanges(read, list)] /\ Goto(s, "change")
                   ELSE job' = [job EXCEPT ![s] = read] /\ Goto(s, "strict")
                /\ UNCHANGED <<db, files, outcome, issued>>

\* StrictPatchSorter.sort reads the configuration again to validate the target ...
StrictSort(s) ==
    /\ pc[s] = "strict"
    /\ IF Applies(job[s].patch, db) /\ Valid(Simulate(job[s].patch, db))
       THEN Goto(s, "sort") /\ UNCHANGED <<db, files, outcome, job, issued>>
       ELSE Raise(s)

\* ... and PatchSorter.sort a third time, to sort it.
Sort(s) ==
    /\ pc[s] = "sort"
    /\ LET plans == Plans(db, Simulate(job[s].patch, db))
       IN  IF Applies(job[s].patch, db) /\ plans # {}
           THEN /\ \E plan \in plans : job' = [job EXCEPT ![s] = WithChanges(@, plan)]
                /\ Goto(s, "change")
                /\ UNCHANGED <<db, files, outcome, issued>>
           ELSE Raise(s)

\* Mutant: the change stays in the list.
StartSameChange(s) ==
    /\ pc[s] = "change"
    /\ job[s].changes # <<>>
    /\ LET upd == ApplyPatch(Head(job[s].changes), job[s].current)
       IN  /\ job' = [job EXCEPT ![s].dirty = {k \in Keys : job[s].current[k] # upd[k]}, ![s].current = upd]
           /\ Goto(s, "write")
           /\ UNCHANGED <<db, files, outcome, issued>>

\* Mutant: the entries that differ from ConfigDB as it is now are written.
StartChangeFromLive(s) ==
    /\ pc[s] = "change"
    /\ job[s].changes # <<>>
    /\ LET upd == ApplyPatch(Head(job[s].changes), job[s].current)
       IN  /\ job' = [job EXCEPT
                  ![s].dirty = {k \in Keys : db[k] # upd[k]}, ![s].current = upd, ![s].changes = Tail(@)]
           /\ Goto(s, "write")
           /\ UNCHANGED <<db, files, outcome, issued>>

\* ChangeApplier.apply: the entries the change alters, as far as current_config knows.
StartChange(s) ==
    /\ pc[s] = "change"
    /\ job[s].changes # <<>>
    /\ LET change == Head(job[s].changes)
           upd == ApplyPatch(change, job[s].current)
       IN  IF Applies(change, job[s].current)
           THEN /\ job' = [job EXCEPT
                       ![s].dirty = {k \in Keys : job[s].current[k] # upd[k]},
                       ![s].current = upd,
                       ![s].changes = Tail(@)]
                /\ Goto(s, "write")
                /\ UNCHANGED <<db, files, outcome, issued>>
           ELSE Raise(s)

\* _upd_data: table by table in sorted order, the entries of a table in any order.
WriteEntry(s, k) ==
    /\ pc[s] = "write"
    /\ k \in job[s].dirty
    /\ \A l \in job[s].dirty : TableRank[k] <= TableRank[l]
    /\ db' = [db EXCEPT ![k] = Stored(job[s].current[k])]
    /\ job' = [job EXCEPT ![s].dirty = @ \ {k}]
    /\ UNCHANGED <<files, pc, outcome, issued>>

\* _services_validate, external commands: whatever they return, the change counts as applied.
ValidateServices(s) ==
    /\ pc[s] = "write"
    /\ job[s].dirty = {}
    /\ Goto(s, "change")
    /\ UNCHANGED <<db, files, outcome, job, issued>>

\* "after applying patch to config, there are still some parts not updated"
Verify(s) ==
    /\ pc[s] = "change"
    /\ job[s].changes = <<>>
    /\ IF Visible(job[s].target) # Visible(db) THEN Raise(s)
       ELSE /\ IF Op(s) \in ApplyOps THEN Succeed(s)
               ELSE Goto(s, "verify") /\ UNCHANGED outcome
            /\ UNCHANGED <<db, files, job, issued>>

\* ConfigReplacer.replace compares once more, with the configuration it was given.
VerifyReplace(s) ==
    /\ pc[s] = "verify"
    /\ IF Visible(job[s].goal) # Visible(db) THEN Raise(s)
       ELSE Succeed(s) /\ UNCHANGED <<db, files, job, issued>>

-----------------------------------------------------------------------------
Init ==
    /\ db \in InitialConfigs
    /\ files = [n \in Names |-> NoFile]
    /\ pc = [s \in Sessions |-> "idle"]
    /\ outcome = [s \in Sessions |-> "none"]
    /\ job = [s \in Sessions |-> NewJob([op |-> "none"], {})]
    /\ issued = 0

\* What a session does next, whoever else is running.
Step(s) ==
    \/ CheckExists(s) \/ LoadCheckpoint(s) \/ DeleteCheckpoint(s)
    \/ Snapshot(s) \/ OpenCheckpoint(s) \/ SaveCheckpoint(s)
    \/ GeneratePatch(s)
    \/ ReadOldConfig(s) \/ StrictSort(s) \/ Sort(s)
    \/ StartChange(s) \/ (\E k \in Keys : WriteEntry(s, k)) \/ ValidateServices(s)
    \/ Verify(s) \/ VerifyReplace(s)

AllDone == issued = MaxCommands /\ (\A s \in Sessions : Idle(s)) /\ UNCHANGED vars

(* Daemons write the backend tables on their own. *)
BackendWrite(k, e) ==
    /\ db' = [db EXCEPT ![k] = e]
    /\ UNCHANGED <<files, pc, outcome, job, issued>>

Next ==
    \/ \E k \in BackendKeys, e \in BackendEntries : BackendWrite(k, e)
    \/ \E s \in Sessions : Step(s) \/ Kill(s) \/ \E c \in Commands : Start(s, c)
    \/ AllDone

Spec == Init /\ [][Next]_vars
FairSpec == Spec /\ \A s \in Sessions : WF_vars(Step(s))

-----------------------------------------------------------------------------
(* What the updater promises. *)

Labels == {"idle", "exists", "load", "unlink", "snapshot", "open", "save", "diff", "read", "strict", "sort",
           "change", "write", "verify"}

TypeOK ==
    /\ db \in Configs
    /\ files \in [Names -> {NoFile, Torn} \cup Configs]
    /\ pc \in [Sessions -> Labels]
    /\ outcome \in [Sessions -> {"none", "running", "ok", "error", "killed"}]
    /\ job \in [Sessions -> Jobs]
    /\ issued \in 0..MaxCommands

(* A command that fails leaves ConfigDB as it found it: every check that can   *)
(* refuse a patch comes before the first set_entry, and neither the changes    *)
(* nor the comparisons after them can fail, although each change is applied to *)
(* the configuration the session remembers and not to the one it wrote.        *)
ErrorLeavesConfigUntouched ==
    \A s \in Sessions : outcome[s] = "error" => Visible(db) = Visible(job[s].before)

\* Nothing stands in the way of going from c to t.
Acceptable(c, t) == Permitted(c, t) /\ Valid(t) /\ Plans(c, Normalised(t)) # {}

(* Whatever a killed command left behind, replace and rollback get ConfigDB to *)
(* where they are told: they fail only when the configuration asked for is not *)
(* acceptable or the checkpoint file is not there or not whole.                *)
RecoveryAlwaysWorks ==
    \A s \in Sessions : outcome[s] = "error" =>
        /\ Op(s) = "replace" => ~Acceptable(job[s].before, job[s].cmd.config)
        /\ Op(s) = "rollback" =>
              files[Name(s)] \in {NoFile, Torn} \/ ~Acceptable(job[s].before, files[Name(s)])

(* A command that starts comes to an end. *)
EveryCommandEnds == \A s \in Sessions : ~Idle(s) ~> Idle(s)

PatchHolds(p) ==
    \A e \in p : e.key \notin BackendKeys => Cell(db, e) = IF e.value = EmptyList THEN Unset ELSE e.value

(* What a session has reported as applied stays in ConfigDB as long as no other *)
(* session's changes are about the same entries, although the sessions run      *)
(* without a lock, each applies its changes to a configuration it read before   *)
(* the others wrote, and any of them may fail or be killed half way.            *)
AppliedEntriesStay ==
    \A s \in Sessions :
        /\ outcome[s] = "ok"
        /\ \A t \in Sessions \ {s} : job[t].planned \cap {e.key : e \in job[s].patch} = {}
        => PatchHolds(job[s].patch)

\* Nobody is running, and both ended patches of their own.
BothApplied(s, t) ==
    /\ s # t
    /\ \A r \in Sessions : Idle(r)
    /\ outcome[s] = "ok" /\ outcome[t] = "ok"
    /\ {Op(s), Op(t)} \subseteq ApplyOps

(* Patches of different fields are both there: "Its not possible for the         *)
(* configuration to not be what we expect since we have a known state we are   *)
(* mutating with a lock" (ChangeApplier.apply).                                *)
NoLostField ==
    \A s, t \in Sessions :
        BothApplied(s, t) /\ (\A d \in job[s].patch, e \in job[t].patch : d.key # e.key \/ d.field # e.field)
            => PatchHolds(job[s].patch) /\ PatchHolds(job[t].patch)

(* "Normalizing the simulated target keeps the patch sorter, the change        *)
(* applier and the final verification in agreement" (remove_empty_leaf_lists): *)
(* once every change is applied, no comparison of a sole session fails.        *)
VerificationAgrees ==
    \A s \in Sessions :
        pc[s] = "verify" => Visible(job[s].goal) = Visible(db)
=============================================================================
