--------------------------- MODULE ScopedUpdater ---------------------------
(* apply-patch, replace, rollback and the checkpoints on a switch with      *)
(* several databases: the front end prepares a patch against the running    *)
(* configuration, splits it by scope, and runs one updater for each scope,  *)
(* in turn or in parallel threads that share a dictionary of results.  What *)
(* one updater does is GenericUpdater's promise: the scope is brought to    *)
(* its target, or an error leaves it as it was.  Other writers go on        *)
(* meanwhile.  A configuration is table -> leaf-list.                       *)
EXTENDS Naturals, Sequences, FiniteSets, TLC
LOCAL INSTANCE SequencesExt

CONSTANTS
  ScopeOrder,     \* scopelist: "localhost", then the ASICs
  MultiAsic,
  PatchTables, PatchValues,
  RefusedValues,  \* values the YANG models refuse
  CheckpointNames,
  MaxUpdates,     \* bound on the commands of a behaviour
  MaxWrites       \* bound on what other writers add

VARIABLES
  conf,           \* scope -> its ConfigDB
  checkpoints,    \* name -> saved configurations
  upd,            \* the command that runs
  said,           \* what the last command printed
  updates, writes
scopedVars == <<conf, checkpoints, upd, said, updates, writes>>

Scopes == ToSet(ScopeOrder)
NoUpdate == [pc |-> "idle", parallel |-> FALSE, todo |-> <<>>, plan |-> <<>>, results |-> <<>>]
Nothing == [x \in {} |-> x]
ScopedInit ==
  /\ conf = [s \in Scopes |-> IF s = ScopeOrder[1] THEN [t \in PatchTables |-> <<>>] ELSE Nothing]
  /\ checkpoints = Nothing /\ upd = NoUpdate
  /\ said = [answer |-> "", wanted |-> {}] /\ updates = 0 /\ writes = 0

(* An operation: [op, scope, table, value]; "add" appends to the leaf-list, *)
(* "table" puts an empty table.                                             *)
ApplyOp(c, o) ==
  IF o.op = "table" THEN (o.table :> <<>>) @@ c ELSE [c EXCEPT ![o.table] = Append(@, o.value)]
Applicable(c, ops) ==
  \A i \in DOMAIN ops :
    ops[i].op = "add" =>
      ops[i].table \in DOMAIN c \/ \E j \in 1..(i-1) : ops[j].op = "table" /\ ops[j].table = ops[i].table
ApplyOps(c, ops) == FoldLeft(ApplyOp, c, ops)
ValidConfig(c) ==
  \A t \in DOMAIN c : IsInjective(c[t]) /\ ToSet(c[t]) \cap RefusedValues = {}
OpsOf(ops, s) == SelectSeq(ops, LAMBDA o : o.scope = s)

---------------------------------------------------------------------------
(* Preparing a patch                                                       *)
validate_patch_format(ops) == \A i \in DOMAIN ops : ops[i].op \in {"add", "table", "test"}

\* One empty table before the first operation that names a missing one.
append_emptytables_if_required(ops, running) ==
  LET Missing(i) == /\ ops[i].table \notin DOMAIN running[ops[i].scope]
                    /\ \A j \in 1..(i-1) : <<ops[j].scope, ops[j].table>> # <<ops[i].scope, ops[i].table>>
  IN  FlattenSeq([i \in DOMAIN ops |->
        IF Missing(i) THEN <<[ops[i] EXCEPT !.op = "table"], ops[i]>> ELSE <<ops[i]>>])

Target(running, ops) == [s \in Scopes |-> ApplyOps(running[s], OpsOf(ops, s))]
Repeated(list) == {list[i] : i \in {i \in DOMAIN list : \E j \in 1..(i-1) : list[j] = list[i]}}

\* Every add of a value that the target would have twice is dropped.
filter_duplicate_patch_operations(ops, running) ==
  LET target == Target(running, ops)
  IN  SelectSeq(ops, LAMBDA o : ~(o.op = "add" /\ o.value \in Repeated(target[o.scope][o.table])))

validate_patch(ops, running) == \A s \in Scopes : ValidConfig(Target(running, ops)[s])

extract_scope(o) == o.scope \in Scopes /\ (MultiAsic => o.scope # "")

---------------------------------------------------------------------------
(* Commands                                                                *)
CanStart == upd.pc = "idle" /\ updates < MaxUpdates
Say(answer, wanted) == said' = [answer |-> answer, wanted |-> wanted]
Refuse ==
  /\ Say("error", {}) /\ updates' = updates + 1
  /\ UNCHANGED <<conf, checkpoints, upd, writes>>
Run(pc, todo, plan, parallel) ==
  /\ upd' = [pc |-> pc, parallel |-> parallel, todo |-> todo, plan |-> plan, results |-> <<>>]
  /\ updates' = updates + 1 /\ Say("", {})
  /\ UNCHANGED <<conf, checkpoints, writes>>

\* The scopes of a patch in the order they first occur; all for an empty one.
ScopesOf(ops) ==
  IF ops = <<>> THEN ScopeOrder
  ELSE FoldLeft(LAMBDA ss, o : IF Contains(ss, o.scope) THEN ss ELSE Append(ss, o.scope), <<>>, ops)

apply_patch_from_file(ops, parallel) ==
  LET tabled == append_emptytables_if_required(ops, conf)
      filtered == filter_duplicate_patch_operations(tabled, conf)
  IN  /\ CanStart
      /\ IF /\ validate_patch_format(ops)
            /\ \A i \in DOMAIN ops : extract_scope(ops[i])
            /\ validate_patch(filtered, conf)
         THEN Run("apply", ScopesOf(filtered), filtered, parallel)
         ELSE Refuse

\* MultiASICConfigReplacer.replace: all scopes must be there.
replace(config) ==
  /\ CanStart
  /\ IF DOMAIN config = Scopes THEN Run("replace", ScopeOrder, config, FALSE) ELSE Refuse

\* MultiASICConfigRollbacker.rollback: a scope is looked up when it comes up.
rollback_scopes(name) ==
  /\ CanStart
  /\ IF name \in DOMAIN checkpoints THEN Run("replace", ScopeOrder, checkpoints[name], FALSE) ELSE Refuse
checkpoint_scopes(name) ==
  /\ CanStart /\ updates' = updates + 1 /\ Say("ok", {})
  /\ checkpoints' = (name :> conf) @@ checkpoints
  /\ UNCHANGED <<conf, upd, writes>>
delete_checkpoint(name) ==
  /\ CanStart /\ name \in DOMAIN checkpoints /\ updates' = updates + 1 /\ Say("ok", {})
  /\ checkpoints' = [n \in DOMAIN checkpoints \ {name} |-> checkpoints[n]]
  /\ UNCHANGED <<conf, upd, writes>>

---------------------------------------------------------------------------
(* One scope                                                               *)
scope_for_log(s) == IF s = "" THEN "localhost" ELSE s
IsNext(s) == IF upd.parallel THEN s \in ToSet(upd.todo) ELSE upd.todo # <<>> /\ s = Head(upd.todo)

\* The results go to a dictionary; nothing stops at a failure.
apply_patch_for_scope(s, success) ==
  LET ops == OpsOf(upd.plan, s)
      new == ApplyOps(conf[s], ops)
  IN  /\ upd.pc = "apply" /\ IsNext(s)
      /\ success => Applicable(conf[s], ops) /\ ValidConfig(new)
      /\ conf' = IF success THEN [conf EXCEPT ![s] = new] ELSE conf
      /\ upd' = [upd EXCEPT !.todo = SelectSeq(@, LAMBDA x : x # s),
                            !.results = IF DOMAIN @ = {} THEN scope_for_log(s) :> success
                                        ELSE (scope_for_log(s) :> success) @@ @]
      /\ UNCHANGED <<checkpoints, said, updates, writes>>

\* failures: what the dictionary has that did not succeed.
AggregateResults ==
  /\ upd.pc = "apply" /\ upd.todo = <<>>
  /\ IF \E n \in DOMAIN upd.results : ~upd.results[n] THEN Say("error", {})
     ELSE Say("ok", {upd.plan[i] : i \in DOMAIN upd.plan})
  /\ upd' = NoUpdate
  /\ UNCHANGED <<conf, checkpoints, updates, writes>>

\* ConfigReplacer.replace of one scope; the first error ends the command
\* and the scopes before it stay replaced.
ReplaceScope(success) ==
  LET s == Head(upd.todo) IN
  /\ upd.pc = "replace" /\ upd.todo # <<>>
  /\ success => s \in DOMAIN upd.plan /\ ValidConfig(upd.plan[s])
  /\ conf' = IF success THEN [conf EXCEPT ![s] = upd.plan[s]] ELSE conf
  /\ IF success /\ Len(upd.todo) > 1 THEN upd' = [upd EXCEPT !.todo = Tail(@)] /\ UNCHANGED said
     ELSE /\ upd' = NoUpdate
          /\ IF success THEN Say("ok", {}) ELSE Say("error", {})
  /\ UNCHANGED <<checkpoints, updates, writes>>

OtherWrite(s, t, v) ==
  /\ writes < MaxWrites /\ writes' = writes + 1
  /\ t \in DOMAIN conf[s] /\ v \notin ToSet(conf[s][t])
  /\ conf' = [conf EXCEPT ![s][t] = Append(@, v)]
  /\ UNCHANGED <<checkpoints, upd, said, updates>>

---------------------------------------------------------------------------
(* Hazard: a patch is prepared against one reading of the configuration and *)
(* applied scope by scope, in threads, while others write.  When apply-patch *)
(* says that the patch was applied, every operation it decided to make has   *)
(* taken effect in its scope, in all scopes, and no leaf-list holds a value  *)
(* twice.                                                                    *)
SuccessMeansApplied ==
  said.answer = "ok" =>
    \A o \in said.wanted :
      /\ o.table \in DOMAIN conf[o.scope]
      /\ o.op = "add" => o.value \in ToSet(conf[o.scope][o.table])
      /\ IsInjective(conf[o.scope][o.table])
===========================================================================
