-------------------------- MODULE UpdaterAtomicity --------------------------
(***************************************************************************)
(* The updater as a sole session implements AtomicUpdate, and what this     *)
(* asks of the sorter, of the commands and of the daemons that write the    *)
(* backend tables at the same time.                                         *)
(***************************************************************************)
EXTENDS GenericUpdater

CONSTANT Interim   \* what a field may hold on the way, besides its old and new value

\* Unset is no list, and set_entry stores [] as something else.
ASSUME ListsAssumption ==
    /\ EmptyList # Unset /\ BlankList # EmptyList
    /\ EmptyList \in Interim => BlankList \in Interim

VisibleKeys == Keys \ BackendKeys

-----------------------------------------------------------------------------
(* A sole session implements AtomicUpdate. *)

Sole == CHOOSE s \in Sessions : TRUE

\* simulate_config_db_patch on what the comparisons see.
VisiblyPatched(p, c) == Visible(Simulate(p, [k \in Keys |-> IF k \in DOMAIN c THEN c[k] ELSE NoConfig[k]]))

\* The configuration as of the last command that ended, and the checkpoints.
ConfigSeen == Visible(IF outcome[Sole] = "running" THEN job[Sole].before ELSE db)
CheckpointsSeen == [n \in Names |-> IF files[n] \in {NoFile, Torn} THEN files[n] ELSE Visible(files[n])]

Atomic == INSTANCE AtomicUpdate WITH
    Requests <- Commands,
    Initial  <- {Visible(c) : c \in InitialConfigs},
    Patched  <- VisiblyPatched,
    Shown    <- Visible,
    config   <- ConfigSeen,
    saved    <- CheckpointsSeen,
    request  <- job[Sole].cmd,
    status   <- outcome[Sole]

(* The commands of a sole session are atomic: through all its readings, the    *)
(* sorted changes and the single writes of apply-patch, replace and rollback,  *)
(* the configuration an operator finds when a command has ended is the one     *)
(* asked for, the one from before, or, after a kill, a mixture of the two in   *)
(* which no field has a third value but those of Interim; and a checkpoint is  *)
(* lost only to a `checkpoint` of its name that was killed with the file open. *)
CommandsAreAtomic == Atomic!Spec

-----------------------------------------------------------------------------
(* What it takes. *)

\* The changes of the list lead through the configurations of q, each applied to
\* what the ones before it have left.
IsPath(q, list) ==
    \A i \in 1..Len(list) : Applies(list[i], q[i - 1]) /\ q[i] = ApplyPatch(list[i], q[i - 1])

\* Every visible field of c is as in b, as in t, or passes through.
Mixed(c, b, t) ==
    \A k \in VisibleKeys : \A f \in Fields : c[k][f] \in {b[k][f], t[k][f]} \cup Interim

\* They lead from c to t, and no field strays on the way.  DfsSorterProofs!PlanIsSound
\* shows the first of the sorter.
Leads(q, list, c, t) ==
    /\ IsPath(q, list) /\ q[0] = c /\ q[Len(list)] = t
    /\ \A i \in 0..Len(list) : Mixed(q[i], c, t)

\* One session; no other command line.
SoleSession == \A s, t \in Sessions : s = t

\* Nothing is asked for with an empty leaf-list, but through the sorter, whose
\* target has none (ConfigDB has none: set_entry).
NoEmptyLists(c) == \A k \in VisibleKeys : \A f \in Fields : c[k][f] # EmptyList
NoEmptyListsGiven ==
    /\ \A c \in InitialConfigs : NoEmptyLists(c)
    /\ \A c \in Commands : c.op = "replace" => NoEmptyLists(c.config)
    /\ \A c \in Commands : c.op = "apply_unsorted" =>
          \A e \in c.patch : e.key \in VisibleKeys => e.value # EmptyList

\* While a command runs, the daemons give the fields of their entries other
\* values, but add and remove none.
DaemonsKeepFields ==
    \A k \in BackendKeys : \A e \in BackendEntries : BackendWrite(k, e) =>
        (\A s \in Sessions : Idle(s)) \/ \A f \in Fields : e[f] = Unset <=> db[k][f] = Unset
=============================================================================
