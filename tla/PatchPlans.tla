----------------------------- MODULE PatchPlans -----------------------------
(***************************************************************************)
(* What a plan of the patch sorter does to the switch on its way from the  *)
(* current to the target configuration: the search (DfsSorter) with the    *)
(* validators of the code (MoveValidators), whatever generates the moves.  *)
(***************************************************************************)
EXTENDS DfsSorter, MoveValidators

\* The configurations before and after the i-th change of the plan.
Before(i) == ret.plan[i].from
After(i) == IF i < Len(ret.plan) THEN ret.plan[i + 1].from ELSE target

\* What a move puts goes into the table its path names.
KeepsTables(m) == m.path # Root => m.put # Root /\ m.put[1] = m.path[1]

(* No change leaves an empty table behind (ConfigDb cannot hold one), although *)
(* NoEmptyTableMoveValidator only looks at the tables the paths of a group name.*)
NoEmptyTableOnTheWay ==
    Sorted => \A i \in 1..Len(ret.plan) : ~HasEmptyTable(After(i), Tables(After(i)))

(* A port gets new lanes, and every other create-only field a new value, by    *)
(* the entry being deleted and created: some change of the plan removes the    *)
(* whole entry, and none alters the field of an entry that stays.              *)
CreateOnlyThroughRemoval ==
    Sorted =>
        /\ \A i \in 1..Len(ret.plan) : \A q \in CreateOnlyFields(Before(i)) :
              Has(After(i), q) => ~Differs(q, Before(i), After(i))
        /\ \A q \in CreateOnlyFields(start) :
              Has(target, q) /\ Differs(q, start, target)
                  => \E i \in 1..Len(ret.plan) : ~Has(After(i), Front(q))

\* The port is down, or not there, in c.
PortIsDown(port, c) == AdminOrDefault(c, port) \in {"none", "down"}

(* A queue, and whatever else RequiredValueMoveValidator watches, only changes *)
(* while its port is down, or not there, both before and after the change.     *)
CriticalChangesWhilePortDown ==
    Sorted => \A i \in 1..Len(ret.plan) : \A q \in RequiringPaths({Before(i), After(i)}) :
        Differs(q, Before(i), After(i)) =>
            PortIsDown(PortOf(q), Before(i)) /\ PortIsDown(PortOf(q), After(i))
=============================================================================
