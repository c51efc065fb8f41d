------------------------------ MODULE DfsSorter ------------------------------
(***************************************************************************)
(* The search of the Generic Config Updater: DfsSorter.sort of             *)
(* generic_config_updater/patch_sorter.py, which turns the difference      *)
(* between a current and a target configuration into a list of moves, and  *)
(* PatchSorter.sort, which starts it and reports "There is no possible     *)
(* sorting" when it comes back empty-handed.                               *)
(*                                                                         *)
(* The Python recursion is an explicit stack.  What a move is, how moves   *)
(* are generated and which of them the validators accept are parameters:   *)
(* MoveValidators and PatchMoves give them meaning; the theorems of        *)
(* DfsSorterProofs hold for every choice of them.                          *)
(***************************************************************************)
EXTENDS Sequences, Naturals

CONSTANTS
    Configs,          \* configurations the search can stand on
    Moves,            \* move groups (JsonMoveGroup)
    Problems,         \* pairs <<current, target>> sort() is called with
    Generate(_, _),   \* MoveWrapper.generate(current, target), in yield order
    Validate(_, _, _),\* MoveWrapper.validate(move, current, target)
    Simulate(_, _)    \* MoveWrapper.simulate(move, current)

Targets == {p[2] : p \in Problems}

Elements(s) == {s[i] : i \in 1..Len(s)}

ASSUME ProblemsAssumption == Problems \subseteq Configs \X Configs

VARIABLES
    goal,      \* the Diff the sorter was started with
    pc,        \* where the innermost call of sort stands
    arg,       \* current_config of the call being entered or returned from
    ret,       \* what that call returns: None, or a list of moves
    stack,     \* the calls that wait for it, outermost first
    visited    \* self.visited

vars == <<goal, pc, arg, ret, stack, visited>>

start == goal[1]
target == goal[2]

\* A step of a returned list: the move, and the configuration it was tried on.
Steps == [move : Moves, from : Configs]
Frames == [cfg : Configs, todo : Seq(Moves)]

NoMoves == [found |-> FALSE, plan |-> <<>>]
MoveList(p) == [found |-> TRUE, plan |-> p]

TypeOK ==
    /\ goal \in Problems
    /\ pc \in {"enter", "loop", "return", "done"}
    /\ arg \in Configs
    /\ ret \in [found : BOOLEAN, plan : Seq(Steps)]
    /\ stack \in Seq(Frames)
    /\ visited \in SUBSET Configs

top == stack[Len(stack)]
Popped == SubSeq(stack, 1, Len(stack) - 1)
\* The loop `for move in moves` goes on to the next move.
NextMove == [stack EXCEPT ![Len(stack)].todo = Tail(@)]

Init ==
    /\ goal \in Problems
    /\ pc = "enter"
    /\ arg = goal[1]
    /\ ret = NoMoves
    /\ stack = <<>>
    /\ visited = {}

(* if diff.has_no_diff(): return [] *)
NoDiff ==
    /\ pc = "enter"
    /\ arg = target
    /\ pc' = "return"
    /\ ret' = MoveList(<<>>)
    /\ UNCHANGED <<goal, arg, stack, visited>>

(* if diff_hash in self.visited: return None *)
AlreadyVisited ==
    /\ pc = "enter"
    /\ arg # target
    /\ arg \in visited
    /\ pc' = "return"
    /\ ret' = NoMoves
    /\ UNCHANGED <<goal, arg, stack, visited>>

\* Mutant: the configuration is not recorded as visited.
ExpandUnrecorded ==
    /\ pc = "enter"
    /\ arg # target
    /\ arg \notin visited
    /\ stack' = Append(stack, [cfg |-> arg, todo |-> Generate(arg, target)])
    /\ pc' = "loop"
    /\ UNCHANGED <<goal, arg, ret, visited>>

(* self.visited[diff_hash] = True; moves = self.move_wrapper.generate(diff) *)
Expand ==
    /\ pc = "enter"
    /\ arg # target
    /\ arg \notin visited
    /\ visited' = visited \cup {arg}
    /\ stack' = Append(stack, [cfg |-> arg, todo |-> Generate(arg, target)])
    /\ pc' = "loop"
    /\ UNCHANGED <<goal, arg, ret>>

\* Mutant: the move is simulated without asking the validators.
TryMoveUnvalidated ==
    /\ pc = "loop"
    /\ top.todo # <<>>
    /\ arg' = Simulate(Head(top.todo), top.cfg)
    /\ pc' = "enter"
    /\ UNCHANGED <<goal, ret, stack, visited>>

(* The validators accept the move: simulate it and recurse. *)
TryMove ==
    /\ pc = "loop"
    /\ top.todo # <<>>
    /\ Validate(Head(top.todo), top.cfg, target)
    /\ arg' = Simulate(Head(top.todo), top.cfg)
    /\ pc' = "enter"
    /\ UNCHANGED <<goal, ret, stack, visited>>

\* Mutant: a rejected move ends the loop (break for continue).
RejectMoveBreaks ==
    /\ pc = "loop"
    /\ top.todo # <<>>
    /\ ~Validate(Head(top.todo), top.cfg, target)
    /\ stack' = [stack EXCEPT ![Len(stack)].todo = <<>>]
    /\ UNCHANGED <<goal, pc, arg, ret, visited>>

(* A validator rejects the move: on to the next one. *)
RejectMove ==
    /\ pc = "loop"
    /\ top.todo # <<>>
    /\ ~Validate(Head(top.todo), top.cfg, target)
    /\ stack' = NextMove
    /\ UNCHANGED <<goal, pc, arg, ret, visited>>

(* The loop ran out of moves: return None. *)
OutOfMoves ==
    /\ pc = "loop"
    /\ top.todo = <<>>
    /\ arg' = top.cfg
    /\ stack' = Popped
    /\ ret' = NoMoves
    /\ pc' = "return"
    /\ UNCHANGED <<goal, visited>>

\* Mutant: the loop tries the same move again.
ReturnNoneRetries ==
    /\ pc = "return"
    /\ stack # <<>>
    /\ ~ret.found
    /\ pc' = "loop"
    /\ UNCHANGED <<goal, arg, ret, stack, visited>>

(* new_moves is None: the caller's loop goes on. *)
ReturnNone ==
    /\ pc = "return"
    /\ stack # <<>>
    /\ ~ret.found
    /\ stack' = NextMove
    /\ pc' = "loop"
    /\ UNCHANGED <<goal, arg, ret, visited>>

\* Mutant: return new_moves + [move].
ReturnFoundAppends ==
    /\ pc = "return"
    /\ stack # <<>>
    /\ ret.found
    /\ ret' = MoveList(Append(ret.plan, [move |-> Head(top.todo), from |-> top.cfg]))
    /\ arg' = top.cfg
    /\ stack' = Popped
    /\ UNCHANGED <<goal, pc, visited>>

(* return [move] + new_moves *)
ReturnFound ==
    /\ pc = "return"
    /\ stack # <<>>
    /\ ret.found
    /\ ret' = MoveList(<<[move |-> Head(top.todo), from |-> top.cfg]>> \o ret.plan)
    /\ arg' = top.cfg
    /\ stack' = Popped
    /\ UNCHANGED <<goal, pc, visited>>

(* PatchSorter.sort has its answer: the changes, or "There is no possible sorting". *)
Finish ==
    /\ pc = "return"
    /\ stack = <<>>
    /\ pc' = "done"
    /\ UNCHANGED <<goal, arg, ret, stack, visited>>

Stopped == pc = "done" /\ UNCHANGED vars

Next ==
    \/ NoDiff \/ AlreadyVisited \/ Expand
    \/ TryMove \/ RejectMove \/ OutOfMoves
    \/ ReturnNone \/ ReturnFound
    \/ Finish \/ Stopped

Spec == Init /\ [][Next]_vars
FairSpec == Spec /\ WF_vars(Next)

-----------------------------------------------------------------------------
(* What the search promises. *)

Sorted == pc = "done" /\ ret.found
Failed == pc = "done" /\ ~ret.found

\* Applying the moves of p one by one to c ends at t, and every one of them is a
\* generated move that the validators accept where it is applied.
IsPlan(p, c, t) ==
    /\ p = <<>> => c = t
    /\ p # <<>> => p[1].from = c /\ Simulate(p[Len(p)].move, p[Len(p)].from) = t
    /\ \A i \in 1..Len(p) :
          /\ p[i].move \in Elements(Generate(p[i].from, t))
          /\ Validate(p[i].move, p[i].from, t)
          /\ i < Len(p) => p[i + 1].from = Simulate(p[i].move, p[i].from)

\* No accepted move leads out of S.
ClosedUnderMoves(S, t) ==
    \A c \in S : \A m \in Elements(Generate(c, t)) :
        Validate(m, c, t) => Simulate(m, c) \in S

(* The list PatchSorter.sort hands to the change applier leads from the     *)
(* current to the target configuration through accepted moves only, however *)
(* much backtracking (`return None`) the recursion needed.                  *)
PlanReachesTarget == Sorted => IsPlan(ret.plan, start, target)

(* "There is no possible sorting" is only raised when there is none: the     *)
(* visited set then holds the start, not the target, and no accepted move    *)
(* leaves it, although a configuration met a second time is never expanded   *)
(* again.                                                                    *)
FailureIsFinal ==
    Failed => start \in visited /\ target \notin visited /\ ClosedUnderMoves(visited, target)

(* The search never stands twice on the stack on one configuration: a plan   *)
(* does not undo and redo its own steps (`diff_hash in self.visited`).       *)
NoRepeatedConfig ==
    \A i, j \in 1..Len(stack) : stack[i].cfg = stack[j].cfg => i = j

(* sort() comes to an end although moves can undo each other. *)
Terminates == <>(pc = "done")
=============================================================================
