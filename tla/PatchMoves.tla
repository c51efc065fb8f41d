----------------------------- MODULE PatchMoves -----------------------------
(***************************************************************************)
(* Where the moves of the patch sorter come from                           *)
(* (generic_config_updater/patch_sorter.py): the six non-extendable        *)
(* generators, the low level generator and the four extenders that         *)
(* SortAlgorithmFactory.create wires together.                             *)
(***************************************************************************)
EXTENDS MoveValidators

-----------------------------------------------------------------------------
(* Non-extendable generators, each a sequence of groups in yield order. *)

Single(m) == <<m>>

\* __remove_nonempty: widen the removal while it would empty its parent.
RemoveNonempty(c, p) ==
    LET n == CHOOSE k \in 1..Len(p) :
                /\ \A j \in k..(Len(p) - 1) : Len(Kids(c, SubSeq(p, 1, j))) = 1
                /\ k = 1 \/ Len(Kids(c, SubSeq(p, 1, k - 1))) # 1
    IN  RemoveMove(SubSeq(p, 1, n))

MaxRecursion == 10

\* __remove_dependents: what refers to p goes first, what refers to that before it.
RECURSIVE RemoveDependents(_, _, _, _)
RemoveDependents(c, p, removeParent, depth) ==
    IF depth >= MaxRecursion THEN <<>>
    ELSE ForEach(InOrder(FindRefPaths({p}, c)), LAMBDA r :
            LET q == IF removeParent THEN Front(r) ELSE r
            IN  Append(RemoveDependents(c, q, removeParent, depth + 1), Single(RemoveNonempty(c, q))))

RemoveCreateOnlyDependencyMoves(c, t) ==
    ForEach(CreateOnlyPaths(c), LAMBDA q :
        IF Has(t, q) /\ Differs(q, c, t)
        THEN RemoveDependents(c, Front(q), FALSE, 0)
             \o <<Single(RemoveNonempty(c, Front(q)))>>
             \o RemoveDependents(c, Front(q), TRUE, 0)
        ELSE <<>>)

IsList(c, p) == Has(c, p) /\ c[p] = LIST

\* One REPLACE per leaf-list that both sides have and that does not end up empty.
BulkLeafListMoves(c, t) ==
    LET lists == {q \in DOMAIN c : IsList(c, q) /\ IsList(t, q) /\ Differs(q, c, t) /\ Kids(t, q) # <<>>}
    IN  ForEach(InOrder(lists), LAMBDA q : <<Single(ReplaceMove(t, q))>>)

\* Keys of c that d lacks.  sorted(..., reverse=True) keeps the order of equal elements.
MissingKeys(c, d, reverse) ==
    LET tables == IF reverse THEN Reverse(TablesByBacklinks) ELSE TablesByBacklinks
    IN  ForEach(tables, LAMBDA tab :
            InOrder({q \in DOMAIN c : Len(q) = 2 /\ q[1] = tab /\ ~Has(d, q)}))

SameGroup(q, r) == q[1] = r[1] /\ Separators[q[2]] = Separators[r[2]]

\* Maximal runs of keys that are grouped together.
Runs(keys) ==
    FoldLeft(LAMBDA acc, q :
                IF acc # <<>> /\ SameGroup(Last(Last(acc)), q)
                THEN Append(Front(acc), Append(Last(acc), q))
                ELSE Append(acc, <<q>>),
             <<>>, keys)

\* Mutant: the table goes with any run of its keys.
BulkKeyRemovalsWithTable(c, t) ==
    LET runs == Runs(MissingKeys(c, t, FALSE))
        Group(run) == Append([j \in 1..Len(run) |-> RemoveMove(run[j])], RemoveMove(<<run[1][1]>>))
    IN  [i \in 1..Len(runs) |-> Group(runs[i])]

\* A run that holds all keys of its table also removes a table: its own if it is the
\* last run, but the table of the following run otherwise.
BulkKeyRemovals(c, t) ==
    LET runs == Runs(MissingKeys(c, t, FALSE))
        Group(i) ==
            LET run == runs[i]
                removals == [j \in 1..Len(run) |-> RemoveMove(run[j])]
                table == IF i = Len(runs) THEN run[1][1] ELSE runs[i + 1][1][1]
            IN  IF Len(run) = Len(Kids(c, <<run[1][1]>>))
                THEN Append(removals, RemoveMove(<<table>>)) ELSE removals
    IN  [i \in 1..Len(runs) |-> Group(i)]

BulkKeyAdditions(c, t) ==
    LET keys == SelectSeq(MissingKeys(t, c, TRUE), LAMBDA q : Has(c, <<q[1]>>))
        runs == Runs(keys)
    IN  [i \in 1..Len(runs) |-> [j \in 1..Len(runs[i]) |-> AddMove(c, t, runs[i][j])]]

BulkKeyLevelMoves(c, t) == BulkKeyRemovals(c, t) \o BulkKeyAdditions(c, t)

\* A table's only key goes with the table.
KeyLevelMoves(c, t) ==
    ForEach(MissingKeys(c, t, FALSE), LAMBDA q :
        <<Single(RemoveMove(IF Len(Kids(c, <<q[1]>>)) = 1 THEN <<q[1]>> ELSE q))>>)
    \o ForEach(MissingKeys(t, c, TRUE), LAMBDA q : <<Single(AddMove(c, t, q))>>)

FieldsOf(c, q) == {r \in DOMAIN c : Len(r) = 3 /\ IsPrefix(q, r)}
OnlyLeaves(c, q) == \A r \in FieldsOf(c, q) : c[r] \notin {DICT, LIST}

FieldMove(op, c, t, r) ==
    CASE op = "remove"  -> RemoveMove(r)
      [] op = "replace" -> ReplaceMove(t, r)
      [] op = "add"     -> AddMove(c, t, r)

ChangedFields(op, c, t, q) ==
    CASE op = "remove"  -> {r \in FieldsOf(c, q) : ~Has(t, r)}
      [] op = "replace" -> {r \in FieldsOf(c, q) : Has(t, r) /\ t[r] # c[r]}
      [] op = "add"     -> {r \in FieldsOf(t, q) : ~Has(c, r)}

\* BulkLowLevelMoveGenerator.__traverse: one group per key whose fields are all leaves.
BulkLowLevelOf(op, c, t, minMoves, restrictedOnly) ==
    LET tables == IF op = "remove" THEN TablesByBacklinks ELSE Reverse(TablesByBacklinks)
        keys == ForEach(tables, LAMBDA tab : InOrder({q \in DOMAIN c :
                    Len(q) = 2 /\ q[1] = tab /\ Has(t, q) /\ OnlyLeaves(c, q) /\ OnlyLeaves(t, q)}))
        Group(q) == ForEach(InOrder({r \in ChangedFields(op, c, t, q) :
                                        InRequiredPattern(r) = restrictedOnly}),
                            LAMBDA r : <<FieldMove(op, c, t, r)>>)
    IN  SelectSeq([i \in 1..Len(keys) |-> Group(keys[i])], LAMBDA g : Len(g) >= minMoves)

BulkLowLevelMoves(c, t) ==
    ForEach(<<"remove", "replace", "add">>, LAMBDA op : BulkLowLevelOf(op, c, t, 2, FALSE))

\* parentTableName: up to the last "|" of the key, or the table.
ParentTable(g) ==
    LET q == g[1].path
    IN  IF Separators[q[2]] > 0 THEN <<q[1], KeyPrefix[q[2]]>> ELSE <<q[1]>>

\* Neighbouring groups of one parent are merged; single moves are left to LowLevelMoves.
MergedGroups(groups) ==
    SelectSeq(FoldLeft(LAMBDA acc, g :
                          IF acc # <<>> /\ ParentTable(Last(acc)) = ParentTable(g)
                          THEN Append(Front(acc), Last(acc) \o g)
                          ELSE Append(acc, g),
                       <<>>, groups),
              LAMBDA g : Len(g) > 1)

BulkKeyGroupLowLevelMoves(c, t) ==
    ForEach(<<"remove", "replace", "add">>, LAMBDA op :
        MergedGroups(BulkLowLevelOf(op, c, t, 1, FALSE))
        \o MergedGroups(BulkLowLevelOf(op, c, t, 1, TRUE)))

-----------------------------------------------------------------------------
(* LowLevelMoveGenerator *)

\* _traverse_current: what only c has goes leaf by leaf.
RECURSIVE RemoveLeaves(_, _)
RemoveLeaves(c, p) ==
    LET kids == Kids(c, p)
    IN  IF kids = <<>> \/ (IsList(c, p) /\ Len(kids) = 1)
        THEN <<Single(RemoveMove(p))>>
        ELSE ForEach(kids, LAMBDA k : RemoveLeaves(c, Below(p, k)))

\* _traverse_target: what only t has comes leaf by leaf.
RECURSIVE AddLeaves(_, _, _)
AddLeaves(c, t, p) ==
    IF Kids(t, p) = <<>>
    THEN <<Single(AddMove(c, t, p))>>
    ELSE ForEach(Kids(t, p), LAMBDA k : AddLeaves(c, t, Below(p, k)))

\* _traverse_list: remove, add, and replace one item by another.
ListMoves(c, t, p) ==
    LET gone == SelectSeq(Kids(c, p), LAMBDA k : ~Has(t, Below(p, k)))
        new  == SelectSeq(Kids(t, p), LAMBDA k : ~Has(c, Below(p, k)))
    IN  ForEach(gone, LAMBDA k : <<Single(RemoveMove(Below(p, k)))>>)
        \o ForEach(new, LAMBDA k : <<Single(AddMove(c, t, Below(p, k)))>>)
        \o ForEach(gone, LAMBDA k : ForEach(new, LAMBDA l :
              <<Single(ReplaceItemMove(t, Below(p, k), Below(p, l)))>>))

RECURSIVE LowLevelBelow(_, _, _)
LowLevelBelow(c, t, p) ==
    CASE IsList(c, p) -> ListMoves(c, t, p)
      [] c[p] = DICT ->
            ForEach(Kids(c, p), LAMBDA k :
                IF Has(t, Below(p, k)) THEN LowLevelBelow(c, t, Below(p, k))
                                       ELSE RemoveLeaves(c, Below(p, k)))
            \o ForEach(SelectSeq(Kids(t, p), LAMBDA k : ~Has(c, Below(p, k))),
                       LAMBDA k : AddLeaves(c, t, Below(p, k)))
      [] OTHER -> IF c[p] = t[p] THEN <<>> ELSE <<Single(ReplaceMove(t, p))>>

LowLevelMoves(c, t) == LowLevelBelow(c, t, Root)

-----------------------------------------------------------------------------
(* Move extenders: further moves derived from move m. *)

PortsInOrder(ports) ==
    LET found == SelectSeq(PathOrder, LAMBDA q : Len(q) = 2 /\ q[1] = "PORT" /\ q[2] \in ports)
    IN  [i \in 1..Len(found) |-> found[i][2]]

\* _flip: the same move, with the ports it raises too early kept down.
Flip(m, ports) ==
    LET flipped == {From(AdminStatus(p), Len(m.path)) : p \in ports}
    IN  [m EXCEPT !.value = {node \in @ : node[1] \notin flipped} \cup (flipped \X {"down"}),
                  !.cur = m.path]

\* Mutant: a port that is up is not brought down first.
RequiredValueFlipOnly(m, c, t) ==
    LET raised == PortsRaisedEarly(c, Apply(m, c), t)
    IN  IF (m.op = "remove" /\ m.path = Root) \/ raised = {} THEN <<>> ELSE <<Flip(m, raised)>>

RequiredValueExtension(m, c, t) ==
    LET s == Apply(m, c)
        raised == PortsRaisedEarly(c, s, t)
    IN  IF m.op = "remove" /\ m.path = Root THEN <<>>
        ELSE ForEach(PortsInOrder(PortsNotDown(c, s, t)), LAMBDA p :
                 <<Patch("replace", AdminStatus(p), AdminStatus(p), Down, AdminStatus(p))>>)
             \o (IF raised = {} THEN <<>> ELSE <<Flip(m, raised)>>)

\* _get_upper_operation: the first token one side lacks decides.
UpperLevelExtension(m, c, t) ==
    LET up == Front(m.cur)
        lacking == {i \in 1..Len(up) : ~Has(c, SubSeq(up, 1, i)) \/ ~Has(t, SubSeq(up, 1, i))}
        first == SubSeq(up, 1, CHOOSE i \in lacking : \A j \in lacking : i <= j)
    IN  IF m.cur = Root THEN <<>>
        ELSE IF lacking = {} THEN <<ReplaceMove(t, up)>>
        ELSE IF ~Has(c, first) THEN <<AddMove(c, t, up)>>
        ELSE <<RemoveMove(up)>>

DeleteInsteadOfReplaceExtension(m, c, t) ==
    IF m.op = "replace" /\ m.cur # Root THEN <<RemoveMove(m.cur)>> ELSE <<>>

DeleteRefsExtension(m, c, t) ==
    IF m.op = "remove"
    THEN ForEach(InOrder(FindRefPaths({m.path}, c)), LAMBDA r : <<RemoveMove(r)>>)
    ELSE <<>>

Extensions(m, c, t) ==
    RequiredValueExtension(m, c, t) \o UpperLevelExtension(m, c, t)
    \o DeleteInsteadOfReplaceExtension(m, c, t) \o DeleteRefsExtension(m, c, t)

-----------------------------------------------------------------------------
(* MoveWrapper.generate *)

Patches(gs) == {SamePatch(gs[i]) : i \in 1..Len(gs)}

Deduplicated(gs) ==
    LET patch == [i \in 1..Len(gs) |-> SamePatch(gs[i])]
    IN  FlattenSeq([i \in 1..Len(gs) |->
            IF \E j \in 1..(i - 1) : patch[j] = patch[i] THEN <<>> ELSE <<gs[i]>>])

\* The queue of extended moves: yield what was not yielded (processed_moves), extend
\* what was not extended (extended_moves).
RECURSIVE ExtendAll(_, _, _, _, _)
ExtendAll(queue, extended, processed, c, t) ==
    IF queue = <<>> THEN <<>>
    ELSE LET g == Single(Head(queue))
             patch == SamePatch(g)
             more == IF patch \in extended THEN <<>> ELSE Extensions(Head(queue), c, t)
         IN  (IF patch \in processed THEN <<>> ELSE <<g>>)
             \o ExtendAll(Tail(queue) \o more, extended \cup {patch}, processed \cup {patch}, c, t)

NonExtendableMoves(c, t) ==
    RemoveCreateOnlyDependencyMoves(c, t) \o BulkLeafListMoves(c, t)
    \o BulkKeyLevelMoves(c, t) \o KeyLevelMoves(c, t)
    \o BulkKeyGroupLowLevelMoves(c, t) \o BulkLowLevelMoves(c, t)

GenerateMoves(c, t) ==
    LET low == Deduplicated(LowLevelMoves(c, t))
        yielded == Deduplicated(NonExtendableMoves(c, t) \o low)
    IN  yielded \o ExtendAll(ForEach(low, LAMBDA g : Extensions(g[1], c, t)),
                             Patches(low), Patches(yielded), c, t)
=============================================================================
