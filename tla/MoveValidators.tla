--------------------------- MODULE MoveValidators ---------------------------
(***************************************************************************)
(* Configurations, JsonMove and JsonMoveGroup, and the seven validators    *)
(* every move of the patch sorter has to pass                              *)
(* (generic_config_updater/patch_sorter.py, gu_common.py), as wired by     *)
(* SortAlgorithmFactory.create.                                            *)
(*                                                                         *)
(* A configuration is the set of its JSON nodes: a function from paths     *)
(* (sequences of tokens, <<>> the root) to DICT, LIST or a scalar.  A      *)
(* leaf-list is a LIST node with one child per item, named by the item: the*)
(* index of an item, and a change of order alone, are abstracted away.     *)
(* What the YANG models say (leafrefs, mandatory leaves, how often a table *)
(* is referred to) is a parameter.                                         *)
(***************************************************************************)
EXTENDS Naturals, Sequences, FiniteSets, SequencesExt

CONSTANTS
    PathOrder,          \* every path of the instance, in dict iteration order
    TablesByBacklinks,  \* table names by schema backlinks, ascending
    KeyPrefix,          \* key -> what stands before its last "|"
    Separators,         \* key -> number of "|" in it
    LeafRefs,           \* pairs <<referring path, path referred to>>
    Mandatory           \* pairs <<table, field>> every key of the table must have

DICT == "{}"
LIST == "[]"
Root == <<>>

-----------------------------------------------------------------------------
(* Configurations *)

Has(c, p) == p \in DOMAIN c
Below(p, k) == Append(p, k)

\* q relative to its prefix of length n.
From(q, n) == SubSeq(q, n + 1, Len(q))

\* The subtree at p: its nodes, as pairs <<relative path, value>>.
Tree(c, p) == {<<From(q, Len(p)), c[q]>> : q \in {x \in DOMAIN c : IsPrefix(p, x)}}

Differs(p, c, d) == Tree(c, p) # Tree(d, p)

\* Tokens of the children of p, in iteration order.
Kids(c, p) ==
    LET paths == SelectSeq(PathOrder, LAMBDA q : Len(q) = Len(p) + 1 /\ IsPrefix(p, q) /\ Has(c, q))
    IN  [i \in 1..Len(paths) |-> Last(paths[i])]

InOrder(S) == SelectSeq(PathOrder, LAMBDA q : q \in S)

\* Concatenation of f(x) for the x of s.
ForEach(s, f(_)) == FlattenSeq([i \in 1..Len(s) |-> f(s[i])])

\* Paths that refer to a node at or below one of ps (PathAddressing.find_ref_paths).
FindRefPaths(ps, c) ==
    {r \in DOMAIN c : \E d \in DOMAIN c : <<r, d>> \in LeafRefs /\ \E p \in ps : IsPrefix(p, d)}

-----------------------------------------------------------------------------
(* JsonMove, JsonMoveGroup.  `path` is the path of the JsonPatch operation,    *)
(* `cur` the tokens the move was made from, `put` where the value goes: it     *)
(* differs from path only when an item of a leaf-list is replaced by another.  *)

Patch(op, path, put, value, cur) == [op |-> op, path |-> path, put |-> put, value |-> value, cur |-> cur]

Paths == Seq(STRING)
JsonMoves == [op : {"add", "remove", "replace"}, path : Paths, put : Paths,
              value : SUBSET (Paths \X STRING), cur : Paths]

RemoveMove(p) == Patch("remove", p, p, {}, p)
ReplaceMove(t, p) == Patch("replace", p, p, Tree(t, p), p)
ReplaceItemMove(t, p, q) == Patch("replace", p, q, Tree(t, q), p)

\* The operation's path ends at the first token the current configuration does not
\* have; the tokens after it move into the value.
AddMove(c, t, p) ==
    LET missing == {i \in 1..Len(p) : ~Has(c, SubSeq(p, 1, i))}
        n == IF missing = {} THEN Len(p) ELSE CHOOSE i \in missing : \A j \in missing : i <= j
        path == SubSeq(p, 1, n)
        kept == {q \in DOMAIN t : IsPrefix(path, q) /\ (IsPrefix(q, p) \/ IsPrefix(p, q))}
    IN  Patch("add", path, path, {<<From(q, n), t[q]>> : q \in kept}, p)

Apply(m, c) ==
    LET kept == {<<q, c[q]>> : q \in {x \in DOMAIN c : ~IsPrefix(m.path, x)}}
        new  == {<<m.put \o node[1], node[2]>> : node \in m.value}
    IN  [q \in {node[1] : node \in kept \cup new} |->
            CHOOSE v \in {node[2] : node \in kept \cup new} : <<q, v>> \in kept \cup new]

\* The moves of a group one after the other.
ApplyGroup(g, c) ==
    LET after[n \in 0..Len(g)] == IF n = 0 THEN c ELSE Apply(g[n], after[n - 1])
    IN  after[Len(g)]

\* Moves are equal when their JsonPatch is.
SamePatch(g) == [i \in 1..Len(g) |-> <<g[i].op, g[i].path, g[i].put, g[i].value>>]

-----------------------------------------------------------------------------
(* CreateOnlyFilter, RequiredValueIdentifier: the hard-coded settings *)

CreateOnlyPatterns == <<
    <<"PORT", "lanes">>, <<"LOOPBACK_INTERFACE", "vrf_name">>,
    <<"BGP_NEIGHBOR", "holdtime">>, <<"BGP_NEIGHBOR", "keepalive">>, <<"BGP_NEIGHBOR", "name">>,
    <<"BGP_NEIGHBOR", "asn">>, <<"BGP_NEIGHBOR", "local_addr">>, <<"BGP_NEIGHBOR", "nhopself">>,
    <<"BGP_NEIGHBOR", "rrclient">>, <<"BGP_PEER_RANGE", "*">>, <<"BGP_SENTINELS", "*">>,
    <<"BGP_MONITORS", "holdtime">>, <<"BGP_MONITORS", "keepalive">>, <<"BGP_MONITORS", "name">>,
    <<"BGP_MONITORS", "asn">>, <<"BGP_MONITORS", "local_addr">>, <<"BGP_MONITORS", "nhopself">>,
    <<"BGP_MONITORS", "rrclient">>, <<"MIRROR_SESSION", "*">> >>

Matches(pattern, q) == Len(q) = 3 /\ q[1] = pattern[1] /\ pattern[2] \in {"*", q[3]}

\* The create-only fields of c.
CreateOnlyFields(c) ==
    {q \in DOMAIN c : \E i \in 1..Len(CreateOnlyPatterns) : Matches(CreateOnlyPatterns[i], q)}

\* Their paths by pattern, then in iteration order.
CreateOnlyPaths(c) ==
    ForEach(CreateOnlyPatterns, LAMBDA pat : InOrder({q \in DOMAIN c : Matches(pat, q)}))

PrefixRequiring == {"BUFFER_PG", "BUFFER_QUEUE", "QUEUE"}
KeyRequiring == {"BUFFER_PORT_EGRESS_PROFILE_LIST", "BUFFER_PORT_INGRESS_PROFILE_LIST", "PORT_QOS_MAP"}

AdminStatus(port) == <<"PORT", port, "admin_status">>
InRequiredPattern(q) == Len(q) = 3 /\ q[1] = "PORT" /\ q[3] = "admin_status"
Down == {<<Root, "down">>}

\* The port whose admin status a change at q depends on.
PortOf(q) == IF q[1] \in PrefixRequiring THEN KeyPrefix[q[2]] ELSE q[2]

\* Requiring paths of any of the given configurations, each with its port there.
RequiringPaths(configs) ==
    {q \in UNION {DOMAIN c : c \in configs} :
        /\ Len(q) = 2
        /\ q[1] \in PrefixRequiring \cup KeyRequiring
        /\ \E c \in configs : Has(c, q) /\ Has(c, <<"PORT", PortOf(q)>>)}

\* get_value_or_default: "none" when the port itself is missing.
AdminOrDefault(c, port) ==
    IF Has(c, AdminStatus(port)) THEN c[AdminStatus(port)]
    ELSE IF Has(c, <<"PORT", port>>) THEN "down" ELSE "none"

\* Ports a change from c to s would touch the critical configuration of while up.
PortsNotDown(c, s, t) ==
    {PortOf(q) : q \in {r \in RequiringPaths({c, s, t}) :
        Differs(r, c, s) /\ AdminOrDefault(c, PortOf(r)) \notin {"none", "down"}}}

\* Ports s raises although critical changes of theirs are still to come.
PortsRaisedEarly(c, s, t) ==
    {PortOf(q) : q \in {r \in RequiringPaths({c, s, t}) :
        /\ Differs(r, c, t)
        /\ AdminOrDefault(s, PortOf(r)) \notin {"none", "down", AdminOrDefault(c, PortOf(r))}}}

-----------------------------------------------------------------------------
(* The move validators: group g leads from c to s on the way to t. *)

\* What the YANG models and validate_lanes demand of a whole configuration.
ValidConfig(c) ==
    /\ \A ref \in LeafRefs : Has(c, ref[1]) => Has(c, ref[2])
    /\ \A q \in DOMAIN c : Len(q) = 2 =>
          \A f \in {x \in Mandatory : x[1] = q[1]} : Has(c, Below(q, f[2]))
    /\ \A q, r \in {x \in DOMAIN c : Len(x) = 3 /\ x[1] = "PORT" /\ x[3] = "lanes"} :
          c[q] = c[r] => q = r

NotWholeConfigRemoval(g) == ~(g[1].op = "remove" /\ g[1].path = Root)

FullConfigMoveValidator(g, c, t, s) == ValidConfig(s)

AddedPaths(c, s) ==
    {q \in DOMAIN s : IF Has(c, q) THEN c[q] # s[q] ELSE Has(c, Front(q))}

\* No node below ps refers to a node below ps.
NoInnerReference(ps, c) ==
    \A r \in FindRefPaths(ps, c), p \in ps : ~IsPrefix(p, r)

NoDependencyMoveValidator(g, c, t, s) ==
    \A m \in ToSet(g) :
        CASE m.op = "add"     -> NoInnerReference({m.path}, s)
          [] m.op = "remove"  -> NoInnerReference({m.path}, c)
          [] m.op = "replace" -> /\ NoInnerReference(AddedPaths(c, s), s)
                                 /\ NoInnerReference(AddedPaths(s, c), c)

OnlyIn(q, c, d) == Has(c, q) /\ ~Has(d, q)

\* Mutant: the value of a create-only field may change.
CreateOnlyAllowsReplace(g, c, t, s) ==
    \A q \in CreateOnlyFields(c) \cup CreateOnlyFields(s) \cup CreateOnlyFields(t) :
        /\ OnlyIn(q, s, c) => OnlyIn(Front(q), s, c)
        /\ OnlyIn(q, c, s) => OnlyIn(Front(q), c, s)
        /\ OnlyIn(Front(q), s, c) => (Has(t, q) <=> Has(s, q))

CreateOnlyMoveValidator(g, c, t, s) ==
    \A q \in CreateOnlyFields(c) \cup CreateOnlyFields(s) \cup CreateOnlyFields(t) :
        /\ Has(c, q) /\ Has(s, q) => ~Differs(q, c, s)
        /\ OnlyIn(q, s, c) => OnlyIn(Front(q), s, c)
        /\ OnlyIn(q, c, s) => OnlyIn(Front(q), c, s)
        /\ OnlyIn(Front(q), s, c) => (Has(t, q) <=> Has(s, q))

\* Mutant: a change of critical configuration is only held back by a port being raised.
RequiredValueAfterOnly(g, c, t, s) == PortsRaisedEarly(c, s, t) = {}

RequiredValueMoveValidator(g, c, t, s) ==
    PortsNotDown(c, s, t) = {} /\ PortsRaisedEarly(c, s, t) = {}

\* Only the first create-only field found in a table is looked at (processed_tables).
FirstCreateOnlyFields(c) ==
    LET paths == CreateOnlyPaths(c)
        first == {i \in 1..Len(paths) : \A j \in 1..(i - 1) : paths[j][1] # paths[i][1]}
    IN  {<<paths[i][1], paths[i][3]>> : i \in first}

RemoveCreateOnlyDependencyMoveValidator(g, c, t, s) ==
    \A tf \in FirstCreateOnlyFields(c) : \A k \in ToSet(Kids(c, <<tf[1]>>)) :
        LET member == <<tf[1], k>>
            field  == <<tf[1], k, tf[2]>>
        IN  Has(t, member) /\ Has(s, member) /\ Differs(field, c, t) =>
              /\ tf[1] = "PORT" /\ Differs(AdminStatus(k), c, s)
                    => Has(c, AdminStatus(k)) /\ c[AdminStatus(k)] = "up"
              /\ \A r \in FindRefPaths({member}, s) : Has(c, r)

Tables(c) == {q[1] : q \in {x \in DOMAIN c : Len(x) = 1}}
HasEmptyTable(c, tables) ==
    \E tab \in tables : Has(c, <<tab>>) /\ ~\E q \in DOMAIN c : Len(q) = 2 /\ q[1] = tab

\* Mutant: only the last move of a group is looked at.
NoEmptyTableInLastMove(g, c, t, s) ==
    ~HasEmptyTable(s, IF Last(g).path = Root THEN Tables(s) ELSE {Last(g).path[1]})

NoEmptyTableMoveValidator(g, c, t, s) ==
    \A m \in ToSet(g) :
        ~HasEmptyTable(s, IF m.path = Root THEN Tables(s) ELSE {m.path[1]})

\* MoveWrapper.validate over the validators of SortAlgorithmFactory.create.
ValidateMove(g, c, t) ==
    /\ NotWholeConfigRemoval(g)
    /\ LET s == ApplyGroup(g, c)
       IN  /\ FullConfigMoveValidator(g, c, t, s)
           /\ NoDependencyMoveValidator(g, c, t, s)
           /\ CreateOnlyMoveValidator(g, c, t, s)
           /\ RequiredValueMoveValidator(g, c, t, s)
           /\ RemoveCreateOnlyDependencyMoveValidator(g, c, t, s)
           /\ NoEmptyTableMoveValidator(g, c, t, s)
=============================================================================
