---------------------------- MODULE MCPatchSorter ----------------------------
(***************************************************************************)
(* The patch sorter on a small ConfigDB: two ports, a queue of the first,   *)
(* an ACL table bound to either.  Every entry can change, so that lanes     *)
(* (create-only) change under a port that is up, referred to by a key and   *)
(* by a leaf-list, or trade places with the other port's.                   *)
(***************************************************************************)
EXTENDS PatchPlans, PatchMoves

Ports == {"E0", "E1"}
Queue == <<"QUEUE", "E0|0">>
Acl   == <<"ACL_TABLE", "A">>
AclPorts == Below(Acl, "ports")
Scheduler == Below(Queue, "scheduler")
Lanes(p) == <<"PORT", p, "lanes">>

MCPathOrder == <<
    <<>>,
    <<"PORT">>,
    <<"PORT", "E0">>, Lanes("E0"), AdminStatus("E0"),
    <<"PORT", "E1">>, Lanes("E1"), AdminStatus("E1"),
    <<"QUEUE">>, Queue, Scheduler,
    <<"ACL_TABLE">>, Acl, AclPorts, Below(AclPorts, "E0"), Below(AclPorts, "E1") >>

MCTablesByBacklinks == <<"QUEUE", "ACL_TABLE", "PORT">>
MCKeyPrefix == ("E0|0" :> "E0")
MCSeparators == ("E0|0" :> 1) @@ [k \in {"E0", "E1", "A"} |-> 0]
MCMandatory == {<<"PORT", "lanes">>}
MCLeafRefs ==
    {<<Queue, <<"PORT", "E0">>>>} \cup {<<Below(AclPorts, p), <<"PORT", p>>>> : p \in Ports}

MCMoves == Seq(JsonMoves)

-----------------------------------------------------------------------------
(* Configurations of these paths. *)

Node(p, v) == p :> v
Nothing == <<>>
Optional(p, v) == IF v = "unset" THEN Nothing ELSE Node(p, v)

PortEntries(p, lanes, status) ==
    {Nothing} \cup {Node(<<"PORT", p>>, DICT) @@ Node(Lanes(p), l) @@ Optional(AdminStatus(p), s)
                       : l \in lanes, s \in status}
QueueEntries(profiles) ==
    {Nothing} \cup {Node(Queue, DICT) @@ Optional(Scheduler, s) : s \in profiles}
AclEntries(bindings) ==
    {Nothing, Node(Acl, DICT)}
    \cup {Node(Acl, DICT) @@ Node(AclPorts, LIST) @@ [q \in {Below(AclPorts, p) : p \in b} |-> Last(q)]
             : b \in bindings}

Table(name, entries) == IF entries = Nothing THEN Nothing ELSE Node(<<name>>, DICT) @@ entries

ConfigsOf(e0, e1, queue, acl) ==
    LET all == {Node(Root, DICT) @@ Table("PORT", a @@ b) @@ Table("QUEUE", q) @@ Table("ACL_TABLE", l)
                  : a \in e0, b \in e1, q \in queue, l \in acl}
    IN  UNION {IF ValidConfig(c) THEN {c} ELSE {} : c \in all}

\* Every configuration a search can meet.
MCConfigs ==
    ConfigsOf(PortEntries("E0", {"1", "2"}, {"unset", "up", "down"}),
              PortEntries("E1", {"1", "2"}, {"unset", "up", "down"}),
              QueueEntries({"unset", "s1", "s2"}), AclEntries(SUBSET Ports))

\* Those an operator would write: no empty lists and no empty keys.
Written ==
    ConfigsOf(PortEntries("E0", {"1", "2"}, {"up", "down"}), PortEntries("E1", {"1", "2"}, {"up"}),
              QueueEntries({"s1", "s2"}), AclEntries((SUBSET Ports) \ {{}}) \ {Node(Acl, DICT)})

\* Problems start or end at a configuration with everything in it and E0 referred to twice.
Full == {c \in Written : /\ Has(c, Queue) /\ Has(c, Below(AclPorts, "E0")) /\ Has(c, <<"PORT", "E1">>)
                         /\ c[Lanes("E0")] = "1" /\ c[Scheduler] = "s1"}

MCProblems == (Full \X Written) \cup (Written \X Full)

\* The moves generated at the start of these problems stay in their tables, and the
\* tables there have keys: what PatchPlansProofs asks of moves and problems.
ASSUME TablesKeptHere ==
    \A p \in MCProblems :
        /\ ~HasEmptyTable(p[1], Tables(p[1]))
        /\ \A g \in ToSet(GenerateMoves(p[1], p[2])) : \A m \in ToSet(g) : KeepsTables(m)

-----------------------------------------------------------------------------
(* What depends on the generators. *)

(* No patch between two configurations of this instance is refused with       *)
(* "There is no possible sorting": the generators always offer the validators *)
(* a way, lanes traded between ports that are up and referred to included.    *)
AlwaysSorted == pc = "done" => ret.found

(* A port that the patch leaves alone is never flapped, removed or changed.    *)
UntouchedPortStays ==
    Sorted /\ ~Differs(<<"PORT", "E1">>, start, target) =>
        \A i \in 1..Len(ret.plan) : ~Differs(<<"PORT", "E1">>, start, After(i))
=============================================================================
