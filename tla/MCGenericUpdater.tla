-------------------------- MODULE MCGenericUpdater --------------------------
(***************************************************************************)
(* A ConfigDB of three entries: a port with a create-only field, an ACL     *)
(* that needs the port, and a buffer entry that a daemon writes too.        *)
(***************************************************************************)
EXTENDS UpdaterAtomicity, SequencesExt

MCKeys == {"port", "acl", "buf"}
MCTableRank == [port |-> 2, acl |-> 1, buf |-> 1]
MCFields == {"x", "y"}
MCValues == {"1", "2", "[]", "['']"}
MCBackendKeys == {"buf"}

Entry(x, y) == [x |-> x, y |-> y]
Absent == Entry(Unset, Unset)
MCBackendEntries == {Entry("1", Unset), Entry("2", Unset)}
Config(port, acl) == [port |-> port, acl |-> acl, buf |-> Entry("1", Unset)]

MCInitialConfigs == {Config(Entry("1", "1"), acl) : acl \in {Absent, Entry("1", Unset)}}

\* The port cannot be removed while the ACL is there.
MCValid(c) == c["acl"] # Absent => c["port"] # Absent
MCPermitted(c, t) == c["port"] # Absent => t["port"] # Absent

-----------------------------------------------------------------------------
(* Plans: a path of valid configurations.  The entries change one at a time in *)
(* any order, but the port, whose x is create-only, goes through its removal,   *)
(* for which the ACL has to go too.                                             *)

Toward(c, t, done) == [k \in Keys |-> IF k \in done THEN t[k] ELSE c[k]]
Without(c, ks) == [k \in Keys |-> IF k \in ks THEN Absent ELSE c[k]]

Paths(c, t) ==
    IF c["port"] # Absent /\ t["port"] # Absent /\ c["port"].x # t["port"].x
    THEN {<<Without(c, {"acl"}), Without(c, {"acl", "port"}), Without(t, {"acl"}), t>>}
    ELSE {[i \in DOMAIN order |-> Toward(c, t, {order[j] : j \in 1..i})]
            : order \in SetToSeqs({k \in Keys : c[k] # t[k]})}

MCPlans(c, t) ==
    {SelectSeq([i \in DOMAIN path |-> Diff(IF i = 1 THEN c ELSE path[i - 1], path[i])], LAMBDA p : p # {})
       : path \in {q \in Paths(c, t) : \A i \in DOMAIN q : MCValid(q[i])}}

-----------------------------------------------------------------------------
(* Commands *)

Edit(op, k, f, v) == [op |-> op, key |-> k, field |-> f, value |-> v]

ApplyCommand(op, p) == [op |-> op, patch |-> p]
CreateAcl == {Edit("add", "acl", "x", "1"), Edit("replace", "port", "y", "2")}
RemoveAcl == {Edit("remove", "acl", "x", Unset)}
NewLanes == {Edit("replace", "port", "x", "2"), Edit("add", "acl", "y", "[]")}
RemovePort == {Edit("remove", "port", "x", Unset), Edit("remove", "port", "y", Unset)}

SoleCommands ==
    {ApplyCommand("apply", p) : p \in {CreateAcl, RemoveAcl, NewLanes, RemovePort}}
    \cup {ApplyCommand("apply_unsorted", CreateAcl)}
    \cup {[op |-> "replace", config |-> c] : c \in {Config(Entry("2", "1"), Entry("1", "1")),
                                                   Config(Entry("1", "2"), Absent),
                                                   Config(Absent, Entry("1", "1"))}}
    \cup [op : {"checkpoint", "rollback", "delete"}, name : Names]

\* Two sessions at a time.
OtherPort == {Edit("replace", "port", "y", "2")}
PortField == {Edit("replace", "port", "x", "2")}

SharedCommands ==
    {ApplyCommand("apply", p) : p \in {CreateAcl, OtherPort, PortField}}
    \cup {ApplyCommand("apply_unsorted", {Edit("add", "acl", "y", "1")}),
          [op |-> "replace", config |-> Config(Entry("1", "2"), Entry("1", "1"))]}
    \cup [op : {"checkpoint", "rollback", "delete"}, name : Names]

\* The sessions are interchangeable.
SessionSymmetry == Permutations(Sessions)

FieldCommands == {ApplyCommand("apply", p) : p \in {OtherPort, PortField}}

\* A configuration to replace with, as an operator may write it.
EmptyListCommands == {[op |-> "replace", config |-> Config(Entry("1", "1"), Entry("1", "[]"))]}

-----------------------------------------------------------------------------
(* The hypotheses of the proofs hold of these plans and commands. *)

\* Every field is as the last change to it has left it.
Way(list, c) ==
    LET on(j, k, f) == {e \in list[j] : e.key = k /\ e.field = f}
        by(i, k, f) == {j \in 1..i : on(j, k, f) # {}}
    IN  [i \in 0..Len(list) |-> [k \in Keys |-> [f \in Fields |->
            IF by(i, k, f) = {} THEN c[k][f]
            ELSE (CHOOSE e \in on(Max(by(i, k, f)), k, f) : TRUE).value]]]
GivenTargets == {Normalised(c.config) : c \in {d \in SoleCommands : d.op = "replace"}}

ASSUME PlansLeadHere ==
    \A c \in MCInitialConfigs \cup GivenTargets, t \in GivenTargets : \A plan \in MCPlans(c, t) :
        plan \in Seq(SUBSET Edits) /\ Leads(Way(plan, c), plan, c, t)
=============================================================================
