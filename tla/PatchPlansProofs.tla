-------------------------- MODULE PatchPlansProofs --------------------------
(***************************************************************************)
(* The plans of the patch sorter keep the rules of the validators at every  *)
(* step, proved for every generator of moves: what is used of the search is *)
(* that its result is a plan (PlanIsSound), and of the moves only that they *)
(* passed the validators.                                                   *)
(***************************************************************************)
EXTENDS PatchPlans, DfsSorterProofs

\* The search is run with the moves, the validators and the simulation of the code.
SorterOfTheCode ==
    /\ Moves \subseteq Seq(JsonMoves)
    /\ \A c \in Configs : DOMAIN c \subseteq Paths
    /\ \A g \in Moves, c \in Configs : Simulate(g, c) = ApplyGroup(g, c)
    /\ \A g \in Moves, c \in Configs, t \in Targets : Validate(g, c, t) => ValidateMove(g, c, t)

-----------------------------------------------------------------------------
(* Steps of a plan *)

\* The i-th change of a plan is an accepted move between the configurations around it.
LEMMA PlanStep ==
    ASSUME SorterOfTheCode, TypeOK, PlanReachesTarget, Sorted, NEW i \in 1..Len(ret.plan)
    PROVE  /\ ret.plan[i].move \in Moves /\ ret.plan[i].move \in Seq(JsonMoves)
           /\ Before(i) \in Configs /\ DOMAIN Before(i) \subseteq Paths
           /\ After(i) = ApplyGroup(ret.plan[i].move, Before(i))
           /\ ValidateMove(ret.plan[i].move, Before(i), target)
           /\ i = 1 => Before(i) = start
           /\ i # 1 => i - 1 \in 1..Len(ret.plan) /\ Before(i) = After(i - 1)
           /\ i = Len(ret.plan) => After(i) = target
  <1> DEFINE p == ret.plan
  <1>1. p \in Seq(Steps) /\ Len(p) \in Nat /\ p[i] \in Steps
    BY LenProperties, ElementOfSeq DEF TypeOK
  <1>2. p[i].move \in Moves /\ p[i].from \in Configs
    BY <1>1 DEF Steps
  <1>3. IsPlan(p, start, target) /\ p # <<>>
    BY <1>1, EmptySeq DEF PlanReachesTarget, Sorted
  <1>4. After(i) = Simulate(p[i].move, p[i].from)
    <2>1. CASE i < Len(p)
      BY <2>1, <1>3 DEF After, IsPlan
    <2>2. CASE ~(i < Len(p))
      <3>1. i = Len(p)
        BY <2>2, <1>1
      <3> QED BY <3>1, <2>2, <1>3 DEF After, IsPlan
    <2> QED BY <2>1, <2>2
  <1>5. Validate(p[i].move, p[i].from, target)
    BY <1>3 DEF IsPlan
  <1>6. i = 1 => Before(i) = start
    BY <1>3 DEF Before, IsPlan
  <1>7. i # 1 => i - 1 \in 1..Len(p) /\ Before(i) = After(i - 1)
    <2> SUFFICES ASSUME i # 1 PROVE i - 1 \in 1..Len(p) /\ Before(i) = After(i - 1)
      OBVIOUS
    <2>1. i - 1 \in 1..Len(p) /\ i - 1 < Len(p) /\ (i - 1) + 1 = i
      BY <1>1
    <2> QED BY <2>1 DEF Before, After
  <1>8. i = Len(p) => After(i) = target
    BY <1>1 DEF After
  <1> QED BY <1>2, <1>4, <1>5, <1>6, <1>7, <1>8, GoalTypes DEF SorterOfTheCode, Before

-----------------------------------------------------------------------------
(* Every configuration on the way is valid *)

(* References, mandatory leaves and lanes are right after every change.        *)
ValidOnTheWay == Sorted => \A i \in 1..Len(ret.plan) : ValidConfig(After(i))

(* Whatever the search went through, each configuration the change applier     *)
(* will stand on satisfies the YANG models and has no lane in two ports: the   *)
(* full configuration is validated after every move of the list that is        *)
(* returned.                                                                   *)
THEOREM PlansStayValid ==
    ASSUME MovesWellTyped, SorterOfTheCode PROVE Spec => []ValidOnTheWay
  <1>1. TypeOK /\ PlanReachesTarget => ValidOnTheWay
    BY PlanStep DEF ValidOnTheWay, ValidateMove, FullConfigMoveValidator
  <1> QED BY <1>1, TypeCorrect, PlanIsSound, PTL

-----------------------------------------------------------------------------
(* Create-only fields *)

\* What CreateOnlyMoveValidator says of a field the current configuration has.
LEMMA CreateOnlyStep ==
    ASSUME NEW g, NEW c, NEW t, ValidateMove(g, c, t), NEW q \in CreateOnlyFields(c)
    PROVE  LET s == ApplyGroup(g, c)
           IN  /\ Has(s, q) => ~Differs(q, c, s)
               /\ Has(s, Front(q)) => Has(s, q)
  BY DEF ValidateMove, CreateOnlyMoveValidator, CreateOnlyFields, OnlyIn, Has

\* The field keeps its value while the entry stays.
LEMMA PlanRecreates ==
    ASSUME SorterOfTheCode, TypeOK, PlanReachesTarget, Sorted PROVE CreateOnlyThroughRemoval
  <1>1. ASSUME NEW i \in 1..Len(ret.plan), NEW q \in CreateOnlyFields(Before(i)), Has(After(i), q)
        PROVE  ~Differs(q, Before(i), After(i))
    BY <1>1, PlanStep, CreateOnlyStep
  <1>2. ASSUME NEW q \in CreateOnlyFields(start), Has(target, q), Differs(q, start, target),
               \A i \in 1..Len(ret.plan) : Has(After(i), Front(q))
        PROVE  FALSE
    <2> DEFINE Kept(c) == q \in CreateOnlyFields(c) /\ Tree(c, q) = Tree(start, q)
               Lost == {i \in 1..Len(ret.plan) : ~Kept(After(i))}
    <2>1. ret.plan \in Seq(Steps) /\ Len(ret.plan) \in Nat
      BY LenProperties DEF TypeOK
    <2>2. Kept(start)
      OBVIOUS
    <2>3. ASSUME NEW i \in 1..Len(ret.plan), Kept(Before(i)) PROVE Kept(After(i))
      <3>1. Has(After(i), q) /\ ~Differs(q, Before(i), After(i))
        BY <1>2, <2>3, PlanStep, CreateOnlyStep
      <3>2. q \in CreateOnlyFields(After(i))
        BY <3>1, <2>3 DEF CreateOnlyFields, Has
      <3> QED BY <3>1, <3>2, <2>3 DEF Differs
    <2> HIDE DEF Kept
    <2>4. Lost = {}
      <3> SUFFICES ASSUME Lost # {} PROVE FALSE
        OBVIOUS
      <3>1. PICK n \in Lost : \A k \in Lost : ~(k < n)
        <4>1. Lost \subseteq Nat
          BY <2>1
        <4> HIDE DEF Lost
        <4> QED BY <4>1, LeastNumber
      <3>2. CASE n = 1
        BY <3>1, <3>2, <2>2, <2>3, PlanStep
      <3>3. CASE n # 1
        <4>1. n - 1 \in 1..Len(ret.plan) /\ Before(n) = After(n - 1) /\ n - 1 < n
          BY <3>1, <3>3, <2>1, PlanStep
        <4>2. Kept(After(n - 1))
          BY <3>1, <4>1
        <4> QED BY <3>1, <4>1, <4>2, <2>3
      <3> QED BY <3>2, <3>3
    <2>5. Kept(target)
      <3>1. CASE ret.plan = <<>>
        BY <3>1, <2>2 DEF PlanReachesTarget, IsPlan
      <3>2. CASE ret.plan # <<>>
        <4>1. Len(ret.plan) \in 1..Len(ret.plan)
          BY <3>2, <2>1, EmptySeq
        <4> QED BY <4>1, <2>4, PlanStep
      <3> QED BY <3>1, <3>2
    <2> QED BY <2>5, <1>2 DEF Kept, Differs
  <1> QED BY <1>1, <1>2 DEF CreateOnlyThroughRemoval

(* On every plan, however the moves were generated and extended, a create-only *)
(* field changes only by the removal of its whole entry.  A single step is what*)
(* the validator says; that the removal must happen somewhere follows along    *)
(* the plan: as long as the entry stays, the field stays with its value.       *)
THEOREM CreateOnlyIsRecreated ==
    ASSUME MovesWellTyped, SorterOfTheCode PROVE Spec => []CreateOnlyThroughRemoval
  <1>1. TypeOK /\ PlanReachesTarget => CreateOnlyThroughRemoval
    BY PlanRecreates DEF CreateOnlyThroughRemoval
  <1> QED BY <1>1, TypeCorrect, PlanIsSound, PTL

-----------------------------------------------------------------------------
(* Critical configuration of a port *)

(* A change of critical configuration finds the port down, or not there; it    *)
(* leaves it so if that configuration was not yet what the target has.         *)
DownForCriticalChanges ==
    Sorted => \A i \in 1..Len(ret.plan) : \A q \in RequiringPaths({Before(i), After(i)}) :
        Differs(q, Before(i), After(i)) =>
            /\ PortIsDown(PortOf(q), Before(i))
            /\ Differs(q, Before(i), target) => PortIsDown(PortOf(q), After(i))

(* No plan changes a queue or a buffer setting of a port that is up, or raises *)
(* the port together with its last critical change.  What the validators alone *)
(* allow, and only the generators rule out, is to raise a port in the move     *)
(* that takes its critical configuration away from the target.                 *)
THEOREM CriticalChangesFindPortDown ==
    ASSUME MovesWellTyped, SorterOfTheCode PROVE Spec => []DownForCriticalChanges
  <1>1. ASSUME NEW g, NEW c, NEW t, NEW q, ValidateMove(g, c, t),
               q \in RequiringPaths({c, ApplyGroup(g, c)}), Differs(q, c, ApplyGroup(g, c))
        PROVE  /\ PortIsDown(PortOf(q), c)
               /\ Differs(q, c, t) => PortIsDown(PortOf(q), ApplyGroup(g, c))
    <2> DEFINE s == ApplyGroup(g, c)
    <2>1. PortsNotDown(c, s, t) = {} /\ PortsRaisedEarly(c, s, t) = {}
      BY <1>1 DEF ValidateMove, RequiredValueMoveValidator
    <2>2. q \in RequiringPaths({c, s, t})
      BY <1>1 DEF RequiringPaths
    <2> HIDE DEF s
    <2>3. PortIsDown(PortOf(q), c)
      BY <1>1, <2>1, <2>2 DEF PortsNotDown, PortIsDown, s
    <2>4. Differs(q, c, t) => AdminOrDefault(s, PortOf(q)) \in {"none", "down", AdminOrDefault(c, PortOf(q))}
      BY <2>1, <2>2 DEF PortsRaisedEarly
    <2> QED BY <2>3, <2>4 DEF PortIsDown, s
  <1>2. ASSUME TypeOK, PlanReachesTarget, Sorted, NEW i \in 1..Len(ret.plan),
               NEW q \in RequiringPaths({Before(i), After(i)}), Differs(q, Before(i), After(i))
        PROVE  /\ PortIsDown(PortOf(q), Before(i))
               /\ Differs(q, Before(i), target) => PortIsDown(PortOf(q), After(i))
    <2>1. ValidateMove(ret.plan[i].move, Before(i), target) /\ After(i) = ApplyGroup(ret.plan[i].move, Before(i))
      BY <1>2, PlanStep
    <2> QED BY <1>1, <1>2, <2>1
  <1>3. TypeOK /\ PlanReachesTarget => DownForCriticalChanges
    BY <1>2 DEF DownForCriticalChanges
  <1> QED BY <1>3, TypeCorrect, PlanIsSound, PTL

-----------------------------------------------------------------------------
(* Empty tables *)

\* Moves stay inside their tables, and no sort starts from an empty table.
TablesGiven ==
    /\ \A g \in Moves : \A m \in Elements(g) : KeepsTables(m)
    /\ \A p \in Problems : ~HasEmptyTable(p[1], Tables(p[1]))

\* The configurations a group goes through.
LEMMA GroupStates ==
    ASSUME NEW g, NEW c, Len(g) \in Nat
    PROVE  \E h : /\ DOMAIN h = 0..Len(g)
                  /\ h[0] = c
                  /\ \A n \in 1..Len(g) : h[n] = Apply(g[n], h[n - 1])
                  /\ ApplyGroup(g, c) = h[Len(g)]
  <1> DEFINE Run(h, n) == h = [k \in 0..n |-> IF k = 0 THEN c ELSE Apply(g[k], h[k - 1])]
             NoRun == {n \in Nat : ~\E h : Run(h, n)}
  <1>1. NoRun = {}
    <2> SUFFICES ASSUME NoRun # {} PROVE FALSE
      OBVIOUS
    <2>1. PICK n \in NoRun : \A k \in NoRun : ~(k < n)
      <3>1. NoRun \subseteq Nat
        OBVIOUS
      <3> HIDE DEF NoRun
      <3> QED BY <3>1, LeastNumber
    <2>2. CASE n = 0
      <3> DEFINE h == [k \in 0..0 |-> c]
      <3>1. Run(h, 0)
        OBVIOUS
      <3> QED BY <2>1, <2>2, <3>1
    <2>3. CASE n # 0
      <3> DEFINE p == n - 1
      <3>1. p \in Nat /\ p < n /\ p + 1 = n /\ n \in Nat
        BY <2>3
      <3>2. PICK h : Run(h, p)
        BY <2>1, <3>1
      <3> DEFINE e == [k \in 0..n |-> IF k = n THEN Apply(g[n], h[p]) ELSE h[k]]
      <3>3. ASSUME NEW k \in 0..n PROVE e[k] = IF k = 0 THEN c ELSE Apply(g[k], e[k - 1])
        <4>1. CASE k = n
          <5>1. e[k] = Apply(g[n], h[p]) /\ e[k - 1] = h[p]
            BY <4>1, <3>1
          <5> QED BY <4>1, <5>1, <2>3, <3>1
        <4>2. CASE k # n
          <5>1. k \in 0..p /\ e[k] = h[k] /\ (k # 0 => k - 1 \in 0..p /\ e[k - 1] = h[k - 1])
            BY <4>2, <3>1
          <5>2. h[k] = IF k = 0 THEN c ELSE Apply(g[k], h[k - 1])
            BY <5>1, <3>2
          <5> QED BY <5>1, <5>2
        <4> QED BY <4>1, <4>2
      <3>4. Run(e, n)
        BY <3>3
      <3> QED BY <2>1, <3>4
    <2> QED BY <2>2, <2>3
  <1>2. \E h : Run(h, Len(g))
    BY <1>1
  <1> DEFINE after == CHOOSE h : Run(h, Len(g))
  <1>3. Run(after, Len(g))
    BY <1>2
  <1>4. ApplyGroup(g, c) = after[Len(g)]
    BY DEF ApplyGroup
  <1> HIDE DEF after
  <1>5. /\ DOMAIN after = 0..Len(g) /\ after[0] = c
        /\ \A n \in 1..Len(g) : after[n] = Apply(g[n], after[n - 1])
    BY <1>3
  <1> QED BY <1>4, <1>5

LEMMA ConcatHead ==
    ASSUME NEW S, NEW a \in Seq(S), NEW b \in Seq(S), a # <<>>
    PROVE  a \o b \in Seq(S) /\ a \o b # <<>> /\ (a \o b)[1] = a[1]
  <1>1. Len(a) \in Nat /\ Len(b) \in Nat /\ Len(a) # 0
    BY EmptySeq, LenProperties
  <1>2. a \o b \in Seq(S) /\ Len(a \o b) = Len(a) + Len(b)
    BY ConcatProperties
  <1>3. 1 \in 1..(Len(a) + Len(b)) /\ 1 <= Len(a)
    BY <1>1
  <1>4. (a \o b)[1] = a[1]
    BY <1>3, ConcatProperties
  <1>5. Len(a \o b) # 0
    BY <1>1, <1>2
  <1>6. a \o b # <<>>
    BY <1>5, EmptySeq
  <1> QED BY <1>2, <1>4, <1>6

\* A move keeps the paths of the other tables.
LEMMA MoveKeepsTable ==
    ASSUME NEW m \in JsonMoves, KeepsTables(m), m.path # Root, NEW c, DOMAIN c \subseteq Paths
    PROVE  /\ DOMAIN Apply(m, c) \subseteq Paths
           /\ \A q \in Paths : q # Root /\ q[1] # m.path[1] => (Has(Apply(m, c), q) <=> Has(c, q))
  <1> DEFINE kept == {x \in DOMAIN c : ~IsPrefix(m.path, x)}
             new  == {m.put \o node[1] : node \in m.value}
  <1>1. DOMAIN Apply(m, c) = kept \cup new
    <2> DEFINE old == {<<q, c[q]>> : q \in kept}
               put == {<<m.put \o node[1], node[2]>> : node \in m.value}
    <2>1. DOMAIN Apply(m, c) = {node[1] : node \in old \cup put}
      BY DEF Apply
    <2> HIDE DEF kept
    <2>2. ASSUME NEW x \in kept PROVE x \in {node[1] : node \in old}
      <3>1. <<x, c[x]>> \in old /\ <<x, c[x]>>[1] = x
        OBVIOUS
      <3> HIDE DEF old
      <3> QED BY <3>1
    <2>3. ASSUME NEW x \in new PROVE x \in {node[1] : node \in put}
      <3>1. PICK v \in m.value : x = m.put \o v[1]
        OBVIOUS
      <3>2. <<x, v[2]>> \in put /\ <<x, v[2]>>[1] = x
        BY <3>1
      <3> HIDE DEF put
      <3> QED BY <3>2
    <2>4. ASSUME NEW node \in old PROVE node[1] \in kept
      OBVIOUS
    <2>5. ASSUME NEW node \in put PROVE node[1] \in new
      <3>1. PICK v \in m.value : node = <<m.put \o v[1], v[2]>>
        OBVIOUS
      <3>2. node[1] = m.put \o v[1]
        BY <3>1
      <3> HIDE DEF put
      <3> QED BY <3>2
    <2> HIDE DEF old, put, new
    <2> QED BY <2>1, <2>2, <2>3, <2>4, <2>5
  <1>2. m.path \in Paths /\ m.put \in Paths /\ m.value \subseteq Paths \X STRING
    BY DEF JsonMoves
  <1>3. ASSUME NEW q \in Paths, IsPrefix(m.path, q) PROVE q # Root /\ q[1] = m.path[1]
    BY <1>2, <1>3 DEF IsPrefix, Paths, Root
  <1>4. ASSUME NEW q \in new PROVE q \in Paths /\ q # Root /\ q[1] = m.path[1]
    <2>1. PICK node \in m.value : q = m.put \o node[1]
      OBVIOUS
    <2>2. node[1] \in Paths
      BY <1>2, <2>1
    <2>3. m.put # <<>> /\ m.put[1] = m.path[1]
      BY DEF KeepsTables, Root
    <2> HIDE DEF new
    <2>4. node[1] \in Seq(STRING) /\ m.put \in Seq(STRING)
      BY <1>2, <2>2 DEF Paths
    <2> DEFINE x == m.put \o node[1]
    <2>5. x \in Seq(STRING) /\ x # <<>> /\ x[1] = m.put[1]
      BY <2>3, <2>4, ConcatHead
    <2> HIDE DEF x
    <2>6. q = x
      BY <2>1 DEF x
    <2> QED BY <2>3, <2>5, <2>6 DEF Paths, Root
  <1> HIDE DEF new
  <1> QED BY <1>1, <1>3, <1>4 DEF Has

\* A group keeps the paths of the tables none of its moves names.
LEMMA GroupKeepsTable ==
    ASSUME NEW g \in Seq(JsonMoves), \A m \in Elements(g) : KeepsTables(m) /\ m.path # Root,
           NEW c, DOMAIN c \subseteq Paths, NEW tab, \A m \in Elements(g) : m.path[1] # tab
    PROVE  /\ DOMAIN ApplyGroup(g, c) \subseteq Paths
           /\ \A q \in Paths : q # Root /\ q[1] = tab => (Has(ApplyGroup(g, c), q) <=> Has(c, q))
  <1> DEFINE Same(d) == /\ DOMAIN d \subseteq Paths
                        /\ \A q \in Paths : q # Root /\ q[1] = tab => (Has(d, q) <=> Has(c, q))
  <1>1. Len(g) \in Nat
    BY LenProperties
  <1>2. PICK h : /\ h[0] = c
                 /\ \A n \in 1..Len(g) : h[n] = Apply(g[n], h[n - 1])
                 /\ ApplyGroup(g, c) = h[Len(g)]
    BY <1>1, GroupStates
  <1>3. ASSUME NEW n \in 1..Len(g), Same(h[n - 1]) PROVE Same(h[n])
    <2>1. g[n] \in JsonMoves /\ g[n] \in Elements(g)
      BY ElementOfSeq DEF Elements
    <2>2. h[n] = Apply(g[n], h[n - 1])
      BY <1>2
    <2> QED BY <1>3, <2>1, <2>2, MoveKeepsTable
  <1>4. Same(h[0])
    BY <1>2
  <1> HIDE DEF Same
  <1> DEFINE Off == {n \in 0..Len(g) : ~Same(h[n])}
  <1>5. Off = {}
    <2> SUFFICES ASSUME Off # {} PROVE FALSE
      OBVIOUS
    <2>1. PICK n \in Off : \A k \in Off : ~(k < n)
      <3>1. Off \subseteq Nat
        BY <1>1
      <3> HIDE DEF Off
      <3> QED BY <3>1, LeastNumber
    <2>2. n \in 1..Len(g) /\ n - 1 \in 0..Len(g) /\ n - 1 < n
      BY <1>1, <1>4, <2>1
    <2> QED BY <1>3, <2>1, <2>2
  <1>6. Same(ApplyGroup(g, c))
    BY <1>1, <1>2, <1>5
  <1> QED BY <1>6 DEF Same

\* An accepted move does not leave an empty table, if there was none.
LEMMA MoveLeavesNoEmptyTable ==
    ASSUME NEW g \in Seq(JsonMoves), \A m \in Elements(g) : KeepsTables(m),
           NEW c, DOMAIN c \subseteq Paths, ~HasEmptyTable(c, Tables(c)), NEW t, ValidateMove(g, c, t)
    PROVE  ~HasEmptyTable(ApplyGroup(g, c), Tables(ApplyGroup(g, c)))
  <1> DEFINE s == ApplyGroup(g, c)
  <1>1. \A m \in Elements(g) : ~HasEmptyTable(s, IF m.path = Root THEN Tables(s) ELSE {m.path[1]})
    BY DEF ValidateMove, NoEmptyTableMoveValidator, ToSet, Elements
  <1> SUFFICES ASSUME HasEmptyTable(s, Tables(s)) PROVE FALSE
    OBVIOUS
  <1> HIDE DEF s
  <1>2. PICK tab \in Tables(s) : Has(s, <<tab>>) /\ ~\E q \in DOMAIN s : Len(q) = 2 /\ q[1] = tab
    BY DEF HasEmptyTable
  <1>3. \A m \in Elements(g) : m.path # Root /\ m.path[1] # tab
    <2>1. HasEmptyTable(s, {tab})
      BY <1>2 DEF HasEmptyTable
    <2> QED BY <1>1, <2>1
  <1>4. /\ DOMAIN s \subseteq Paths
        /\ \A q \in Paths : q # Root /\ q[1] = tab => (Has(s, q) <=> Has(c, q))
    BY <1>3, GroupKeepsTable DEF s
  <1>5. <<tab>> \in Paths /\ <<tab>> # Root /\ <<tab>>[1] = tab /\ Len(<<tab>>) = 1
    BY <1>2, <1>4 DEF Has, Root
  <1>6. Has(c, <<tab>>) /\ tab \in Tables(c)
    BY <1>2, <1>4, <1>5 DEF Has, Tables
  <1>7. PICK q \in DOMAIN c : Len(q) = 2 /\ q[1] = tab
    BY <1>6 DEF HasEmptyTable
  <1>8. q \in Paths
    BY <1>7
  <1>9. q # Root
    <2>1. Len(Root) = 0
      BY EmptySeq DEF Root
    <2> QED BY <1>7, <2>1
  <1> QED BY <1>2, <1>4, <1>7, <1>8, <1>9 DEF Has

\* No change of a plan leaves an empty table.
LEMMA PlanLeavesNoEmptyTable ==
    ASSUME SorterOfTheCode, TablesGiven, TypeOK, PlanReachesTarget, Sorted PROVE NoEmptyTableOnTheWay
  <1> DEFINE Full(c) == ~HasEmptyTable(c, Tables(c))
             Off == {i \in 1..Len(ret.plan) : ~Full(After(i))}
  <1>1. ret.plan \in Seq(Steps) /\ Len(ret.plan) \in Nat
    BY LenProperties DEF TypeOK
  <1>2. Full(start)
    BY DEF TypeOK, TablesGiven, start
  <1>3. ASSUME NEW i \in 1..Len(ret.plan), Full(Before(i)) PROVE Full(After(i))
    <2>1. /\ ret.plan[i].move \in Seq(JsonMoves) /\ DOMAIN Before(i) \subseteq Paths
          /\ \A m \in Elements(ret.plan[i].move) : KeepsTables(m)
          /\ ValidateMove(ret.plan[i].move, Before(i), target)
          /\ After(i) = ApplyGroup(ret.plan[i].move, Before(i))
      BY PlanStep DEF TablesGiven
    <2> QED BY <1>3, <2>1, MoveLeavesNoEmptyTable
  <1> HIDE DEF Full
  <1>4. Off = {}
    <2> SUFFICES ASSUME Off # {} PROVE FALSE
      OBVIOUS
    <2>1. PICK n \in Off : \A k \in Off : ~(k < n)
      <3>1. Off \subseteq Nat
        BY <1>1
      <3> HIDE DEF Off
      <3> QED BY <3>1, LeastNumber
    <2>2. CASE n = 1
      BY <2>1, <2>2, <1>2, <1>3, PlanStep
    <2>3. CASE n # 1
      <3>1. n - 1 \in 1..Len(ret.plan) /\ Before(n) = After(n - 1) /\ n - 1 < n
        BY <2>1, <2>3, <1>1, PlanStep
      <3>2. Full(After(n - 1))
        BY <2>1, <3>1
      <3> QED BY <2>1, <3>1, <3>2, <1>3
    <2> QED BY <2>2, <2>3
  <1> QED BY <1>4 DEF NoEmptyTableOnTheWay, Full

(* ConfigDB, which cannot hold an empty table, holds every configuration of    *)
(* every plan, although NoEmptyTableMoveValidator looks only at the tables     *)
(* that a group names, and only after the whole group: a move that stays in    *)
(* its table cannot empty another one.                                         *)
THEOREM PlansLeaveNoEmptyTable ==
    ASSUME MovesWellTyped, SorterOfTheCode, TablesGiven PROVE Spec => []NoEmptyTableOnTheWay
  <1>1. TypeOK /\ PlanReachesTarget => NoEmptyTableOnTheWay
    BY PlanLeavesNoEmptyTable DEF NoEmptyTableOnTheWay
  <1> QED BY <1>1, TypeCorrect, PlanIsSound, PTL
=============================================================================
