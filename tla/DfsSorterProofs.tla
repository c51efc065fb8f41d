--------------------------- MODULE DfsSorterProofs ---------------------------
(***************************************************************************)
(* The search is correct for every set of configurations, every move       *)
(* generator, every set of validators: a list it returns is a plan, a       *)
(* failure means that no plan exists.  The one hypothesis, MovesWellTyped,  *)
(* says that generators yield moves and that simulating an accepted move    *)
(* gives a configuration.                                                   *)
(***************************************************************************)
EXTENDS DfsSorter, SequenceTheorems, WellFoundedInduction, TLAPS

MovesWellTyped ==
    \A c \in Configs, t \in Targets :
        /\ Generate(c, t) \in Seq(Moves)
        /\ \A m \in Elements(Generate(c, t)) : Validate(m, c, t) => Simulate(m, c) \in Configs

-----------------------------------------------------------------------------
(* The inductive invariant. *)

\* The configuration the call in frame i recursed into, if it is waiting for one.
Called(i) == IF i < Len(stack) THEN stack[i + 1].cfg ELSE arg
Waiting(i) == i < Len(stack) \/ pc \in {"enter", "return"}

FramesGenerated ==
    \A i \in 1..Len(stack) : Elements(stack[i].todo) \subseteq Elements(Generate(stack[i].cfg, target))

\* Every waiting call has an accepted move in hand that leads to the call above it.
FramesLinked ==
    \A i \in 1..Len(stack) : Waiting(i) =>
        /\ stack[i].todo # <<>>
        /\ Validate(Head(stack[i].todo), stack[i].cfg, target)
        /\ Simulate(Head(stack[i].todo), stack[i].cfg) = Called(i)

OutermostIsStart ==
    /\ stack = <<>> => arg = start /\ pc # "loop"
    /\ stack # <<>> => stack[1].cfg = start /\ pc # "done"

FoundIsPlan == ret.found => pc \in {"return", "done"} /\ IsPlan(ret.plan, arg, target)

TargetNotVisited == target \notin visited
FramesVisited == \A i \in 1..Len(stack) : stack[i].cfg \in visited
NoneIsVisited == ~ret.found /\ pc \in {"return", "done"} => arg \in visited

OnStack(c) == \E i \in 1..Len(stack) : stack[i].cfg = c

\* A visited configuration is still being worked on, or all it leads to is visited.
VisitedSettled ==
    ~ret.found => \A c \in visited : OnStack(c) \/
        \A m \in Elements(Generate(c, target)) : Validate(m, c, target) => Simulate(m, c) \in visited

\* A call being worked on has yet to try whatever leads to an unvisited configuration.
FramesSettled ==
    ~ret.found => \A i \in 1..Len(stack) : \A m \in Elements(Generate(stack[i].cfg, target)) :
        Validate(m, stack[i].cfg, target) =>
            Simulate(m, stack[i].cfg) \in visited \/ m \in Elements(stack[i].todo)

SearchInv ==
    /\ TypeOK
    /\ FramesGenerated /\ FramesLinked /\ OutermostIsStart
    /\ FoundIsPlan
    /\ TargetNotVisited /\ FramesVisited /\ NoneIsVisited
    /\ NoRepeatedConfig
    /\ VisitedSettled /\ FramesSettled

-----------------------------------------------------------------------------
(* Sequences *)

\* Dropping the first element keeps the others.
LEMMA TailElements ==
    ASSUME NEW S, NEW s \in Seq(S), s # <<>>
    PROVE  /\ Tail(s) \in Seq(S)
           /\ Head(s) \in Elements(s)
           /\ Elements(Tail(s)) \subseteq Elements(s)
           /\ \A m \in Elements(s) : m = Head(s) \/ m \in Elements(Tail(s))
  <1>1. Len(s) \in Nat /\ Len(s) > 0 /\ s[1] = Head(s)
    OBVIOUS
  <1>2. Tail(s) \in Seq(S) /\ Len(Tail(s)) = Len(s) - 1
    OBVIOUS
  <1>3. \A i \in 1..(Len(s) - 1) : Tail(s)[i] = s[i + 1]
    OBVIOUS
  <1>4. Head(s) \in Elements(s)
    BY <1>1 DEF Elements
  <1>5. Elements(Tail(s)) \subseteq Elements(s)
    BY <1>1, <1>2, <1>3 DEF Elements
  <1>6. ASSUME NEW i \in 1..Len(s), i # 1
        PROVE  s[i] \in Elements(Tail(s))
    <2>1. i - 1 \in 1..Len(Tail(s)) /\ Tail(s)[i - 1] = s[i]
      BY <1>1, <1>2, <1>3, <1>6
    <2> QED BY <2>1 DEF Elements
  <1>7. \A m \in Elements(s) : m = Head(s) \/ m \in Elements(Tail(s))
    BY <1>1, <1>6 DEF Elements
  <1> QED BY <1>2, <1>4, <1>5, <1>7

\* The first n elements of a sequence.
LEMMA PrefixElements ==
    ASSUME NEW S, NEW s \in Seq(S), NEW n \in Nat, n <= Len(s)
    PROVE  /\ SubSeq(s, 1, n) \in Seq(S)
           /\ Len(SubSeq(s, 1, n)) = n
           /\ \A i \in 1..n : SubSeq(s, 1, n)[i] = s[i]
  OBVIOUS

\* Returning from the innermost call.
LEMMA PoppedStack ==
    ASSUME stack \in Seq(Frames), stack # <<>>
    PROVE  /\ Popped \in Seq(Frames)
           /\ Len(Popped) = Len(stack) - 1
           /\ \A i \in 1..Len(Popped) : Popped[i] = stack[i]
  <1> DEFINE n == Len(stack) - 1
  <1>1. n \in Nat /\ n <= Len(stack)
    BY EmptySeq, LenProperties
  <1> HIDE DEF n
  <1>2. /\ SubSeq(stack, 1, n) \in Seq(Frames)
        /\ Len(SubSeq(stack, 1, n)) = n
        /\ \A i \in 1..n : SubSeq(stack, 1, n)[i] = stack[i]
    BY <1>1, PrefixElements
  <1> QED BY <1>2 DEF n, Popped

\* Entering a call.
LEMMA PushedStack ==
    ASSUME NEW S, NEW s \in Seq(S), NEW f \in S, NEW r, r = Append(s, f)
    PROVE  /\ r \in Seq(S)
           /\ r # <<>>
           /\ Len(r) = Len(s) + 1
           /\ r[Len(r)] = f
           /\ \A i \in 1..Len(s) : r[i] = s[i]
  BY AppendProperties, LenProperties, EmptySeq

\* Going on to the next move of the innermost call.
LEMMA AdvancedStack ==
    ASSUME stack \in Seq(Frames), stack # <<>>, top.todo # <<>>, NEW r, r = NextMove
    PROVE  /\ r \in Seq(Frames)
           /\ r # <<>>
           /\ Len(r) = Len(stack)
           /\ \A i \in 1..Len(r) : r[i].cfg = stack[i].cfg
           /\ \A i \in 1..Len(r) : i # Len(r) => r[i] = stack[i]
           /\ r[Len(r)].todo = Tail(top.todo)
  <1>1. Len(stack) \in Nat /\ Len(stack) > 0 /\ Len(stack) \in 1..Len(stack)
    BY EmptySeq, LenProperties
  <1>2. top \in Frames
    BY <1>1, ElementOfSeq DEF top
  <1> DEFINE f == [top EXCEPT !.todo = Tail(@)]
  <1>3. Tail(top.todo) \in Seq(Moves)
    BY <1>2, TailElements DEF Frames
  <1>4. f \in Frames /\ f.todo = Tail(top.todo) /\ f.cfg = top.cfg
    BY <1>2, <1>3 DEF Frames
  <1>5. r = [stack EXCEPT ![Len(stack)] = f]
    BY DEF NextMove, top
  <1> HIDE DEF f
  <1>6. /\ r \in Seq(Frames)
        /\ Len(r) = Len(stack)
        /\ \A j \in 1..Len(stack) : r[j] = IF j = Len(stack) THEN f ELSE stack[j]
    BY <1>1, <1>4, <1>5, ExceptSeq
  <1>7. r # <<>>
    BY <1>1, <1>6, EmptySeq
  <1> QED BY <1>1, <1>4, <1>6, <1>7 DEF top

-----------------------------------------------------------------------------
(* Facts about the parameters *)

\* The ends of the problem at hand are configurations.
LEMMA GoalTypes ==
    ASSUME TypeOK
    PROVE  target \in Targets /\ target \in Configs /\ start \in Configs
  BY ProblemsAssumption DEF TypeOK, Targets, target, start

\* An accepted move of a configuration leads to a configuration.
LEMMA AcceptedMove ==
    ASSUME MovesWellTyped, TypeOK, NEW c \in Configs,
           NEW m \in Elements(Generate(c, target)), Validate(m, c, target)
    PROVE  Simulate(m, c) \in Configs
  BY GoalTypes DEF MovesWellTyped

\* The innermost call, while there is one.
LEMMA TopFrame ==
    ASSUME SearchInv, stack # <<>>
    PROVE  /\ Len(stack) \in Nat /\ Len(stack) \in 1..Len(stack)
           /\ top \in Frames /\ top.cfg \in Configs /\ top.todo \in Seq(Moves)
           /\ Elements(top.todo) \subseteq Elements(Generate(top.cfg, target))
  <1>1. stack \in Seq(Frames)
    BY DEF SearchInv, TypeOK
  <1>2. Len(stack) \in Nat /\ Len(stack) \in 1..Len(stack)
    BY <1>1, EmptySeq, LenProperties
  <1>3. top \in Frames
    BY <1>1, <1>2, ElementOfSeq DEF top
  <1>4. Elements(top.todo) \subseteq Elements(Generate(top.cfg, target))
    BY <1>2 DEF SearchInv, FramesGenerated, top
  <1> QED BY <1>2, <1>3, <1>4 DEF Frames

-----------------------------------------------------------------------------
(* The invariant holds initially and every step preserves it. *)

\* Before the first call nothing is visited and nothing waits.
LEMMA InitSearchInv == Init => SearchInv
  <1> SUFFICES ASSUME Init PROVE SearchInv
    OBVIOUS
  <1>1. stack = <<>> /\ Len(stack) = 0 /\ stack \in Seq(Frames)
    BY EmptySeq DEF Init
  <1>2. TypeOK
    BY <1>1, ProblemsAssumption, EmptySeq DEF Init, TypeOK, NoMoves
  <1> QED BY <1>1, <1>2 DEF Init, SearchInv, FramesGenerated, FramesLinked, OutermostIsStart,
        FoundIsPlan, TargetNotVisited, FramesVisited, NoneIsVisited, NoRepeatedConfig,
        VisitedSettled, FramesSettled, NoMoves, start

\* The call for the target itself returns the empty list, which is a plan.
LEMMA NoDiffStep == ASSUME SearchInv, NoDiff PROVE SearchInv'
  <1> USE DEF NoDiff, MoveList
  <1>1. TypeOK'
    BY EmptySeq DEF SearchInv, TypeOK
  <1>2. FoundIsPlan'
    BY DEF FoundIsPlan, IsPlan, target
  <1>3. FramesLinked'
    BY DEF SearchInv, FramesLinked, Waiting, Called, target
  <1> QED BY <1>1, <1>2, <1>3 DEF SearchInv, FramesGenerated, OutermostIsStart, TargetNotVisited,
        FramesVisited, NoneIsVisited, NoRepeatedConfig, VisitedSettled, FramesSettled, target, start

\* A configuration met again is visited already.
LEMMA AlreadyVisitedStep == ASSUME SearchInv, AlreadyVisited PROVE SearchInv'
  <1> USE DEF AlreadyVisited, NoMoves
  <1>1. TypeOK'
    BY EmptySeq DEF SearchInv, TypeOK
  <1>2. ~ret.found
    BY DEF SearchInv, FoundIsPlan
  <1>3. FramesLinked'
    BY DEF SearchInv, FramesLinked, Waiting, Called, target
  <1>4. VisitedSettled' /\ FramesSettled'
    BY <1>2 DEF SearchInv, VisitedSettled, FramesSettled, OnStack, target
  <1> QED BY <1>1, <1>3, <1>4 DEF SearchInv, FramesGenerated, OutermostIsStart, FoundIsPlan,
        TargetNotVisited, FramesVisited, NoneIsVisited, NoRepeatedConfig, target, start

\* The new frame has every move still to try; its configuration was on no frame.
LEMMA ExpandStep == ASSUME MovesWellTyped, SearchInv, Expand PROVE SearchInv'
  <1> USE DEF Expand
  <1> DEFINE f == [cfg |-> arg, todo |-> Generate(arg, target)]
  <1>1. stack \in Seq(Frames) /\ Len(stack) \in Nat /\ arg \in Configs /\ ~ret.found
    BY LenProperties DEF SearchInv, TypeOK, FoundIsPlan
  <1>2. f \in Frames
    BY <1>1, GoalTypes DEF SearchInv, MovesWellTyped, Frames
  <1>3. f.cfg = arg /\ f.todo = Generate(arg, target) /\ stack' = Append(stack, f)
    OBVIOUS
  <1> HIDE DEF f
  <1>4. /\ stack' \in Seq(Frames) /\ stack' # <<>>
        /\ Len(stack') = Len(stack) + 1
        /\ stack'[Len(stack')] = f
        /\ \A i \in 1..Len(stack) : stack'[i] = stack[i]
    BY <1>1, <1>2, <1>3, PushedStack
  <1>5. \A i \in 1..Len(stack') : i = Len(stack') \/ i \in 1..Len(stack)
    BY <1>1, <1>4
  <1>6. TypeOK'
    BY <1>1, <1>4 DEF SearchInv, TypeOK
  <1>7. FramesGenerated'
    BY <1>3, <1>4, <1>5 DEF SearchInv, FramesGenerated, target
  <1>8. FramesLinked'
    <2> SUFFICES ASSUME NEW i \in 1..Len(stack'), i < Len(stack')
                 PROVE  /\ stack'[i].todo # <<>>
                        /\ Validate(Head(stack'[i].todo), stack'[i].cfg, target)
                        /\ Simulate(Head(stack'[i].todo), stack'[i].cfg) = stack'[i + 1].cfg
      BY <1>1, <1>4 DEF FramesLinked, Waiting, Called, target
    <2>1. i \in 1..Len(stack) /\ stack'[i] = stack[i] /\ Waiting(i)
      BY <1>1, <1>4 DEF Waiting
    <2>2. stack'[i + 1].cfg = Called(i)
      <3>1. CASE i < Len(stack)
        BY <3>1, <1>1, <1>4 DEF Called
      <3>2. CASE i = Len(stack)
        BY <3>2, <1>1, <1>3, <1>4 DEF Called
      <3> QED BY <2>1, <3>1, <3>2, <1>1
    <2> QED BY <2>1, <2>2 DEF SearchInv, FramesLinked
  <1>9. OutermostIsStart'
    <2>1. CASE stack = <<>>
      BY <2>1, <1>1, <1>3, <1>4, EmptySeq DEF SearchInv, OutermostIsStart, start
    <2>2. CASE stack # <<>>
      BY <2>2, <1>1, <1>4, EmptySeq DEF SearchInv, OutermostIsStart, start
    <2> QED BY <2>1, <2>2
  <1>10. FoundIsPlan' /\ TargetNotVisited' /\ NoneIsVisited'
    BY <1>1 DEF SearchInv, FoundIsPlan, TargetNotVisited, NoneIsVisited, target
  <1>11. FramesVisited'
    BY <1>3, <1>4, <1>5 DEF SearchInv, FramesVisited
  <1>12. NoRepeatedConfig'
    <2>1. \A i \in 1..Len(stack) : stack'[i].cfg # arg
      BY <1>4 DEF SearchInv, FramesVisited
    <2> QED BY <2>1, <1>3, <1>4, <1>5 DEF SearchInv, NoRepeatedConfig
  <1>13. VisitedSettled'
    <2>1. \A c \in visited : OnStack(c) => OnStack(c)'
      BY <1>1, <1>4 DEF OnStack
    <2>2. OnStack(arg)'
      BY <1>1, <1>3, <1>4 DEF OnStack
    <2> QED BY <2>1, <2>2, <1>1 DEF SearchInv, VisitedSettled, target
  <1>14. FramesSettled'
    BY <1>1, <1>3, <1>4, <1>5 DEF SearchInv, FramesSettled, target
  <1> QED BY <1>6, <1>7, <1>8, <1>9, <1>10, <1>11, <1>12, <1>13, <1>14 DEF SearchInv

\* The accepted move in hand leads to the call that is entered.
LEMMA TryMoveStep == ASSUME MovesWellTyped, SearchInv, TryMove PROVE SearchInv'
  <1> USE DEF TryMove
  <1>1. stack # <<>> /\ ~ret.found
    BY DEF SearchInv, OutermostIsStart, FoundIsPlan
  <1>2. Len(stack) \in 1..Len(stack) /\ Len(stack) \in Nat /\ Head(top.todo) \in Elements(Generate(top.cfg, target))
        /\ top.cfg \in Configs
    BY <1>1, TopFrame, TailElements
  <1>3. TypeOK'
    BY <1>2, AcceptedMove DEF SearchInv, TypeOK
  <1>4. FramesLinked'
    <2> SUFFICES ASSUME NEW i \in 1..Len(stack)
                 PROVE  /\ stack[i].todo # <<>>
                        /\ Validate(Head(stack[i].todo), stack[i].cfg, target)
                        /\ Simulate(Head(stack[i].todo), stack[i].cfg) = Called(i)'
      BY DEF FramesLinked, target
    <2>1. CASE i < Len(stack)
      BY <2>1 DEF SearchInv, FramesLinked, Waiting, Called
    <2>2. CASE i = Len(stack)
      BY <2>2, <1>2 DEF Called, top
    <2> QED BY <2>1, <2>2, <1>2
  <1> QED BY <1>1, <1>3, <1>4 DEF SearchInv, FramesGenerated, OutermostIsStart, FoundIsPlan, TargetNotVisited,
        FramesVisited, NoneIsVisited, NoRepeatedConfig, VisitedSettled, FramesSettled, OnStack, target, start

\* Dropping the move in hand of the innermost call is sound once it is rejected, or
\* once what it leads to is visited.
LEMMA AdvanceStep ==
    ASSUME SearchInv, stack # <<>>, top.todo # <<>>, ~ret.found,
           stack' = NextMove, pc' = "loop", UNCHANGED <<goal, arg, ret, visited>>,
           Validate(Head(top.todo), top.cfg, target) => Simulate(Head(top.todo), top.cfg) \in visited
    PROVE  SearchInv'
  <1>1. /\ Len(stack) \in Nat /\ Len(stack) \in 1..Len(stack) /\ stack \in Seq(Frames)
        /\ top.todo \in Seq(Moves)
    BY TopFrame DEF SearchInv, TypeOK
  <1>2. /\ stack' \in Seq(Frames) /\ stack' # <<>> /\ Len(stack') = Len(stack)
        /\ \A i \in 1..Len(stack') : stack'[i].cfg = stack[i].cfg
        /\ \A i \in 1..Len(stack') : i # Len(stack') => stack'[i] = stack[i]
        /\ stack'[Len(stack')].todo = Tail(top.todo)
    BY <1>1, AdvancedStack
  <1>3. /\ Elements(Tail(top.todo)) \subseteq Elements(top.todo)
        /\ \A m \in Elements(top.todo) : m = Head(top.todo) \/ m \in Elements(Tail(top.todo))
    BY <1>1, TailElements
  <1>4. TypeOK'
    BY <1>2 DEF SearchInv, TypeOK
  <1>5. FramesGenerated'
    <2> SUFFICES ASSUME NEW i \in 1..Len(stack')
                 PROVE  Elements(stack'[i].todo) \subseteq Elements(Generate(stack[i].cfg, target))
      BY <1>2 DEF FramesGenerated, target
    <2>1. Elements(stack[i].todo) \subseteq Elements(Generate(stack[i].cfg, target))
      BY <1>2 DEF SearchInv, FramesGenerated
    <2>2. CASE i = Len(stack')
      BY <2>1, <2>2, <1>2, <1>3 DEF top
    <2>3. CASE i # Len(stack')
      BY <2>1, <2>3, <1>2
    <2> QED BY <2>2, <2>3
  <1>6. FramesLinked'
    <2> SUFFICES ASSUME NEW i \in 1..Len(stack'), i < Len(stack')
                 PROVE  /\ stack'[i].todo # <<>>
                        /\ Validate(Head(stack'[i].todo), stack'[i].cfg, target)
                        /\ Simulate(Head(stack'[i].todo), stack'[i].cfg) = stack'[i + 1].cfg
      BY DEF FramesLinked, Waiting, Called, target
    <2>1. i \in 1..Len(stack) /\ i < Len(stack) /\ stack'[i] = stack[i] /\ stack'[i + 1].cfg = stack[i + 1].cfg
      BY <1>1, <1>2
    <2> QED BY <2>1 DEF SearchInv, FramesLinked, Waiting, Called
  <1>7. OutermostIsStart'
    BY <1>1, <1>2 DEF SearchInv, OutermostIsStart, start
  <1>8. FoundIsPlan' /\ TargetNotVisited' /\ NoneIsVisited'
    BY DEF SearchInv, FoundIsPlan, TargetNotVisited, NoneIsVisited, target
  <1>9. FramesVisited' /\ NoRepeatedConfig'
    BY <1>2 DEF SearchInv, FramesVisited, NoRepeatedConfig
  <1>10. VisitedSettled'
    <2>1. \A c \in visited : OnStack(c) => OnStack(c)'
      BY <1>2 DEF OnStack
    <2> QED BY <2>1 DEF SearchInv, VisitedSettled, target
  <1>11. FramesSettled'
    <2> SUFFICES ASSUME NEW i \in 1..Len(stack'), NEW m \in Elements(Generate(stack[i].cfg, target)),
                        Validate(m, stack[i].cfg, target), Simulate(m, stack[i].cfg) \notin visited
                 PROVE  m \in Elements(stack'[i].todo)
      BY <1>2 DEF FramesSettled, target
    <2>1. m \in Elements(stack[i].todo)
      BY <1>2 DEF SearchInv, FramesSettled
    <2>2. CASE i = Len(stack')
      BY <2>1, <2>2, <1>2, <1>3 DEF top
    <2>3. CASE i # Len(stack')
      BY <2>1, <2>3, <1>2
    <2> QED BY <2>2, <2>3
  <1> QED BY <1>4, <1>5, <1>6, <1>7, <1>8, <1>9, <1>10, <1>11 DEF SearchInv

\* A move the validators reject leads nowhere.
LEMMA RejectMoveStep == ASSUME SearchInv, RejectMove PROVE SearchInv'
  <1>1. stack # <<>> /\ ~ret.found
    BY DEF SearchInv, RejectMove, OutermostIsStart, FoundIsPlan
  <1> QED BY <1>1, AdvanceStep DEF RejectMove

\* A call that returned None has visited the configuration it was called with.
LEMMA ReturnNoneStep == ASSUME SearchInv, ReturnNone PROVE SearchInv'
  <1>1. Len(stack) \in 1..Len(stack)
    BY TopFrame DEF ReturnNone
  <1>2. top.todo # <<>> /\ Simulate(Head(top.todo), top.cfg) = arg
    BY <1>1 DEF SearchInv, ReturnNone, FramesLinked, Waiting, Called, top
  <1>3. arg \in visited
    BY DEF SearchInv, ReturnNone, NoneIsVisited
  <1> QED BY <1>2, <1>3, AdvanceStep DEF ReturnNone

\* What returning from the innermost call does to the frames below it.
LEMMA PopStep ==
    ASSUME SearchInv, stack # <<>>, stack' = Popped, arg' = top.cfg, pc' = "return",
           UNCHANGED <<goal, visited>>
    PROVE  /\ stack' \in Seq(Frames) /\ Len(stack') = Len(stack) - 1
           /\ \A i \in 1..Len(stack') : i \in 1..Len(stack) /\ stack'[i] = stack[i]
           /\ FramesGenerated' /\ FramesLinked' /\ OutermostIsStart'
           /\ TargetNotVisited' /\ FramesVisited' /\ NoRepeatedConfig'
  <1>1. Len(stack) \in Nat /\ Len(stack) \in 1..Len(stack) /\ stack \in Seq(Frames)
    BY TopFrame DEF SearchInv, TypeOK
  <1>2. stack' \in Seq(Frames) /\ Len(stack') = Len(stack) - 1 /\ \A i \in 1..Len(stack') : stack'[i] = stack[i]
    BY <1>1, PoppedStack
  <1>3. \A i \in 1..Len(stack') : i \in 1..Len(stack) /\ i < Len(stack)
    BY <1>1, <1>2
  <1>4. FramesGenerated' /\ TargetNotVisited' /\ FramesVisited' /\ NoRepeatedConfig'
    <2>1. FramesGenerated'
      BY <1>2, <1>3 DEF SearchInv, FramesGenerated, target
    <2>2. TargetNotVisited' /\ FramesVisited'
      BY <1>2, <1>3 DEF SearchInv, TargetNotVisited, FramesVisited, target
    <2>3. NoRepeatedConfig'
      BY <1>2, <1>3 DEF SearchInv, NoRepeatedConfig
    <2> QED BY <2>1, <2>2, <2>3
  <1>5. FramesLinked'
    <2> SUFFICES ASSUME NEW i \in 1..Len(stack')
                 PROVE  /\ stack'[i].todo # <<>>
                        /\ Validate(Head(stack'[i].todo), stack'[i].cfg, target)
                        /\ Simulate(Head(stack'[i].todo), stack'[i].cfg) = Called(i)'
      BY DEF FramesLinked, target
    <2>1. Called(i)' = stack[i + 1].cfg
      <3>1. CASE i < Len(stack')
        BY <3>1, <1>1, <1>2 DEF Called
      <3>2. CASE i = Len(stack')
        BY <3>2, <1>1, <1>2 DEF Called, top
      <3> QED BY <3>1, <3>2, <1>1, <1>2
    <2> QED BY <2>1, <1>2, <1>3 DEF SearchInv, FramesLinked, Waiting, Called
  <1>6. OutermostIsStart'
    <2>1. stack[1].cfg = start
      BY DEF SearchInv, OutermostIsStart
    <2>2. CASE Len(stack) = 1
      BY <2>1, <2>2, <1>2, EmptySeq DEF OutermostIsStart, start, top
    <2>3. CASE Len(stack) # 1
      BY <2>1, <2>3, <1>1, <1>2, EmptySeq DEF OutermostIsStart, start
    <2> QED BY <2>2, <2>3
  <1> QED BY <1>2, <1>3, <1>4, <1>5, <1>6

\* A call that has tried all its moves leaves only visited configurations behind.
LEMMA OutOfMovesStep == ASSUME SearchInv, OutOfMoves PROVE SearchInv'
  <1>1. stack # <<>> /\ ~ret.found /\ ret' = NoMoves /\ ~ret'.found
    BY DEF SearchInv, OutOfMoves, OutermostIsStart, FoundIsPlan, NoMoves
  <1>2. /\ stack' \in Seq(Frames) /\ Len(stack') = Len(stack) - 1
        /\ \A i \in 1..Len(stack') : i \in 1..Len(stack) /\ stack'[i] = stack[i]
        /\ FramesGenerated' /\ FramesLinked' /\ OutermostIsStart'
        /\ TargetNotVisited' /\ FramesVisited' /\ NoRepeatedConfig'
    BY <1>1, PopStep DEF OutOfMoves
  <1>3. Len(stack) \in Nat /\ Len(stack) \in 1..Len(stack) /\ top.cfg \in Configs
    BY <1>1, TopFrame
  <1>4. TypeOK'
    BY <1>2, <1>3, EmptySeq DEF SearchInv, TypeOK, OutOfMoves, NoMoves
  <1>5. FoundIsPlan' /\ NoneIsVisited'
    BY <1>1, <1>3 DEF SearchInv, FoundIsPlan, NoneIsVisited, FramesVisited, OutOfMoves, top
  <1>6. Elements(top.todo) = {}
    BY DEF OutOfMoves, Elements
  <1>7. VisitedSettled'
    <2> SUFFICES ASSUME NEW c \in visited, ~OnStack(c)',
                        NEW m \in Elements(Generate(c, target)), Validate(m, c, target)
                 PROVE  Simulate(m, c) \in visited
      BY DEF VisitedSettled, target, OutOfMoves
    <2>1. CASE OnStack(c)
      <3>1. PICK i \in 1..Len(stack) : stack[i].cfg = c
        BY <2>1 DEF OnStack
      <3>2. i = Len(stack)
        <4>1. i \notin 1..Len(stack')
          BY <3>1, <1>2 DEF OnStack
        <4> QED BY <4>1, <1>2, <1>3
      <3> QED BY <3>1, <3>2, <1>1, <1>3, <1>6 DEF SearchInv, FramesSettled, top
    <2>2. CASE ~OnStack(c)
      BY <2>2, <1>1 DEF SearchInv, VisitedSettled
    <2> QED BY <2>1, <2>2
  <1>8. FramesSettled'
    BY <1>1, <1>2 DEF SearchInv, FramesSettled, OutOfMoves, target
  <1> QED BY <1>2, <1>4, <1>5, <1>7, <1>8 DEF SearchInv

\* An accepted move in front of a plan from where it leads makes a plan.
LEMMA PlanExtended ==
    ASSUME NEW c \in Configs, NEW m \in Moves, NEW t, NEW p \in Seq(Steps),
           m \in Elements(Generate(c, t)), Validate(m, c, t), IsPlan(p, Simulate(m, c), t)
    PROVE  /\ <<[move |-> m, from |-> c]>> \o p \in Seq(Steps)
           /\ IsPlan(<<[move |-> m, from |-> c]>> \o p, c, t)
  <1> DEFINE st == [move |-> m, from |-> c]
             q  == <<st>> \o p
  <1>1. st \in Steps /\ st.move = m /\ st.from = c
    BY DEF Steps
  <1> HIDE DEF st
  <1>2. <<st>> \in Seq(Steps) /\ Len(<<st>>) = 1 /\ <<st>>[1] = st /\ Len(p) \in Nat
    BY <1>1, LenProperties
  <1>3. /\ q \in Seq(Steps)
        /\ Len(q) = 1 + Len(p)
        /\ \A i \in 1..(1 + Len(p)) : q[i] = IF i <= 1 THEN <<st>>[i] ELSE p[i - 1]
    BY <1>2, ConcatProperties
  <1> HIDE DEF q
  <1>4. q[1] = st /\ \A i \in 1..Len(p) : q[i + 1] = p[i]
    BY <1>2, <1>3
  <1>5. q # <<>>
    BY <1>2, <1>3, EmptySeq
  <1>6. Simulate(q[Len(q)].move, q[Len(q)].from) = t
    <2>1. CASE p = <<>>
      BY <2>1, <1>1, <1>3, <1>4, EmptySeq DEF IsPlan
    <2>2. CASE p # <<>>
      <3>1. Len(p) \in 1..Len(p) /\ q[Len(q)] = p[Len(p)]
        BY <2>2, <1>2, <1>3, <1>4, EmptySeq
      <3> QED BY <2>2, <3>1 DEF IsPlan
    <2> QED BY <2>1, <2>2
  <1>7. ASSUME NEW i \in 1..Len(q)
        PROVE  /\ q[i].move \in Elements(Generate(q[i].from, t))
               /\ Validate(q[i].move, q[i].from, t)
               /\ i < Len(q) => q[i + 1].from = Simulate(q[i].move, q[i].from)
    <2>1. CASE i = 1
      <3>1. i < Len(q) => p # <<>> /\ q[i + 1] = p[1]
        BY <2>1, <1>2, <1>3, <1>4, EmptySeq
      <3> QED BY <2>1, <3>1, <1>1, <1>4 DEF IsPlan
    <2>2. CASE i # 1
      <3> DEFINE j == i - 1
      <3>1. j \in 1..Len(p) /\ q[i] = p[j] /\ (i < Len(q) => j < Len(p) /\ q[i + 1] = p[j + 1])
        BY <2>2, <1>2, <1>3, <1>4
      <3> HIDE DEF j
      <3> QED BY <3>1 DEF IsPlan
    <2> QED BY <2>1, <2>2
  <1>8. IsPlan(q, c, t)
    BY <1>1, <1>4, <1>5, <1>6, <1>7 DEF IsPlan
  <1> QED BY <1>3, <1>8 DEF q, st

\* [move] + new_moves is a plan from the caller's configuration.
LEMMA ReturnFoundStep == ASSUME SearchInv, ReturnFound PROVE SearchInv'
  <1> DEFINE p == <<[move |-> Head(top.todo), from |-> top.cfg]>> \o ret.plan
  <1>1. /\ stack # <<>> /\ stack' = Popped /\ arg' = top.cfg /\ pc = "return" /\ pc' = "return"
        /\ ret.found /\ ret' = MoveList(p) /\ UNCHANGED <<goal, visited>>
    BY DEF ReturnFound
  <1>2. /\ stack' \in Seq(Frames)
        /\ FramesGenerated' /\ FramesLinked' /\ OutermostIsStart'
        /\ TargetNotVisited' /\ FramesVisited' /\ NoRepeatedConfig'
    BY <1>1, PopStep
  <1>3. /\ Len(stack) \in Nat /\ Len(stack) \in 1..Len(stack)
        /\ top.cfg \in Configs /\ top.todo \in Seq(Moves)
        /\ Elements(top.todo) \subseteq Elements(Generate(top.cfg, target))
    BY <1>1, TopFrame
  <1>4. /\ top.todo # <<>>
        /\ Validate(Head(top.todo), top.cfg, target)
        /\ Simulate(Head(top.todo), top.cfg) = arg
    BY <1>1, <1>3 DEF SearchInv, FramesLinked, Waiting, Called, top
  <1>5. Head(top.todo) \in Moves /\ Head(top.todo) \in Elements(Generate(top.cfg, target))
    BY <1>3, <1>4, TailElements, HeadTailProperties
  <1>6. ret.plan \in Seq(Steps) /\ IsPlan(ret.plan, arg, target)
    BY <1>1 DEF SearchInv, TypeOK, FoundIsPlan
  <1>7. p \in Seq(Steps) /\ IsPlan(p, top.cfg, target)
    BY <1>3, <1>4, <1>5, <1>6, PlanExtended
  <1> HIDE DEF p
  <1>8. ret' \in [found : BOOLEAN, plan : Seq(Steps)] /\ ret'.found /\ ret'.plan = p
    BY <1>1, <1>7 DEF MoveList
  <1>9. TypeOK'
    BY <1>1, <1>2, <1>3, <1>8 DEF SearchInv, TypeOK
  <1>10. FoundIsPlan'
    BY <1>1, <1>7, <1>8 DEF FoundIsPlan, IsPlan, target
  <1> QED BY <1>2, <1>8, <1>9, <1>10 DEF SearchInv, NoneIsVisited, VisitedSettled, FramesSettled

\* PatchSorter.sort only passes on what the outermost call returned.
LEMMA FinishStep == ASSUME SearchInv, Finish PROVE SearchInv'
  <1> USE DEF Finish
  <1>1. TypeOK' /\ OutermostIsStart'
    BY DEF SearchInv, TypeOK, OutermostIsStart, start
  <1>2. FramesGenerated' /\ FramesVisited' /\ NoRepeatedConfig' /\ TargetNotVisited' /\ NoneIsVisited'
    BY DEF SearchInv, FramesGenerated, FramesVisited, NoRepeatedConfig, TargetNotVisited, NoneIsVisited, target
  <1>3. FramesLinked'
    BY EmptySeq DEF FramesLinked
  <1>4. FoundIsPlan'
    BY DEF SearchInv, FoundIsPlan, IsPlan, target
  <1>5. VisitedSettled' /\ FramesSettled'
    BY DEF SearchInv, VisitedSettled, FramesSettled, OnStack, target
  <1> QED BY <1>1, <1>2, <1>3, <1>4, <1>5 DEF SearchInv

\* A step that changes nothing.
LEMMA StutterStep == ASSUME SearchInv, UNCHANGED vars PROVE SearchInv'
  BY DEF vars, SearchInv, TypeOK, FramesGenerated, FramesLinked, OutermostIsStart, FoundIsPlan, TargetNotVisited,
        FramesVisited, NoneIsVisited, NoRepeatedConfig, VisitedSettled, FramesSettled, OnStack, Waiting, Called,
        IsPlan, target, start

\* SearchInv is inductive.
LEMMA SearchInvStep == ASSUME MovesWellTyped, SearchInv, [Next]_vars PROVE SearchInv'
  BY NoDiffStep, AlreadyVisitedStep, ExpandStep, TryMoveStep, RejectMoveStep, OutOfMovesStep,
     ReturnNoneStep, ReturnFoundStep, FinishStep, StutterStep DEF Next, Stopped

\* SearchInv holds throughout every search.
THEOREM SearchInvariant == ASSUME MovesWellTyped PROVE Spec => []SearchInv
  BY InitSearchInv, SearchInvStep, PTL DEF Spec

-----------------------------------------------------------------------------
(* The results *)

(* Whatever the generators and validators do, the search handles only moves  *)
(* and configurations.                                                       *)
THEOREM TypeCorrect == ASSUME MovesWellTyped PROVE Spec => []TypeOK
  <1>1. SearchInv => TypeOK
    BY DEF SearchInv
  <1> QED BY <1>1, SearchInvariant, PTL

(* The list of moves that DfsSorter.sort returns leads from the current to   *)
(* the target configuration through accepted moves only.                     *)
THEOREM PlanIsSound == ASSUME MovesWellTyped PROVE Spec => []PlanReachesTarget
  <1>1. SearchInv => PlanReachesTarget
    BY DEF SearchInv, PlanReachesTarget, Sorted, FoundIsPlan, OutermostIsStart
  <1> QED BY <1>1, SearchInvariant, PTL

(* When DfsSorter.sort returns None, the visited configurations hold the     *)
(* current one, not the target, and no accepted move leads out of them.      *)
THEOREM FailureIsSound == ASSUME MovesWellTyped PROVE Spec => []FailureIsFinal
  <1>1. ASSUME SearchInv, Failed PROVE stack = <<>> /\ arg = start
    BY <1>1 DEF SearchInv, Failed, OutermostIsStart
  <1>2. SearchInv => FailureIsFinal
    BY <1>1, EmptySeq DEF SearchInv, FailureIsFinal, Failed, NoneIsVisited, TargetNotVisited,
        VisitedSettled, OnStack, ClosedUnderMoves
  <1> QED BY <1>2, SearchInvariant, PTL

(* DfsSorter.sort never recurses into a configuration it is still working on. *)
THEOREM NeverRepeats == ASSUME MovesWellTyped PROVE Spec => []NoRepeatedConfig
  <1>1. SearchInv => NoRepeatedConfig
    BY DEF SearchInv
  <1> QED BY <1>1, SearchInvariant, PTL

\* A non-empty set of numbers has a least one.
LEMMA LeastNumber ==
    ASSUME NEW T, T \subseteq Nat, T # {}
    PROVE  \E n \in T : \A k \in T : ~(k < n)
  <1>1. IsWellFoundedOn(OpToRel(<, Nat), Nat)
    BY NatLessThanWellFounded
  <1>2. PICK n \in T : \A k \in T : ~(<<k, n>> \in OpToRel(<, Nat))
    BY <1>1, WFMin
  <1> QED BY <1>2 DEF OpToRel

\* No plan leads out of a set that is closed under accepted moves.
LEMMA ClosedHoldsPlans ==
    ASSUME NEW V, NEW c \in V, NEW t, t \notin V, ClosedUnderMoves(V, t), NEW p \in Seq(Steps)
    PROVE  ~IsPlan(p, c, t)
  <1> SUFFICES ASSUME IsPlan(p, c, t) PROVE FALSE
    OBVIOUS
  <1>1. p # <<>>
    BY DEF IsPlan
  <1>2. Len(p) \in Nat /\ Len(p) > 0
    BY <1>1, EmptySeq, LenProperties
  <1> DEFINE Outside == {i \in 1..Len(p) : p[i].from \notin V}
  <1>3. Outside = {}
    <2> SUFFICES ASSUME Outside # {} PROVE FALSE
      OBVIOUS
    <2>0. Outside \subseteq Nat
      BY <1>2
    <2>1. PICK n \in Outside : \A k \in Outside : ~(k < n)
      <3> HIDE DEF Outside
      <3> QED BY <2>0, LeastNumber
    <2>2. n \in 1..Len(p) /\ n # 1
      BY <1>1 DEF IsPlan
    <2> DEFINE k == n - 1
    <2>3. k \in 1..Len(p) /\ k < Len(p) /\ k < n /\ n = k + 1
      BY <1>2, <2>2
    <2> HIDE DEF k
    <2>4. p[k].from \in V
      BY <2>1, <2>3
    <2>5. p[n].from = Simulate(p[k].move, p[k].from) /\ p[k].move \in Elements(Generate(p[k].from, t))
          /\ Validate(p[k].move, p[k].from, t)
      BY <2>3 DEF IsPlan
    <2> QED BY <2>1, <2>4, <2>5 DEF ClosedUnderMoves
  <1>4. Len(p) \in 1..Len(p) /\ p[Len(p)].from \in V
    BY <1>2, <1>3
  <1> QED BY <1>1, <1>4 DEF IsPlan, ClosedUnderMoves

(* "There is no possible sorting" is true: when DfsSorter.sort fails, no list *)
(* of accepted moves, however long, leads to the target.                      *)
NoPlanExists == Failed => \A p \in Seq(Steps) : ~IsPlan(p, start, target)

(* The search is complete for every generator and every set of validators.   *)
THEOREM FailureMeansNoPlan == ASSUME MovesWellTyped PROVE Spec => []NoPlanExists
  <1>1. FailureIsFinal => NoPlanExists
    BY ClosedHoldsPlans DEF FailureIsFinal, NoPlanExists
  <1> QED BY <1>1, FailureIsSound, PTL
=============================================================================
