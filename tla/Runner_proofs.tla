---------------------------- MODULE Runner_proofs ----------------------------
(***************************************************************************)
(* Proofs about Runner, for every tree of Depends, every number of command *)
(* lines and every interleaving of the threads: the state keeps its types, *)
(* with -j 1 a goal is built once and a line is expanded with the rule     *)
(* stack of its own goal, on Windows the prerequisites of a target are     *)
(* built before its commands run, and a command that fails stops the       *)
(* targets above it and is reported by the make.                           *)
(***************************************************************************)
EXTENDS Runner, FiniteSetTheorems, TLAPS

(* A thread that has been started and has not come to its end.             *)
Active(n) == pc[n] \notin {"off", "returned", "waited"}

(* The threads that have not begun with their children.                    *)
Early == {"off", "check", "wait", "set", "waited"}

(* Children are started and their results taken from left to right.        *)
InOrder ==
  \A p \in Parents :
    /\ seen[p] <= next[p] /\ next[p] <= Len(Children[p])
    /\ \A i \in 1 .. Len(Children[p]) : pc[Children[p][i]] = "off" <=> i > next[p]
    /\ \A i \in 1 .. seen[p] : Finished(Children[p][i])

(* What a thread has done when it comes to a stage.                        *)
Stages ==
  /\ pc[Main] \in {"children", "join", "returned"}
  /\ \A p \in Parents :
       /\ pc[p] \in Early => next[p] = 0 /\ seen[p] = 0 /\ ~stop[p]
       /\ pc[p] \notin {"children", "join"} =>
            \A i \in 1 .. next[p] : Finished(Children[p][i])
       /\ pc[p] = "join" => stop[p]
       /\ pc[p] \in Commands => ~stop[p]
       /\ pc[p] \in Commands \cup {"release", "returned"} /\ ~stop[p] =>
            seen[p] = Len(Children[p])

(* The inductive invariant of the threads.                                 *)
TInv == TypeOK /\ InOrder /\ Stages

-----------------------------------------------------------------------------
(* With -j 1 one thread runs at a time: it is active and none of its       *)
(* children is.                                                            *)
Tip(n) == Active(n) /\ \A i \in 1 .. Len(Children[n]) : ~Active(Children[n][i])

OneByOne == OneJob => \A p, q \in Parents : Tip(p) /\ Tip(q) => p = q

(* isBuilt is set by the builders of a goal only, and before they build.   *)
Marked == \A n \in Nodes : n \in Builders(GoalOf[n]) => isBuilt[GoalOf[n]]
NotYet == OneJob => \A n \in Nodes : pc[n] = "set" => ~isBuilt[GoalOf[n]]
BuildsAlone == OneJob => \A g \in Goals : \A m, n \in Builders(g) : m = n
StackSet == OneJob => \A n \in Nodes : pc[n] \in Commands => ruleStack = n

(* The inductive invariant of a make with -j 1.                            *)
OneInv == TInv /\ OneByOne /\ Marked /\ NotYet /\ BuildsAlone /\ StackSet

-----------------------------------------------------------------------------
(* On Windows the onHold of a goal has units, and a thread has taken one,  *)
(* only after a builder of the goal has released it.                       *)
HoldReleased ==
  Windows => \A g \in Goals :
    onHold[g] > 0 \/ (\E n \in Nodes : GoalOf[n] = g /\ pc[n] = "waited")
      => \E m \in Builders(g) : pc[m] = "returned"

(* Who has waited for a goal has waited until it was built.                *)
Awaited ==
  \A n \in Nodes : pc[n] = "waited" =>
    \E m \in Builders(GoalOf[n]) : pc[m] = "returned"

-----------------------------------------------------------------------------
(* -k is not used with -j 1, where RunOne leaves stop as it is.            *)
OptionsStop == \A o \in Options : ~(o.oneJob /\ o.keepGoing)

(* A failure that was taken has stopped the parent, and one that has       *)
(* stopped returns a failure.                                              *)
Failures ==
  /\ \A p \in Parents : \A i \in 1 .. seen[p] : rv[Children[p][i]] > 0 => stop[p]
  /\ \A p \in Parents : pc[p] \in {"release", "returned"} /\ stop[p] => rv[p] > 0

(* No status is negative.                                                  *)
Statuses == (\A p \in Parents : rv[p] >= 0) /\ (\A n \in Nodes : last[n] >= 0)

(* The two properties for the statuses that RunOne takes for a failure,    *)
(* the positive ones: Spawn returns -1 for a command that did not start,   *)
(* and that stops nothing.                                                 *)
PositiveStops ==
  \A n \in Nodes : pc[n] \in Commands =>
    \A i \in 1 .. Len(Children[n]) : Finished(Children[n][i]) /\ rv[Children[n][i]] <= 0

PositiveReported ==
  pc[Main] = "returned" /\ (\E n \in Nodes : pc[n] = "returned" /\ rv[n] > 0)
    => rv[Main] > 0

-----------------------------------------------------------------------------
(* A child is a node of the tree.                                          *)
LEMMA ChildIsNode ==
  ASSUME NEW p \in Parents
  PROVE  /\ Len(Children[p]) \in Nat
         /\ \A i \in 1 .. Len(Children[p]) :
              Children[p][i] \in Nodes /\ Children[p][i] \in Parents
BY TreeAssumption DEF Parents

(* A node is the child of one parent, and at one place.                    *)
LEMMA OneParent ==
  ASSUME NEW p \in Parents, NEW i \in 1 .. Len(Children[p]),
         NEW q \in Parents, NEW j \in 1 .. Len(Children[q]),
         Children[p][i] = Children[q][j]
  PROVE  p = q /\ i = j
BY OwnershipAssumption, TreeAssumption

(* Main runs no commands and is nobody's child.                            *)
LEMMA MainApart == Main \in Parents /\ Main \notin Nodes
BY TreeAssumption DEF Parents

-----------------------------------------------------------------------------
(* Types.                                                                  *)

LEMMA TypeInit == Init => TypeOK
<1> SUFFICES ASSUME Init PROVE TypeOK
  OBVIOUS
<1>1. pc \in [Parents -> {"children", "off"}]
  BY DEF Init
<1>2. onHold \in [Goals -> Nat]
  BY HoldAssumption DEF Init
<1>3. pc \in [Parents -> {"off", "check", "wait", "set", "children", "join",
                         "release", "returned", "waited"} \cup Commands]
  BY <1>1
<1>4. /\ next \in [Parents -> Nat] /\ seen \in [Parents -> Nat]
      /\ rv \in [Parents -> Int] /\ stop \in [Parents -> BOOLEAN]
      /\ line \in [Nodes -> Nat] /\ last \in [Nodes -> Int]
      /\ isBuilt \in [Goals -> BOOLEAN]
  BY DEF Init
<1>5. /\ stopAll \in BOOLEAN /\ ruleStack \in Nodes \cup {NoNode}
      /\ running \subseteq Nodes /\ options \in Options
  BY DEF Init, Slots!Init
<1> QED
  BY <1>2, <1>3, <1>4, <1>5 DEF TypeOK

(* What pc may be, and a thread that goes from one stage to the next.      *)
Stage == {"off", "check", "wait", "set", "children", "join",
          "release", "returned", "waited"} \cup Commands

LEMMA StageTypes ==
  ASSUME NEW x \in Stage, NEW n \in Parents, pc \in [Parents -> Stage], Goto(n, x)
  PROVE  pc' \in [Parents -> Stage]
BY DEF Goto

(* One action of a node at a time.                                         *)
LEMMA TypeNode ==
  ASSUME TypeOK, InOrder, NEW n \in Nodes, RunOne(n), ~Family(n)
  PROVE  TypeOK'
<1>1. n \in Parents /\ GoalOf[n] \in Goals /\ options' = options
  BY TreeAssumption DEF Parents, RunOne
<1>2. pc \in [Parents -> Stage]
  BY DEF TypeOK, Stage
<1>3. ASSUME NEW x \in Stage, Goto(n, x)
      PROVE  pc' \in [Parents -> Stage]
  BY <1>1, <1>2, <1>3, StageTypes
<1>4. {"wait", "set", "waited", "children", "release", "expand", "slot", "launch",
       "clear", "command", "result", "returned"} \subseteq Stage
  BY DEF Stage, Commands
<1>5. SUFFICES /\ pc' \in [Parents -> Stage]
               /\ next' \in [Parents -> Nat] /\ seen' \in [Parents -> Nat]
               /\ rv' \in [Parents -> Int] /\ stop' \in [Parents -> BOOLEAN]
               /\ line' \in [Nodes -> Nat] /\ last' \in [Nodes -> Int]
               /\ isBuilt' \in [Goals -> BOOLEAN] /\ onHold' \in [Goals -> Nat]
               /\ stopAll' \in BOOLEAN
               /\ ruleStack' \in Nodes \cup {NoNode}
               /\ running' \subseteq Nodes
  BY <1>1 DEF TypeOK, Stage
<1>6. /\ next \in [Parents -> Nat] /\ seen \in [Parents -> Nat]
      /\ rv \in [Parents -> Int] /\ stop \in [Parents -> BOOLEAN]
      /\ line \in [Nodes -> Nat] /\ last \in [Nodes -> Int]
      /\ isBuilt \in [Goals -> BOOLEAN] /\ onHold \in [Goals -> Nat]
      /\ stopAll \in BOOLEAN
      /\ ruleStack \in Nodes \cup {NoNode}
      /\ running \subseteq Nodes
  BY DEF TypeOK
<1>7. CASE Check(n)
  BY <1>3, <1>4, <1>6, <1>7 DEF Check, local, shared
<1>8. CASE Wait(n)
  BY <1>1, <1>3, <1>4, <1>6, <1>8 DEF Wait, local, shared
<1>9. CASE SetBuilt(n)
  BY <1>1, <1>3, <1>4, <1>6, <1>9 DEF SetBuilt, local, shared
<1>10. CASE Stopped(n) \/ NoCommands(n) \/ StartCommands(n)
  BY <1>1, <1>3, <1>4, <1>6, <1>10 DEF Stopped, NoCommands, StartCommands, shared
<1>11. CASE Expand(n) \/ TakeJob(n) \/ Launch(n)
  BY <1>3, <1>4, <1>6, <1>11
     DEF Expand, TakeJob, Launch, Slots!Start, Slots!Finish, local, shared
<1>12. CASE CommandEnds(n)
  BY <1>3, <1>4, <1>6, <1>12, OptionsAssumption DEF CommandEnds, Slots!Finish
<1>13. CASE LineDone(n)
  BY <1>1, <1>3, <1>4, <1>6, <1>13 DEF LineDone, shared
<1>14. CASE Clear(n)
  BY <1>3, <1>4, <1>6, <1>14 DEF Clear
<1>15. CASE Release(n)
  BY <1>1, <1>3, <1>4, <1>6, <1>15, HoldAssumption DEF Release, local
<1> QED
  BY <1>7, <1>8, <1>9, <1>10, <1>11, <1>12, <1>13, <1>14, <1>15 DEF RunOne

(* A parent starts a child or takes a result.                              *)
LEMMA TypeFamily ==
  ASSUME TypeOK, InOrder, NEW n \in Parents, Family(n), UNCHANGED options
  PROVE  TypeOK'
<1>1. pc \in [Parents -> Stage] /\ {"check", "join", "children"} \subseteq Stage
  BY DEF TypeOK, Stage
<1>2. SUFFICES /\ pc' \in [Parents -> Stage]
               /\ next' \in [Parents -> Nat] /\ seen' \in [Parents -> Nat]
               /\ rv' \in [Parents -> Int] /\ stop' \in [Parents -> BOOLEAN]
               /\ stopAll' \in BOOLEAN
               /\ UNCHANGED <<line, last, isBuilt, onHold, ruleStack, running>>
  BY DEF TypeOK, Stage
<1>3. /\ next \in [Parents -> Nat] /\ seen \in [Parents -> Nat]
      /\ rv \in [Parents -> Int] /\ stop \in [Parents -> BOOLEAN]
      /\ stopAll \in BOOLEAN
  BY DEF TypeOK
<1>4. CASE SpawnChild(n)
  <2>1. pc' \in [Parents -> Stage]
    BY <1>1, <1>4 DEF SpawnChild
  <2>2. next' \in [Parents -> Nat]
    BY <1>3, <1>4 DEF SpawnChild
  <2> QED
    BY <1>3, <1>4, <2>1, <2>2 DEF SpawnChild, shared
<1>5. CASE TakeResult(n)
  <2>1. Children[n][seen[n] + 1] \in Parents
    BY <1>3, <1>5, ChildIsNode DEF TakeResult, ResultReady, InOrder
  <2>2. pc' \in [Parents -> Stage]
    BY <1>1, <1>5, StageTypes DEF TakeResult
  <2>3. rv' \in [Parents -> Int]
    BY <1>3, <1>5, <2>1 DEF TakeResult
  <2>4. seen' \in [Parents -> Nat] /\ stop' \in [Parents -> BOOLEAN]
    BY <1>3, <1>5 DEF TakeResult
  <2>5. stopAll' \in BOOLEAN
    BY <1>3, <1>5 DEF TakeResult
  <2> QED
    BY <1>3, <1>5, <2>2, <2>3, <2>4, <2>5 DEF TakeResult
<1> QED
  BY <1>4, <1>5 DEF Family

LEMMA TypeStep ==
  ASSUME TypeOK, InOrder, [Next]_vars
  PROVE  TypeOK'
<1>1. CASE \E n \in Nodes : RunOne(n)
  <2>1. PICK n \in Nodes : RunOne(n)
    BY <1>1
  <2>2. n \in Parents
    BY DEF Parents
  <2> QED
    BY <2>1, <2>2, TypeNode, TypeFamily DEF RunOne
<1>2. CASE RunCommands
  <2>1. CASE EndMain
    BY <1>2, <2>1, MainApart DEF RunCommands, EndMain, TypeOK, shared, Goto
  <2> QED
    BY <1>2, <2>1, MainApart, TypeFamily DEF RunCommands
<1>3. CASE UNCHANGED vars
  BY <1>3 DEF vars, local, shared, TypeOK
<1> QED
  BY <1>1, <1>2, <1>3 DEF Next, Over

-----------------------------------------------------------------------------
(* The steps of a thread, apart from those with its children, go along     *)
(* these edges from stage to stage.                                        *)
Edge(n, x) ==
  \/ pc[n] = "check" /\ x \in {"wait", "set"}
  \/ pc[n] = "wait" /\ x = "waited"
  \/ pc[n] = "set" /\ x = "children"
  \/ n # Main /\ Joined(n) /\ x = "release"
  \/ n # Main /\ Joined(n) /\ ~stop[n] /\ x = "expand"
  \/ pc[n] \in Commands /\ x \in Commands \cup {"release"}
  \/ pc[n] = "release" /\ x = "returned"
  \/ n = Main /\ Joined(n) /\ x = "returned"

Move(n, x) == Edge(n, x) /\ Goto(n, x) /\ UNCHANGED <<next, seen, stop>>

LEMMA NodeMoves ==
  ASSUME NEW n \in Nodes, RunOne(n), ~Family(n)
  PROVE  \E x : Move(n, x)
<1>1. {"expand", "slot", "launch", "command", "result", "clear"} = Commands
  BY DEF Commands
<1>2. SUFFICES \E x : Edge(n, x) /\ Goto(n, x) /\ UNCHANGED <<next, seen, stop>>
  BY DEF Move
<1>3. CASE Check(n) \/ Wait(n) \/ SetBuilt(n)
  BY <1>3 DEF Check, Wait, SetBuilt, Edge, local
<1>4. CASE Stopped(n) \/ NoCommands(n)
  BY <1>4 DEF Stopped, NoCommands, Edge
<1>5. CASE StartCommands(n)
  BY <1>5 DEF StartCommands, Edge
<1>6. CASE Expand(n) \/ TakeJob(n)
  BY <1>1, <1>6 DEF Expand, TakeJob, Edge, local
<1>7. CASE Launch(n)
  BY <1>1, <1>7 DEF Launch, Edge, local
<1>8. CASE CommandEnds(n)
  BY <1>1, <1>8 DEF CommandEnds, Edge
<1>9. CASE LineDone(n)
  BY <1>1, <1>9 DEF LineDone, Edge
<1>10. CASE Clear(n)
  BY <1>1, <1>10 DEF Clear, Edge
<1>11. CASE Release(n)
  BY <1>11 DEF Release, Edge, local
<1> QED
  BY <1>3, <1>4, <1>5, <1>6, <1>7, <1>8, <1>9, <1>10, <1>11 DEF RunOne

LEMMA MainMoves == EndMain => Move(Main, "returned")
BY DEF EndMain, Move, Edge

(* What the edges leave alone: nobody else's stage changes, and a thread   *)
(* that moves was active.                                                  *)
LEMMA MoveEffect ==
  ASSUME pc \in [Parents -> Stage], NEW n \in Parents, NEW x, Move(n, x)
  PROVE  /\ Active(n) /\ x # "off" /\ pc'[n] = x
         /\ \A p \in Parents \ {n} : pc'[p] = pc[p]
         /\ \A p \in Parents : Finished(p) => Finished(p)'
         /\ \A p \in Parents : pc'[p] = "off" <=> pc[p] = "off"
<1>1. Active(n) /\ x # "off"
  BY DEF Move, Edge, Active, Joined, Commands
<1>2. pc'[n] = x /\ \A p \in Parents \ {n} : pc'[p] = pc[p]
  BY DEF Move, Goto
<1> QED
  BY <1>1, <1>2 DEF Active, Finished

LEMMA StageOfPc == TypeOK <=> TypeOK /\ pc \in [Parents -> Stage]
BY DEF TypeOK, Stage

LEMMA InOrderMove ==
  ASSUME TypeOK, InOrder, NEW n \in Parents, NEW x, Move(n, x)
  PROVE  InOrder'
<1>1. UNCHANGED <<next, seen>>
  BY DEF Move
<1> SUFFICES ASSUME NEW p \in Parents
             PROVE  /\ seen[p] <= next[p] /\ next[p] <= Len(Children[p])
                    /\ \A i \in 1 .. Len(Children[p]) :
                         pc'[Children[p][i]] = "off" <=> i > next[p]
                    /\ \A i \in 1 .. seen[p] : Finished(Children[p][i])'
  BY <1>1 DEF InOrder
<1>2. seen[p] <= next[p] /\ next[p] <= Len(Children[p])
  BY DEF InOrder
<1>3. seen[p] \in Nat /\ next[p] \in Nat
  BY DEF TypeOK
<1>4. ASSUME NEW i \in 1 .. Len(Children[p])
      PROVE  pc'[Children[p][i]] = "off" <=> i > next[p]
  BY ChildIsNode, MoveEffect, StageOfPc DEF InOrder
<1>5. ASSUME NEW i \in 1 .. seen[p]
      PROVE  Finished(Children[p][i])'
  <2>1. i \in 1 .. Len(Children[p])
    BY <1>2, <1>3, ChildIsNode
  <2>2. Children[p][i] \in Parents /\ Finished(Children[p][i])
    BY <2>1, ChildIsNode DEF InOrder
  <2> QED
    BY <2>2, MoveEffect, StageOfPc
<1> QED
  BY <1>2, <1>4, <1>5

(* The child of a SpawnChild, and that no other place holds it.            *)
LEMMA SpawnEffect ==
  ASSUME TypeOK, InOrder, NEW n \in Parents, SpawnChild(n),
         NEW c, c = Children[n][next[n] + 1]
  PROVE  /\ c \in Nodes /\ c \in Parents /\ c # n /\ pc[c] = "off"
         /\ next[n] + 1 \in 1 .. Len(Children[n])
         /\ pc'[c] = "check" /\ next'[n] = next[n] + 1
         /\ \A p \in Parents \ {c} : pc'[p] = pc[p]
         /\ \A p \in Parents \ {n} : next'[p] = next[p]
         /\ \A p \in Parents : Finished(p) => Finished(p)'
<1>1. next[n] \in Nat /\ next[n] + 1 \in 1 .. Len(Children[n])
  BY ChildIsNode DEF SpawnChild, TypeOK
<1>2. c \in Nodes /\ c \in Parents
  BY <1>1, ChildIsNode
<1>3. pc[c] = "off"
  BY <1>1 DEF InOrder
<1>4. c # n
  BY <1>3 DEF SpawnChild
<1>5. pc'[c] = "check" /\ \A p \in Parents \ {c} : pc'[p] = pc[p]
  BY <1>2, StageOfPc DEF SpawnChild
<1>6. next'[n] = next[n] + 1 /\ \A p \in Parents \ {n} : next'[p] = next[p]
  BY DEF SpawnChild, TypeOK
<1> QED
  BY <1>1, <1>2, <1>3, <1>4, <1>5, <1>6 DEF Finished

LEMMA InOrderSpawn ==
  ASSUME TypeOK, InOrder, NEW n \in Parents, SpawnChild(n)
  PROVE  InOrder'
<1> DEFINE c == Children[n][next[n] + 1]
<1>0. seen' = seen
  BY DEF SpawnChild
<1> SUFFICES ASSUME NEW p \in Parents
             PROVE  /\ seen[p] <= next'[p] /\ next'[p] <= Len(Children[p])
                    /\ \A i \in 1 .. Len(Children[p]) :
                         pc'[Children[p][i]] = "off" <=> i > next'[p]
                    /\ \A i \in 1 .. seen[p] : Finished(Children[p][i])'
  BY <1>0 DEF InOrder
<1>1. seen[p] <= next[p] /\ next[p] <= Len(Children[p])
  BY DEF InOrder
<1>2. seen[p] \in Nat /\ next[p] \in Nat /\ Len(Children[p]) \in Nat
  BY ChildIsNode DEF TypeOK
<1>3. seen[p] <= next'[p] /\ next'[p] <= Len(Children[p])
  BY <1>1, <1>2, SpawnEffect
<1>4. ASSUME NEW i \in 1 .. Len(Children[p])
      PROVE  pc'[Children[p][i]] = "off" <=> i > next'[p]
  <2>1. pc[Children[p][i]] = "off" <=> i > next[p]
    BY DEF InOrder
  <2>2. CASE p = n /\ i = next[n] + 1
    BY <2>2, <1>2, SpawnEffect
  <2>3. CASE ~(p = n /\ i = next[n] + 1)
    <3>1. Children[p][i] # c /\ Children[p][i] \in Parents
      BY <2>3, SpawnEffect, OneParent, ChildIsNode
    <3>2. pc'[Children[p][i]] = pc[Children[p][i]]
      BY <3>1, SpawnEffect
    <3>3. i > next'[p] <=> i > next[p]
      BY <1>2, <2>3, SpawnEffect
    <3> QED
      BY <2>1, <3>2, <3>3
  <2> QED
    BY <2>2, <2>3
<1>5. ASSUME NEW i \in 1 .. seen[p]
      PROVE  Finished(Children[p][i])'
  <2>1. i \in 1 .. Len(Children[p])
    BY <1>1, <1>2
  <2>2. Children[p][i] \in Parents /\ Finished(Children[p][i])
    BY <2>1, ChildIsNode DEF InOrder
  <2> QED
    BY <2>2, SpawnEffect
<1> QED
  BY <1>3, <1>4, <1>5

LEMMA TakeEffect ==
  ASSUME TypeOK, InOrder, NEW n \in Parents, TakeResult(n)
  PROVE  /\ pc[n] = "children" /\ pc'[n] \in {"children", "join"}
         /\ seen[n] < next[n] /\ seen'[n] = seen[n] + 1 /\ next' = next
         /\ Finished(Children[n][seen[n] + 1])
         /\ pc'[n] = "join" => stop'[n]
         /\ \A p \in Parents \ {n} :
              pc'[p] = pc[p] /\ seen'[p] = seen[p] /\ stop'[p] = stop[p]
         /\ \A p \in Parents : Finished(p) <=> Finished(p)'
<1>1. pc \in [Parents -> Stage] /\ seen \in [Parents -> Nat]
      /\ stop \in [Parents -> BOOLEAN]
  BY DEF TypeOK, Stage
<1>2. pc[n] = "children" /\ pc'[n] \in {"children", "join"}
      /\ \A p \in Parents \ {n} : pc'[p] = pc[p]
  BY <1>1 DEF TakeResult, ResultReady, Goto
<1>3. pc'[n] = "join" => stop'[n]
  BY <1>1 DEF TakeResult, Goto
<1>4. /\ seen[n] < next[n] /\ seen'[n] = seen[n] + 1 /\ next' = next
      /\ Finished(Children[n][seen[n] + 1])
      /\ \A p \in Parents \ {n} : seen'[p] = seen[p]
  BY <1>1 DEF TakeResult, ResultReady
<1>5. \A p \in Parents \ {n} : stop'[p] = stop[p]
  BY <1>1 DEF TakeResult
<1> QED
  BY <1>2, <1>3, <1>4, <1>5 DEF Finished

LEMMA InOrderTake ==
  ASSUME TypeOK, InOrder, NEW n \in Parents, TakeResult(n)
  PROVE  InOrder'
<1>0. next' = next
  BY TakeEffect
<1> SUFFICES ASSUME NEW p \in Parents
             PROVE  /\ seen'[p] <= next[p] /\ next[p] <= Len(Children[p])
                    /\ \A i \in 1 .. Len(Children[p]) :
                         pc'[Children[p][i]] = "off" <=> i > next[p]
                    /\ \A i \in 1 .. seen'[p] : Finished(Children[p][i])'
  BY <1>0 DEF InOrder
<1>1. seen[p] <= next[p] /\ next[p] <= Len(Children[p])
  BY DEF InOrder
<1>2. seen[p] \in Nat /\ next[p] \in Nat /\ Len(Children[p]) \in Nat
  BY ChildIsNode DEF TypeOK
<1>3. seen'[p] \in Nat /\ seen'[p] <= next[p]
  BY <1>1, <1>2, TakeEffect
<1>4. ASSUME NEW i \in 1 .. Len(Children[p])
      PROVE  pc'[Children[p][i]] = "off" <=> i > next[p]
  <2>1. \A q \in Parents : pc'[q] = "off" <=> pc[q] = "off"
    BY TakeEffect
  <2> QED
    BY <2>1, ChildIsNode DEF InOrder
<1>5. ASSUME NEW i \in 1 .. seen'[p]
      PROVE  Finished(Children[p][i])'
  <2>1. i \in 1 .. Len(Children[p])
    BY <1>1, <1>2, <1>3
  <2>2. Finished(Children[p][i])
    <3>1. CASE i \in 1 .. seen[p]
      BY <3>1 DEF InOrder
    <3>2. CASE p = n /\ i = seen[n] + 1
      BY <3>2, TakeEffect
    <3> QED
      BY <1>2, <3>1, <3>2, TakeEffect
  <2> QED
    BY <2>1, <2>2, ChildIsNode, TakeEffect
<1> QED
  BY <1>1, <1>3, <1>4, <1>5

-----------------------------------------------------------------------------
(* Stages.                                                                 *)

StageOf(p) ==
  /\ pc[p] \in Early => next[p] = 0 /\ seen[p] = 0 /\ ~stop[p]
  /\ pc[p] \notin {"children", "join"} => \A i \in 1 .. next[p] : Finished(Children[p][i])
  /\ pc[p] = "join" => stop[p]
  /\ pc[p] \in Commands => ~stop[p]
  /\ pc[p] \in Commands \cup {"release", "returned"} /\ ~stop[p] =>
       seen[p] = Len(Children[p])

LEMMA StageByStage ==
  Stages <=> pc[Main] \in {"children", "join", "returned"} /\ \A p \in Parents : StageOf(p)
BY DEF Stages, StageOf

LEMMA StageByStageNext ==
  Stages' <=> pc'[Main] \in {"children", "join", "returned"} /\ \A p \in Parents : StageOf(p)'
BY DEF Stages, StageOf, Finished

(* A thread that keeps its own state keeps its stage.                      *)
LEMMA StageKept ==
  ASSUME TypeOK, InOrder, NEW p \in Parents, StageOf(p),
         pc'[p] = pc[p], next'[p] = next[p], seen'[p] = seen[p], stop'[p] = stop[p],
         \A q \in Parents : Finished(q) => Finished(q)'
  PROVE  StageOf(p)'
<1>1. \A i \in 1 .. next[p] : Children[p][i] \in Parents
  <2>1. next[p] \in Nat /\ next[p] <= Len(Children[p])
    BY DEF InOrder, TypeOK
  <2> QED
    BY <2>1, ChildIsNode
<1>2. pc'[p] \notin {"children", "join"} =>
        \A i \in 1 .. next'[p] : Finished(Children[p][i])'
  BY <1>1 DEF StageOf
<1> QED
  BY <1>2 DEF StageOf

LEMMA StagesMove ==
  ASSUME TInv, NEW n \in Parents, NEW x, Move(n, x)
  PROVE  Stages'
<1>0. TypeOK /\ InOrder /\ Stages /\ pc \in [Parents -> Stage]
  BY StageOfPc DEF TInv
<1>1. UNCHANGED <<next, seen, stop>>
  BY DEF Move
<1>2. pc'[Main] \in {"children", "join", "returned"}
  <2>1. CASE n = Main
    BY <1>0, <2>1, MoveEffect DEF Stages, Move, Edge, Joined, Commands
  <2>2. CASE n # Main
    BY <1>0, <2>2, MoveEffect, MainApart DEF Stages
  <2> QED
    BY <2>1, <2>2
<1>3. ASSUME NEW p \in Parents \ {n}
      PROVE  StageOf(p)'
  BY <1>0, <1>1, StageKept, StageByStage, MoveEffect
<1>4. StageOf(n)'
  <2>1. StageOf(n) /\ pc'[n] = x /\ \A q \in Parents : Finished(q) => Finished(q)'
    BY <1>0, StageByStage, MoveEffect
  <2>2. next[n] \in Nat /\ seen[n] \in Nat /\ next[n] <= Len(Children[n])
        /\ seen[n] <= next[n] /\ Len(Children[n]) \in Nat /\ stop[n] \in BOOLEAN
    BY <1>0, ChildIsNode DEF InOrder, TypeOK
  <2>3. \A i \in 1 .. next[n] : Children[n][i] \in Parents
    BY <2>2, ChildIsNode
  <2>4. x \notin {"children", "join"} => \A i \in 1 .. next[n] : Finished(Children[n][i])
    BY <2>1 DEF Move, Edge, Joined, StageOf, Commands
  <2>5. x \notin {"children", "join"} => \A i \in 1 .. next[n] : Finished(Children[n][i])'
    BY <2>1, <2>3, <2>4
  <2>6. x \in Early => pc[n] \in Early
    BY DEF Move, Edge, Early, Commands
  <2>7. x # "join"
    BY DEF Move, Edge, Commands
  <2>8. x \in Commands => ~stop[n]
    BY <2>1 DEF Move, Edge, StageOf, Commands
  <2>9. x \in Commands \cup {"release", "returned"} /\ ~stop[n] => seen[n] = Len(Children[n])
    BY <2>1, <2>2 DEF Move, Edge, Joined, StageOf, Commands
  <2> QED
    BY <1>1, <2>1, <2>5, <2>6, <2>7, <2>8, <2>9 DEF StageOf
<1> QED
  BY <1>2, <1>3, <1>4, StageByStageNext

LEMMA StagesSpawn ==
  ASSUME TInv, NEW n \in Parents, SpawnChild(n)
  PROVE  Stages'
<1> PICK c : c = Children[n][next[n] + 1]
  OBVIOUS
<1>0. TypeOK /\ InOrder /\ Stages /\ (\A p \in Parents : StageOf(p))
  BY StageByStage DEF TInv
<1>1. seen' = seen /\ stop' = stop /\ pc[n] = "children"
  BY DEF SpawnChild
<1>2. c \in Nodes /\ c \in Parents /\ c # n /\ pc[c] = "off" /\ pc'[c] = "check"
  BY <1>0, SpawnEffect
<1>3. pc'[Main] \in {"children", "join", "returned"}
  BY <1>0, <1>2, SpawnEffect, MainApart DEF Stages
<1>4. ASSUME NEW p \in Parents \ {n, c}
      PROVE  StageOf(p)'
  BY <1>0, <1>1, <1>4, StageKept, SpawnEffect
<1>5. StageOf(n)'
  <2>1. pc'[n] = "children"
    BY <1>0, <1>1, <1>2, SpawnEffect
  <2> QED
    BY <2>1 DEF StageOf, Early, Commands
<1>6. StageOf(c)'
  <2>1. next'[c] = 0 /\ seen'[c] = 0 /\ ~stop'[c]
    BY <1>0, <1>1, <1>2, SpawnEffect DEF StageOf, Early
  <2> QED
    BY <1>2, <2>1 DEF StageOf, Commands
<1> QED
  BY <1>3, <1>4, <1>5, <1>6, StageByStageNext

LEMMA StagesTake ==
  ASSUME TInv, NEW n \in Parents, TakeResult(n)
  PROVE  Stages'
<1>0. TypeOK /\ InOrder /\ Stages /\ (\A p \in Parents : StageOf(p))
  BY StageByStage DEF TInv
<1>1. pc'[Main] \in {"children", "join", "returned"}
  BY <1>0, TakeEffect, MainApart DEF Stages
<1>2. ASSUME NEW p \in Parents \ {n}
      PROVE  StageOf(p)'
  BY <1>0, <1>2, StageKept, TakeEffect
<1>3. StageOf(n)'
  BY <1>0, TakeEffect DEF StageOf, Early, Commands
<1> QED
  BY <1>1, <1>2, <1>3, StageByStageNext

-----------------------------------------------------------------------------
(* The steps of Next: along an edge, with a child, or none.                *)
LEMMA StepKinds ==
  ASSUME [Next]_vars
  PROVE  \/ \E n \in Nodes : RunOne(n) /\ ~Family(n) /\ \E x : Move(n, x)
         \/ EndMain /\ options' = options /\ Move(Main, "returned")
         \/ \E n \in Parents : SpawnChild(n) /\ options' = options
         \/ \E n \in Parents : TakeResult(n) /\ options' = options
         \/ UNCHANGED vars
<1>1. ASSUME NEW n \in Nodes, RunOne(n), ~Family(n)
      PROVE  \E x : Move(n, x)
  BY <1>1, NodeMoves
<1>2. ASSUME NEW n \in Nodes, RunOne(n)
      PROVE  options' = options /\ n \in Parents
  BY <1>2 DEF RunOne, Parents
<1>3. EndMain => Move(Main, "returned")
  BY MainMoves
<1> QED
  BY <1>1, <1>2, <1>3, MainApart DEF Next, RunCommands, Over, Family

LEMMA ThreadsInit == Init => TInv
<1> SUFFICES ASSUME Init PROVE InOrder /\ Stages
  BY TypeInit DEF TInv
<1>1. \A p \in Parents : next[p] = 0 /\ seen[p] = 0 /\ stop[p] = FALSE
  BY DEF Init
<1>2. pc[Main] = "children" /\ \A n \in Nodes : pc[n] = "off"
  BY MainApart DEF Init, Parents
<1>3. InOrder
  BY <1>1, <1>2, ChildIsNode DEF InOrder
<1>4. Stages
  BY <1>1, <1>2 DEF Stages, Parents, Commands
<1> QED
  BY <1>3, <1>4

LEMMA ThreadsStep == TInv /\ [Next]_vars => TInv'
<1> SUFFICES ASSUME TInv, [Next]_vars PROVE TInv'
  OBVIOUS
<1>1. TypeOK'
  BY TypeStep DEF TInv
<1>2. CASE \E n \in Parents : \E x : Move(n, x)
  BY <1>1, <1>2, InOrderMove, StagesMove DEF TInv
<1>3. CASE \E n \in Parents : SpawnChild(n)
  BY <1>1, <1>3, InOrderSpawn, StagesSpawn DEF TInv
<1>4. CASE \E n \in Parents : TakeResult(n)
  BY <1>1, <1>4, InOrderTake, StagesTake DEF TInv
<1>5. CASE UNCHANGED vars
  BY <1>1, <1>5 DEF TInv, InOrder, Stages, Finished, vars, local
<1> QED
  BY <1>2, <1>3, <1>4, <1>5, StepKinds, MainApart DEF Parents

LEMMA ThreadsHold == Spec => []TInv
BY ThreadsInit, ThreadsStep, PTL DEF Spec

(* The state keeps its types: a result is taken only from a child that is  *)
(* in the list, and the count of onHold never falls below zero.            *)
THEOREM Typed == Spec => []TypeOK
BY ThreadsHold, PTL DEF TInv

-----------------------------------------------------------------------------
(* PrerequisitesBuilt, on Windows.                                         *)

LEMMA BuildersStay ==
  ASSUME TInv, [Next]_vars, NEW g \in Goals, NEW m \in Builders(g), pc[m] = "returned"
  PROVE  m \in Builders(g)' /\ pc'[m] = "returned"
<1>1. m \in Parents /\ m \in Nodes /\ GoalOf[m] = g
  BY DEF Builders, Parents
<1>2. TypeOK /\ InOrder /\ pc \in [Parents -> Stage]
  BY StageOfPc DEF TInv
<1>3. ASSUME NEW n \in Parents, NEW x, Move(n, x)
      PROVE  pc'[m] = "returned"
  BY <1>1, <1>2, <1>3, MoveEffect DEF Active
<1>4. ASSUME NEW n \in Parents, SpawnChild(n)
      PROVE  pc'[m] = "returned"
  BY <1>1, <1>2, <1>4, SpawnEffect
<1>5. ASSUME NEW n \in Parents, TakeResult(n)
      PROVE  pc'[m] = "returned"
  BY <1>1, <1>2, <1>5, TakeEffect
<1>6. pc'[m] = "returned"
  BY <1>3, <1>4, <1>5, StepKinds, MainApart DEF vars, Parents
<1> QED
  BY <1>1, <1>6 DEF Builders

LEMMA HoldStep ==
  ASSUME TInv, HoldReleased, [Next]_vars, Windows
  PROVE  HoldReleased'
<1>1. SUFFICES ASSUME NEW g \in Goals,
                      onHold'[g] > 0 \/ (\E n \in Nodes : GoalOf[n] = g /\ pc'[n] = "waited")
               PROVE  \E m \in Builders(g)' : pc'[m] = "returned"
  BY DEF HoldReleased
<1>2. CASE onHold[g] > 0 \/ (\E n \in Nodes : GoalOf[n] = g /\ pc[n] = "waited")
  BY <1>2, BuildersStay DEF HoldReleased
<1>3. CASE ~(onHold[g] > 0 \/ (\E n \in Nodes : GoalOf[n] = g /\ pc[n] = "waited"))
  <2>0. TypeOK /\ InOrder /\ pc \in [Parents -> Stage]
    BY StageOfPc DEF TInv
  <2>1. CASE UNCHANGED vars
    BY <1>1, <1>3, <2>1 DEF vars, shared
  <2>2. ASSUME NEW n \in Parents, SpawnChild(n)
        PROVE  FALSE
    <3>1. \A m \in Parents : pc'[m] = "waited" => pc[m] = "waited"
      BY <2>0, <2>2, SpawnEffect
    <3> QED
      BY <1>1, <1>3, <2>2, <3>1 DEF SpawnChild, shared, Parents
  <2>3. ASSUME NEW n \in Parents, TakeResult(n)
        PROVE  FALSE
    <3>1. \A m \in Parents : pc'[m] = "waited" => pc[m] = "waited"
      BY <2>0, <2>3, TakeEffect
    <3> QED
      BY <1>1, <1>3, <2>3, <3>1 DEF TakeResult, Parents
  <2>4. CASE EndMain
    <3>1. \A m \in Nodes : pc'[m] = pc[m]
      BY <2>0, <2>4, MoveEffect, MainMoves, MainApart DEF Parents
    <3> QED
      BY <1>1, <1>3, <2>4, <3>1 DEF EndMain, shared
  <2>5. ASSUME NEW n \in Nodes, RunOne(n), ~Family(n), NEW x, Move(n, x)
        PROVE  \E m \in Builders(g)' : pc'[m] = "returned"
    <3>0. n \in Parents /\ GoalOf[n] \in Goals /\ onHold \in [Goals -> Nat]
      BY <2>0, TreeAssumption DEF Parents, TypeOK
    <3>1. \A m \in Nodes \ {n} : pc'[m] = pc[m]
      BY <2>0, <2>5, <3>0, MoveEffect DEF Parents
    <3>2. CASE Release(n)
      <4>1. pc'[n] = "returned"
        BY <2>0, <3>0, <3>2 DEF Release, Goto
      <4>2. GoalOf[n] = g
        BY <1>1, <1>3, <3>0, <3>1, <3>2, <4>1 DEF Release
      <4> QED
        BY <4>1, <4>2 DEF Builders
    <3>3. CASE Wait(n)
      <4>1. onHold[GoalOf[n]] > 0 /\ pc'[n] = "waited"
        BY <2>0, <3>0, <3>3 DEF Wait, Goto
      <4>2. GoalOf[n] # g
        BY <1>3, <4>1
      <4> QED
        BY <1>1, <1>3, <3>0, <3>1, <3>3, <4>2 DEF Wait
    <3>4. CASE ~Release(n) /\ ~Wait(n)
      <4>1. onHold' = onHold
        BY <2>5, <3>4 DEF RunOne, Check, SetBuilt, Stopped, NoCommands, StartCommands,
           Expand, TakeJob, Launch, CommandEnds, LineDone, Clear, shared
      <4>2. pc'[n] # "waited"
        <5>1. pc'[n] = x
          BY <2>0, <2>5, <3>0, MoveEffect
        <5>2. pc[n] = "wait" => FALSE
          BY <2>5, <3>4 DEF RunOne, Check, SetBuilt, Stopped, NoCommands, StartCommands,
             Expand, TakeJob, Launch, CommandEnds, LineDone, Clear, Joined
        <5> QED
          BY <2>5, <5>1, <5>2 DEF Move, Edge, Commands
      <4> QED
        BY <1>1, <1>3, <3>1, <4>1, <4>2
    <3> QED
      BY <3>2, <3>3, <3>4
  <2> QED
    BY <2>1, <2>2, <2>3, <2>4, <2>5, StepKinds
<1> QED
  BY <1>2, <1>3

LEMMA BuiltBefore ==
  ASSUME TInv, Awaited
  PROVE  PrerequisitesBuilt
<1> SUFFICES ASSUME NEW n \in Nodes, pc[n] \in Commands, NEW g \in ChildGoals(n)
             PROVE  \E m \in Builders(g) : pc[m] = "returned"
  BY DEF PrerequisitesBuilt
<1>1. n \in Parents
  BY DEF Parents
<1>2. PICK i \in 1 .. Len(Children[n]) : g = GoalOf[Children[n][i]]
  BY DEF ChildGoals
<1>3. Children[n][i] \in Nodes /\ g \in Goals
  BY <1>1, <1>2, ChildIsNode, TreeAssumption
<1>4. seen[n] = Len(Children[n])
  BY <1>1 DEF TInv, Stages
<1>5. Finished(Children[n][i])
  BY <1>1, <1>2, <1>4 DEF TInv, InOrder
<1>6. CASE pc[Children[n][i]] = "returned"
  BY <1>2, <1>3, <1>6 DEF Builders
<1>7. CASE pc[Children[n][i]] = "waited"
  BY <1>2, <1>3, <1>7 DEF Awaited
<1> QED
  BY <1>5, <1>6, <1>7 DEF Finished

LEMMA WindowsAwaits ==
  ASSUME HoldReleased, Windows
  PROVE  Awaited
BY TreeAssumption DEF HoldReleased, Awaited

(* On Windows, where onHold starts without units, no target's commands run *)
(* before each of its prerequisites has been built, by whichever thread.   *)
THEOREM Prerequisites ==
  ASSUME Windows
  PROVE  Spec => []PrerequisitesBuilt
<1>1. Init => HoldReleased
  BY DEF Init, HoldReleased, Parents
<1>2. TInv /\ HoldReleased /\ [Next]_vars => HoldReleased'
  BY HoldStep
<1>3. TInv /\ HoldReleased => PrerequisitesBuilt
  BY BuiltBefore, WindowsAwaits
<1> QED
  BY <1>1, <1>2, <1>3, ThreadsHold, PTL DEF Spec

-----------------------------------------------------------------------------
(* BuiltOnce and OwnRuleStack, with -j 1.                                  *)

(* A thread that moves, and one that is not with its children, has no      *)
(* active child.                                                           *)
LEMMA ChildrenRest ==
  ASSUME TInv, NEW n \in Parents, Active(n),
         \A i \in 1 .. next[n] : Finished(Children[n][i])
  PROVE  Tip(n)
<1>1. next[n] \in Nat /\ next[n] <= Len(Children[n]) /\ Len(Children[n]) \in Nat
  BY ChildIsNode DEF TInv, TypeOK, InOrder
<1>2. ASSUME NEW i \in 1 .. Len(Children[n])
      PROVE  ~Active(Children[n][i])
  <2>1. CASE i \in 1 .. next[n]
    BY <2>1 DEF Active, Finished
  <2>2. CASE i > next[n]
    BY <2>2 DEF TInv, InOrder, Active
  <2> QED
    BY <1>1, <2>1, <2>2
<1> QED
  BY <1>2 DEF Tip

LEMMA BusyIsTip ==
  ASSUME TInv, NEW n \in Parents, Active(n), pc[n] \notin {"children", "join"}
  PROVE  Tip(n)
BY ChildrenRest DEF TInv, Stages

LEMMA MoverIsTip ==
  ASSUME TInv, NEW n \in Parents, NEW x, Move(n, x)
  PROVE  Tip(n)
<1>1. Active(n)
  BY MoveEffect, StageOfPc DEF TInv
<1>2. CASE Joined(n)
  BY <1>1, <1>2, ChildrenRest DEF Joined
<1>3. CASE ~Joined(n)
  <2>1. pc[n] \notin {"children", "join"}
    BY <1>3 DEF Move, Edge, Commands
  <2> QED
    BY <1>1, <2>1, BusyIsTip
<1> QED
  BY <1>2, <1>3

LEMMA SpawnerIsTip ==
  ASSUME TInv, OneJob, NEW n \in Parents, SpawnChild(n)
  PROVE  Tip(n)
<1>1. seen[n] = next[n] /\ Active(n)
  BY DEF SpawnChild, Active
<1> QED
  BY <1>1, ChildrenRest DEF TInv, InOrder

(* Nobody else becomes active: the tips are the old ones, or the one       *)
(* parent of the thread that came to its end.                              *)
LEMMA OneByOneMove ==
  ASSUME TInv, OneByOne, OneJob, NEW n \in Parents, NEW x, Move(n, x),
         NEW p \in Parents, NEW q \in Parents, Tip(p)', Tip(q)'
  PROVE  p = q
<1>1. /\ Tip(n) /\ Active(n) /\ pc'[n] = x
      /\ \A r \in Parents \ {n} : pc'[r] = pc[r]
  BY MoverIsTip, MoveEffect, StageOfPc DEF TInv
<1>2. CASE x \in {"returned", "waited"}
  <2>1. ASSUME NEW r \in Parents, Tip(r)'
        PROVE  r # n /\ \E i \in 1 .. Len(Children[r]) : Children[r][i] = n
    <3>1. Active(r)' /\ r # n
      BY <1>1, <1>2, <2>1 DEF Tip, Active
    <3>2. Active(r)
      BY <1>1, <3>1 DEF Active
    <3>3. ~Tip(r)
      BY <1>1, <3>1 DEF OneByOne
    <3>4. PICK i \in 1 .. Len(Children[r]) : Active(Children[r][i])
      BY <3>2, <3>3 DEF Tip
    <3>5. ~Active(Children[r][i])'
      BY <2>1 DEF Tip
    <3>6. Children[r][i] = n
      BY <1>1, <3>4, <3>5, ChildIsNode DEF Active
    <3> QED
      BY <3>1, <3>6
  <2> QED
    BY <2>1, OneParent
<1>3. CASE x \notin {"returned", "waited"}
  <2>1. \A r \in Parents : Active(r)' <=> Active(r)
    BY <1>1, <1>3, MoveEffect, StageOfPc DEF Active, TInv
  <2>2. \A r \in Parents : Tip(r)' => Tip(r)
    BY <2>1, ChildIsNode DEF Tip
  <2> QED
    BY <2>2 DEF OneByOne
<1> QED
  BY <1>2, <1>3

LEMMA OneByOneSpawn ==
  ASSUME TInv, OneByOne, OneJob, NEW n \in Parents, SpawnChild(n),
         NEW p \in Parents, Tip(p)'
  PROVE  p = Children[n][next[n] + 1]
<1> PICK c : c = Children[n][next[n] + 1]
  OBVIOUS
<1>1. /\ c \in Parents /\ c # n /\ pc'[c] = "check"
      /\ next[n] + 1 \in 1 .. Len(Children[n])
      /\ \A r \in Parents \ {c} : pc'[r] = pc[r]
  BY SpawnEffect DEF TInv
<1>2. p # n
  BY <1>1 DEF Tip, Active
<1>3. CASE p # c
  <2>1. Active(p)
    BY <1>1, <1>3 DEF Tip, Active
  <2>2. \A i \in 1 .. Len(Children[p]) : ~Active(Children[p][i])
    <3> SUFFICES ASSUME NEW i \in 1 .. Len(Children[p]) PROVE ~Active(Children[p][i])
      OBVIOUS
    <3>1. Children[p][i] # c
      BY <1>1, <1>2, OneParent
    <3> QED
      BY <1>1, <3>1, ChildIsNode DEF Tip, Active
  <2>3. Tip(p) /\ Tip(n)
    BY <2>1, <2>2, SpawnerIsTip DEF Tip
  <2> QED
    BY <1>2, <2>3 DEF OneByOne
<1> QED
  BY <1>3

LEMMA OneByOneStep ==
  ASSUME TInv, OneByOne, [Next]_vars
  PROVE  OneByOne'
<1>1. OneJob' = OneJob
  BY DEF Next, RunOne, RunCommands, Over, vars, OneJob
<1> SUFFICES ASSUME OneJob, NEW p \in Parents, NEW q \in Parents, Tip(p)', Tip(q)'
             PROVE  p = q
  BY <1>1 DEF OneByOne
<1>2. CASE \E n \in Parents : \E x : Move(n, x)
  BY <1>2, OneByOneMove
<1>3. CASE \E n \in Parents : SpawnChild(n)
  BY <1>3, OneByOneSpawn
<1>4. CASE \E n \in Parents : TakeResult(n)
  <2>1. \A r \in Parents : Active(r)' <=> Active(r)
    BY <1>4, TakeEffect DEF Active, TInv
  <2> QED
    BY <2>1, ChildIsNode DEF Tip, OneByOne
<1>5. CASE UNCHANGED vars
  BY <1>5 DEF OneByOne, Tip, Active, vars
<1> QED
  BY <1>2, <1>3, <1>4, <1>5, StepKinds, MainApart DEF Parents

(* The builders of a goal are joined by SetBuilt alone, isBuilt is set by  *)
(* SetBuilt alone, and ruleStack by StartCommands and Clear.               *)
LEMMA OtherSteps ==
  ASSUME TInv, [Next]_vars
  PROVE  \/ \E n \in Nodes : Check(n) \/ SetBuilt(n) \/ StartCommands(n) \/ Clear(n)
         \/ /\ UNCHANGED <<isBuilt, ruleStack>>
            /\ \A m \in Nodes :
                 /\ pc'[m] = "set" => pc[m] = "set"
                 /\ pc'[m] \in Early <=> pc[m] \in Early
                 /\ pc'[m] \in Commands => pc[m] \in Commands
<1>0. TypeOK /\ InOrder /\ pc \in [Parents -> Stage]
  BY StageOfPc DEF TInv
<1>1. ASSUME NEW n \in Nodes, RunOne(n), ~Family(n), NEW x, Move(n, x),
             ~(Check(n) \/ SetBuilt(n) \/ StartCommands(n) \/ Clear(n))
      PROVE  /\ UNCHANGED <<isBuilt, ruleStack>>
             /\ \A m \in Nodes :
                 /\ pc'[m] = "set" => pc[m] = "set"
                 /\ pc'[m] \in Early <=> pc[m] \in Early
                 /\ pc'[m] \in Commands => pc[m] \in Commands
  <2>1. UNCHANGED <<isBuilt, ruleStack>>
    BY <1>1 DEF RunOne, Wait, Stopped, NoCommands, Expand, TakeJob, Launch,
       CommandEnds, LineDone, Release, shared
  <2>2. n \in Parents /\ pc'[n] = x /\ \A m \in Nodes \ {n} : pc'[m] = pc[m]
    BY <1>0, <1>1, MoveEffect DEF Parents
  <2>3. pc[n] \notin {"check", "set"} /\ (x = "expand" => pc[n] \in Commands)
    <3>1. \A y : Goto(n, y) => x = y
      BY <1>0, <2>2 DEF Goto
    <3>2. CASE Wait(n) \/ Stopped(n) \/ NoCommands(n) \/ Release(n)
      BY <3>1, <3>2 DEF Wait, Stopped, NoCommands, Release, Joined
    <3>3. CASE Expand(n) \/ TakeJob(n) \/ Launch(n) \/ CommandEnds(n) \/ LineDone(n)
      BY <3>3 DEF Expand, TakeJob, Launch, CommandEnds, LineDone, Commands
    <3> QED
      BY <1>1, <3>2, <3>3 DEF RunOne
  <2>4. x # "set" /\ (x \in Early <=> pc[n] \in Early) /\ (x \in Commands => pc[n] \in Commands)
    BY <1>1, <2>3 DEF Move, Edge, Joined, Commands, Early
  <2> QED
    BY <2>1, <2>2, <2>4
<1>2. ASSUME NEW n \in Parents, SpawnChild(n)
      PROVE  /\ UNCHANGED <<isBuilt, ruleStack>>
             /\ \A m \in Nodes :
                 /\ pc'[m] = "set" => pc[m] = "set"
                 /\ pc'[m] \in Early <=> pc[m] \in Early
                 /\ pc'[m] \in Commands => pc[m] \in Commands
  <2>1. PICK c : c = Children[n][next[n] + 1]
    OBVIOUS
  <2>2. pc[c] = "off" /\ pc'[c] = "check" /\ \A m \in Nodes \ {c} : pc'[m] = pc[m]
    BY <1>0, <1>2, <2>1, SpawnEffect DEF Parents
  <2>3. UNCHANGED <<isBuilt, ruleStack>>
    BY <1>2 DEF SpawnChild, shared
  <2> QED
    BY <2>2, <2>3 DEF Early, Commands
<1>3. ASSUME NEW n \in Parents, TakeResult(n)
      PROVE  /\ UNCHANGED <<isBuilt, ruleStack>>
             /\ \A m \in Nodes :
                 /\ pc'[m] = "set" => pc[m] = "set"
                 /\ pc'[m] \in Early <=> pc[m] \in Early
                 /\ pc'[m] \in Commands => pc[m] \in Commands
  <2>1. pc[n] = "children" /\ pc'[n] \in {"children", "join"}
        /\ \A m \in Nodes \ {n} : pc'[m] = pc[m]
    BY <1>0, <1>3, TakeEffect DEF Parents
  <2>2. UNCHANGED <<isBuilt, ruleStack>>
    BY <1>3 DEF TakeResult
  <2> QED
    BY <2>1, <2>2 DEF Early, Commands
<1>4. CASE EndMain
  <2>1. \A m \in Nodes : pc'[m] = pc[m]
    BY <1>0, <1>4, MainMoves, MoveEffect, MainApart DEF Parents
  <2> QED
    BY <1>4, <2>1 DEF EndMain, shared
<1>5. CASE UNCHANGED vars
  BY <1>5 DEF vars, shared
<1> QED
  BY <1>1, <1>2, <1>3, <1>4, <1>5, StepKinds

LEMMA BuilderStages ==
  \A g : Builders(g) = {n \in Nodes : GoalOf[n] = g /\ pc[n] \notin Early}
BY DEF Builders, Early

LEMMA BuilderStagesNext ==
  \A g : Builders(g)' = {n \in Nodes : GoalOf[n] = g /\ pc'[n] \notin Early}
BY DEF Builders, Early

LEMMA OneStep ==
  ASSUME OneInv, [Next]_vars
  PROVE  Marked' /\ NotYet' /\ BuildsAlone' /\ StackSet'
<1>0. TInv /\ OneByOne /\ Marked /\ NotYet /\ BuildsAlone /\ StackSet
  BY DEF OneInv
<1>1. OneJob' = OneJob
  BY DEF Next, RunOne, RunCommands, Over, vars, OneJob
<1>2. ASSUME NEW n \in Nodes, NEW x, Move(n, x)
      PROVE  /\ n \in Parents /\ pc'[n] = x /\ Tip(n)
             /\ \A m \in Nodes \ {n} : pc'[m] = pc[m]
  BY <1>0, <1>2, MoveEffect, MoverIsTip, StageOfPc DEF TInv, Parents
<1>3. ASSUME OneJob, NEW n \in Nodes, Tip(n), NEW m \in Nodes \ {n}
      PROVE  pc[m] # "set" /\ pc[m] \notin Commands
  <2>1. m \in Parents /\ n \in Parents
    BY DEF Parents
  <2>2. ~Tip(m)
    BY <1>0, <1>3, <2>1 DEF OneByOne
  <2> QED
    BY <1>0, <2>1, <2>2, BusyIsTip DEF Active, Commands
<1>4. isBuilt \in [Goals -> BOOLEAN] /\ GoalOf \in [Nodes -> Goals]
  BY <1>0, TreeAssumption DEF TInv, TypeOK
<1>5. ASSUME NEW n \in Nodes, Check(n)
      PROVE  Marked' /\ NotYet' /\ BuildsAlone' /\ StackSet'
  <2>1. PICK x \in {"wait", "set"} :
          /\ Goto(n, x) /\ pc[n] = "check" /\ UNCHANGED <<isBuilt, ruleStack>>
          /\ x = "set" => ~isBuilt[GoalOf[n]]
    BY <1>5 DEF Check, shared
  <2>2. Move(n, x)
    BY <1>5, <2>1 DEF Move, Edge, Check, local
  <2>3. \A g : Builders(g)' = Builders(g)
    BY <1>2, <2>1, <2>2, BuilderStages, BuilderStagesNext DEF Early
  <2>4. Marked' /\ BuildsAlone'
    BY <1>0, <1>1, <2>1, <2>3 DEF Marked, BuildsAlone
  <2>5. NotYet' /\ StackSet'
    BY <1>0, <1>1, <1>2, <2>1, <2>2 DEF NotYet, StackSet, Commands
  <2> QED
    BY <2>4, <2>5
<1>6. ASSUME NEW n \in Nodes, SetBuilt(n)
      PROVE  Marked' /\ NotYet' /\ BuildsAlone' /\ StackSet'
  <2>1. /\ pc[n] = "set" /\ Goto(n, "children") /\ ruleStack' = ruleStack
        /\ isBuilt' = [isBuilt EXCEPT ![GoalOf[n]] = TRUE]
    BY <1>6 DEF SetBuilt
  <2>2. Move(n, "children")
    BY <1>6 DEF Move, Edge, SetBuilt, local
  <2>3. pc'[n] = "children" /\ Tip(n) /\ \A m \in Nodes \ {n} : pc'[m] = pc[m]
    BY <1>2, <2>2
  <2>4. \A g : Builders(g)' = IF g = GoalOf[n] THEN Builders(g) \cup {n} ELSE Builders(g)
    BY <2>3, BuilderStages, BuilderStagesNext DEF Early
  <2>5. Marked'
    BY <1>0, <1>4, <2>1, <2>4 DEF Marked, Builders
  <2>6. OneJob => Builders(GoalOf[n]) = {}
    BY <1>0, <2>1 DEF NotYet, Marked, Builders
  <2>7. BuildsAlone'
    BY <1>0, <1>1, <2>4, <2>6 DEF BuildsAlone
  <2>8. NotYet'
    BY <1>1, <1>3, <2>3 DEF NotYet
  <2>9. StackSet'
    BY <1>0, <1>1, <2>1, <2>3 DEF StackSet, Commands
  <2> QED
    BY <2>5, <2>7, <2>8, <2>9
<1>7. ASSUME NEW n \in Nodes, StartCommands(n) \/ Clear(n)
      PROVE  Marked' /\ NotYet' /\ BuildsAlone' /\ StackSet'
  <2>1. PICK x \in {"expand", "release"} :
          /\ Move(n, x) /\ isBuilt' = isBuilt
          /\ x = "expand" => ruleStack' = n
          /\ pc[n] \notin Early
    <3>1. CASE StartCommands(n)
      <4>1. Move(n, "expand")
        BY <3>1 DEF Move, Edge, StartCommands
      <4> QED
        BY <3>1, <4>1 DEF StartCommands, Joined, Early
    <3>2. CASE Clear(n)
      <4>1. Move(n, "release") /\ pc[n] \in {"clear", "expand"}
        BY <3>2 DEF Move, Edge, Clear, Commands
      <4> QED
        BY <3>2, <4>1 DEF Clear, Early
    <3> QED
      BY <1>7, <3>1, <3>2
  <2>2. pc'[n] = x /\ Tip(n) /\ \A m \in Nodes \ {n} : pc'[m] = pc[m]
    BY <1>2, <2>1
  <2>3. \A g : Builders(g)' = Builders(g)
    BY <2>1, <2>2, BuilderStages, BuilderStagesNext DEF Early
  <2>4. Marked' /\ BuildsAlone'
    BY <1>0, <1>1, <2>1, <2>3 DEF Marked, BuildsAlone
  <2>5. NotYet'
    BY <1>0, <1>1, <2>1, <2>2 DEF NotYet
  <2>6. StackSet'
    BY <1>1, <1>3, <2>1, <2>2 DEF StackSet, Commands
  <2> QED
    BY <2>4, <2>5, <2>6
<1>8. CASE /\ UNCHANGED <<isBuilt, ruleStack>>
           /\ \A m \in Nodes :
                /\ pc'[m] = "set" => pc[m] = "set"
                /\ pc'[m] \in Early <=> pc[m] \in Early
                /\ pc'[m] \in Commands => pc[m] \in Commands
  <2>1. \A g : Builders(g)' = Builders(g)
    BY <1>8, BuilderStages, BuilderStagesNext
  <2> QED
    BY <1>0, <1>1, <1>8, <2>1 DEF Marked, NotYet, BuildsAlone, StackSet
<1> QED
  BY <1>0, <1>5, <1>6, <1>7, <1>8, OtherSteps

LEMMA OneAtATime == Spec => []OneInv
<1>1. Init => OneInv
  <2> SUFFICES ASSUME Init PROVE OneInv
    OBVIOUS
  <2>1. TInv
    BY ThreadsInit
  <2>2. \A n \in Nodes : pc[n] = "off"
    BY MainApart DEF Init, Parents
  <2>3. OneByOne
    BY <2>2 DEF OneByOne, Tip, Active, Parents
  <2> QED
    BY <2>1, <2>2, <2>3
       DEF OneInv, Marked, NotYet, BuildsAlone, StackSet, Builders, Commands
<1>2. OneInv /\ [Next]_vars => OneInv'
  BY ThreadsStep, OneByOneStep, OneStep DEF OneInv
<1> QED
  BY <1>1, <1>2, PTL DEF Spec

(* With -j 1 the commands of a goal are run by one thread at most, however *)
(* many targets need it.                                                   *)
THEOREM Once == Spec => []BuiltOnce
<1>1. OneInv => BuiltOnce
  <2> SUFFICES ASSUME OneInv, OneJob, NEW g \in Goals
               PROVE  Cardinality(Builders(g)) <= 1
    BY DEF BuiltOnce
  <2>1. CASE Builders(g) = {}
    BY <2>1, FS_EmptySet
  <2>2. CASE Builders(g) # {}
    <3>1. PICK m : Builders(g) = {m}
      BY <2>2 DEF OneInv, BuildsAlone
    <3> QED
      BY <3>1, FS_Singleton
  <2> QED
    BY <2>1, <2>2
<1> QED
  BY <1>1, OneAtATime, PTL

(* With -j 1 a line is expanded with the rule stack of its own goal.       *)
THEOREM OwnStack == Spec => []OwnRuleStack
<1>1. OneInv => OwnRuleStack
  BY DEF OneInv, StackSet, OwnRuleStack, Commands
<1> QED
  BY <1>1, OneAtATime, PTL

-----------------------------------------------------------------------------
(* FailureStops and FailureReported.                                       *)

(* What a thread does to its rv as it moves.                               *)
LEMMA NodeResult ==
  ASSUME TInv, Failures, NEW n \in Nodes, RunOne(n), ~Family(n)
  PROVE  /\ \A p \in Parents \ {n} : rv'[p] = rv[p]
         /\ pc'[n] \in {"release", "returned"} /\ stop[n] => rv'[n] > 0
<1>1. /\ pc \in [Parents -> Stage] /\ rv \in [Parents -> Int]
      /\ stop \in [Parents -> BOOLEAN] /\ n \in Parents
      /\ pc[n] \in {"release", "returned"} /\ stop[n] => rv[n] > 0
      /\ pc[n] \in Commands => ~stop[n]
  BY StageOfPc DEF TInv, TypeOK, Failures, Parents, Stages
<1>2. \A y : Goto(n, y) => pc'[n] = y
  BY <1>1 DEF Goto
<1>3. CASE Check(n) \/ Wait(n) \/ SetBuilt(n)
  <2>1. rv' = rv /\ pc'[n] \in {"wait", "set", "waited", "children"}
    BY <1>2, <1>3 DEF Check, Wait, SetBuilt, local
  <2> QED
    BY <1>1, <2>1
<1>4. CASE Stopped(n)
  <2>1. rv' = [rv EXCEPT ![n] = 1]
    BY <1>4 DEF Stopped
  <2> QED
    BY <1>1, <2>1
<1>5. CASE NoCommands(n) \/ StartCommands(n)
  <2>1. rv' = [rv EXCEPT ![n] = 0] /\ ~stop[n]
    BY <1>5 DEF NoCommands, StartCommands
  <2> QED
    BY <1>1, <2>1
<1>6. CASE Expand(n) \/ TakeJob(n) \/ Launch(n) \/ CommandEnds(n) \/ Clear(n)
  <2>1. rv' = rv /\ pc[n] \in Commands
    BY <1>6 DEF Expand, TakeJob, Launch, CommandEnds, Clear, Commands, local
  <2> QED
    BY <1>1, <2>1
<1>7. CASE LineDone(n)
  <2>1. pc[n] \in Commands
    BY <1>7 DEF LineDone, Commands
  <2>2. PICK r : rv' = [rv EXCEPT ![n] = r]
    BY <1>1, <1>7 DEF LineDone
  <2> QED
    BY <1>1, <2>1, <2>2
<1>8. CASE Release(n)
  <2>1. rv' = rv /\ pc[n] = "release"
    BY <1>8 DEF Release, local
  <2> QED
    BY <1>1, <2>1
<1> QED
  BY <1>3, <1>4, <1>5, <1>6, <1>7, <1>8 DEF RunOne

LEMMA MainResult ==
  ASSUME TInv, EndMain
  PROVE  /\ \A p \in Parents \ {Main} : rv'[p] = rv[p]
         /\ stop[Main] => rv'[Main] > 0
BY MainApart DEF TInv, TypeOK, EndMain

(* A positive result makes rv positive, and a positive rv stops.           *)
LEMMA TakenResult ==
  ASSUME OptionsStop, TInv, NEW n \in Parents, TakeResult(n)
  PROVE  /\ \A p \in Parents \ {n} : rv'[p] = rv[p]
         /\ stop[n] => stop'[n]
         /\ rv[Children[n][seen[n] + 1]] > 0 => stop'[n]
<1> PICK result : result = rv[Children[n][seen[n] + 1]]
  OBVIOUS
<1> PICK new : new = IF rv[n] <= 0 /\ result # 0 THEN result ELSE rv[n]
  OBVIOUS
<1>1. Children[n][seen[n] + 1] \in Parents
  <2>1. seen[n] < next[n] /\ next[n] <= Len(Children[n]) /\ seen[n] \in Nat
        /\ next[n] \in Nat
    BY TakeEffect DEF TInv, TypeOK, InOrder
  <2> QED
    BY <2>1, ChildIsNode
<1>2. rv[n] \in Int /\ result \in Int
  BY <1>1 DEF TInv, TypeOK
<1>3. new \in Int /\ (result > 0 => new > 0)
  BY <1>2
<1>4. /\ rv' = [rv EXCEPT ![n] = new]
      /\ stop' = [stop EXCEPT ![n] = @ \/ (new > 0 /\ (~KeepGoing \/ ~OneJob \/ n = Main))]
  BY DEF TakeResult
<1>5. ~KeepGoing \/ ~OneJob
  BY DEF TInv, TypeOK, OptionsStop, KeepGoing, OneJob
<1>6. rv \in [Parents -> Int] /\ stop \in [Parents -> BOOLEAN]
  BY DEF TInv, TypeOK
<1>7. (stop[n] => stop'[n]) /\ (new > 0 => stop'[n])
  BY <1>4, <1>5, <1>6
<1>8. \A p \in Parents \ {n} : rv'[p] = rv[p]
  BY <1>4, <1>6
<1> QED
  BY <1>3, <1>7, <1>8

(* The children whose results are taken have finished: what moves or takes *)
(* a result is none of them.                                               *)
LEMMA TakenChildren ==
  ASSUME TInv, NEW n \in Parents, Active(n), NEW p \in Parents, NEW i \in 1 .. seen[p]
  PROVE  Children[p][i] \in Parents /\ Children[p][i] # n
<1>1. i \in 1 .. Len(Children[p])
  BY ChildIsNode DEF TInv, TypeOK, InOrder
<1> QED
  BY <1>1, ChildIsNode DEF TInv, InOrder, Active, Finished

LEMMA FailuresStep ==
  ASSUME OptionsStop, TInv, Failures, [Next]_vars
  PROVE  Failures'
<1>0. TypeOK /\ InOrder /\ Stages /\ pc \in [Parents -> Stage]
  BY StageOfPc DEF TInv
<1>1. ASSUME NEW n \in Parents, NEW x, Move(n, x),
             \A p \in Parents \ {n} : rv'[p] = rv[p],
             x \in {"release", "returned"} /\ stop[n] => rv'[n] > 0
      PROVE  Failures'
  <2>1. /\ Active(n) /\ pc'[n] = x /\ (\A p \in Parents \ {n} : pc'[p] = pc[p])
        /\ UNCHANGED <<seen, stop>>
    BY <1>0, <1>1, MoveEffect DEF Move
  <2>2. \A p \in Parents : \A i \in 1 .. seen'[p] : rv'[Children[p][i]] > 0 => stop'[p]
    BY <1>1, <2>1, TakenChildren DEF Failures
  <2>3. \A p \in Parents : pc'[p] \in {"release", "returned"} /\ stop'[p] => rv'[p] > 0
    BY <1>1, <2>1 DEF Failures
  <2> QED
    BY <1>1, <2>2, <2>3 DEF Failures
<1>2. ASSUME NEW n \in Nodes, RunOne(n), ~Family(n), NEW x, Move(n, x)
      PROVE  Failures'
  <2>1. n \in Parents /\ pc'[n] = x
    BY <1>0, <1>2, MoveEffect DEF Parents
  <2> QED
    BY <1>1, <1>2, <2>1, NodeResult
<1>3. CASE EndMain /\ Move(Main, "returned")
  BY <1>1, <1>3, MainResult, MainApart
<1>4. ASSUME NEW n \in Parents, SpawnChild(n)
      PROVE  Failures'
  <2>1. UNCHANGED <<seen, rv, stop>>
    BY <1>4 DEF SpawnChild
  <2>2. \A p \in Parents : pc'[p] \in {"release", "returned"} => pc'[p] = pc[p]
    BY <1>0, <1>4, SpawnEffect
  <2> QED
    BY <2>1, <2>2 DEF Failures
<1>5. ASSUME NEW n \in Parents, TakeResult(n)
      PROVE  Failures'
  <2>1. Active(n) /\ pc'[n] \in {"children", "join"} /\ seen'[n] = seen[n] + 1
    BY <1>0, <1>5, TakeEffect DEF Active
  <2>2. \A p \in Parents \ {n} : pc'[p] = pc[p] /\ seen'[p] = seen[p] /\ stop'[p] = stop[p]
    BY <1>0, <1>5, TakeEffect
  <2>3. \A p \in Parents : pc'[p] \in {"release", "returned"} /\ stop'[p] => rv'[p] > 0
    BY <1>5, <2>1, <2>2, TakenResult DEF Failures
  <2>4. \A p \in Parents \ {n} : \A i \in 1 .. seen[p] : rv'[Children[p][i]] > 0 => stop'[p]
    BY <1>5, <2>1, <2>2, TakenResult, TakenChildren DEF Failures
  <2>5. \A i \in 1 .. seen[n] : rv'[Children[n][i]] > 0 => stop'[n]
    BY <1>5, <2>1, TakenResult, TakenChildren DEF Failures
  <2>6. rv'[Children[n][seen[n] + 1]] > 0 => stop'[n]
    <3>1. Children[n][seen[n] + 1] \in Parents \ {n}
      <4>1. seen[n] < next[n] /\ next[n] <= Len(Children[n]) /\ seen[n] \in Nat
            /\ next[n] \in Nat
        BY <1>0, <1>5, TakeEffect DEF TypeOK, InOrder
      <4> QED
        BY <1>0, <1>5, <2>1, <4>1, TakeEffect, ChildIsNode DEF Finished, Active
    <3> QED
      BY <1>5, <3>1, TakenResult
  <2>7. \A p \in Parents : \A i \in 1 .. seen'[p] : rv'[Children[p][i]] > 0 => stop'[p]
    <3>1. seen[n] \in Nat
      BY <1>0 DEF TypeOK
    <3> QED
      BY <2>1, <2>2, <2>4, <2>5, <2>6, <3>1
  <2> QED
    BY <1>5, <2>3, <2>7, TakenResult DEF Failures
<1>6. CASE UNCHANGED vars
  BY <1>6 DEF Failures, vars, local
<1> QED
  BY <1>2, <1>3, <1>4, <1>5, <1>6, StepKinds

LEMMA FailuresHold ==
  ASSUME OptionsStop
  PROVE  Spec => []Failures
<1>1. Init => Failures
  BY MainApart DEF Init, Failures, Parents
<1>2. TInv /\ Failures /\ [Next]_vars => Failures'
  BY FailuresStep
<1> QED
  BY <1>1, <1>2, ThreadsHold, PTL DEF Spec

(* No command of a target runs when the build of a prerequisite that its   *)
(* own thread started has failed with a positive status.                   *)
THEOREM StopsPositive ==
  ASSUME OptionsStop
  PROVE  Spec => []PositiveStops
<1>1. TInv /\ Failures => PositiveStops
  <2> SUFFICES ASSUME TInv, Failures, NEW n \in Nodes, pc[n] \in Commands,
                      NEW i \in 1 .. Len(Children[n])
               PROVE  Finished(Children[n][i]) /\ rv[Children[n][i]] <= 0
    BY DEF PositiveStops
  <2>1. n \in Parents /\ ~stop[n] /\ seen[n] = Len(Children[n])
    BY DEF TInv, Stages, Parents
  <2>2. Finished(Children[n][i])
    BY <2>1 DEF TInv, InOrder
  <2>3. ~(rv[Children[n][i]] > 0) /\ rv[Children[n][i]] \in Int
    BY <2>1, ChildIsNode DEF Failures, TInv, TypeOK
  <2> QED
    BY <2>2, <2>3
<1> QED
  BY <1>1, ThreadsHold, FailuresHold, PTL

(* When Main has returned nobody is left running: a node that was would    *)
(* have a parent that is.                                                  *)
LEMMA NobodyLeft ==
  ASSUME TInv, pc[Main] = "returned"
  PROVE  \A n \in Nodes : ~Active(n)
<1> DEFINE A == {n \in Nodes : Active(n)}
<1> SUFFICES ASSUME A # {} PROVE FALSE
  OBVIOUS
<1>1. PICK p \in Parents \ A : \E i \in DOMAIN Children[p] : Children[p][i] \in A
  BY OwnershipAssumption
<1>2. PICK i \in 1 .. Len(Children[p]) : Active(Children[p][i])
  BY <1>1, TreeAssumption
<1>3. ~Active(p)
  BY <1>1 DEF Parents, Active
<1>4. next[p] \in Nat /\ i <= next[p]
  BY <1>2 DEF TInv, TypeOK, InOrder, Active
<1>5. pc[p] \notin {"children", "join"}
  BY <1>3 DEF Active
<1>6. Finished(Children[p][i])
  BY <1>4, <1>5 DEF TInv, Stages
<1> QED
  BY <1>2, <1>6 DEF Active, Finished

(* The result of a node that failed reaches its parent, if both are done.  *)
LEMMA FailureClimbs ==
  ASSUME TInv, Failures, NEW p \in Parents, ~Active(p), NEW i \in 1 .. Len(Children[p]),
         pc[Children[p][i]] = "returned", rv[Children[p][i]] > 0
  PROVE  pc[p] = "returned" /\ rv[p] > 0
<1>1. next[p] \in Nat /\ i <= next[p]
  <2>1. next[p] \in Nat
    BY DEF TInv, TypeOK
  <2>2. pc[Children[p][i]] = "off" <=> i > next[p]
    BY DEF TInv, InOrder
  <2> QED
    BY <2>1, <2>2
<1>2. pc[p] = "returned"
  BY <1>1 DEF TInv, Stages, Early, Active
<1>3. stop[p]
  BY <1>2 DEF TInv, Stages, Failures
<1> QED
  BY <1>2, <1>3 DEF Failures

(* A make in which a target failed with a positive status returns one: the *)
(* result climbs from each node to its parent, and the last one is Main.   *)
THEOREM ReportsPositive ==
  ASSUME OptionsStop
  PROVE  Spec => []PositiveReported
<1>1. TInv /\ Failures => PositiveReported
  <2> DEFINE F == {n \in Nodes : pc[n] = "returned" /\ rv[n] > 0}
  <2> SUFFICES ASSUME TInv, Failures, pc[Main] = "returned", F # {}
               PROVE  rv[Main] > 0
    BY DEF PositiveReported
  <2>1. PICK p \in Parents \ F : \E i \in DOMAIN Children[p] : Children[p][i] \in F
    BY OwnershipAssumption
  <2>2. PICK i \in 1 .. Len(Children[p]) :
          pc[Children[p][i]] = "returned" /\ rv[Children[p][i]] > 0
    BY <2>1, TreeAssumption
  <2>3. ~Active(p)
    BY NobodyLeft DEF Parents, Active
  <2>4. pc[p] = "returned" /\ rv[p] > 0
    BY <2>2, <2>3, FailureClimbs
  <2>5. p = Main
    BY <2>1, <2>4 DEF Parents
  <2> QED
    BY <2>4, <2>5
<1> QED
  BY <1>1, ThreadsHold, FailuresHold, PTL

(* When no command returns a negative status, no thread does.              *)
LEMMA StatusesStep ==
  ASSUME Outcomes \subseteq Nat, TInv, Statuses, [Next]_vars
  PROVE  Statuses'
<1>0. /\ rv \in [Parents -> Int] /\ last \in [Nodes -> Int]
      /\ \A p \in Parents : rv[p] >= 0
      /\ \A n \in Nodes : last[n] >= 0
  BY DEF TInv, TypeOK, Statuses
<1>1. ASSUME NEW n \in Parents, NEW r \in Int, r >= 0, rv' = [rv EXCEPT ![n] = r]
      PROVE  \A p \in Parents : rv'[p] >= 0
  BY <1>0, <1>1
<1>2. ASSUME NEW n \in Nodes, NEW r \in Int, r >= 0, last' = [last EXCEPT ![n] = r]
      PROVE  \A m \in Nodes : last'[m] >= 0
  BY <1>0, <1>2
<1>3. ASSUME NEW n \in Parents, TakeResult(n)
      PROVE  Statuses'
  <2>1. seen[n] < next[n] /\ next[n] <= Len(Children[n]) /\ seen[n] \in Nat
        /\ next[n] \in Nat
    BY <1>3, TakeEffect DEF TInv, TypeOK, InOrder
  <2>2. Children[n][seen[n] + 1] \in Parents
    BY <2>1, ChildIsNode
  <2>3. PICK r \in {rv[n], rv[Children[n][seen[n] + 1]]} : rv' = [rv EXCEPT ![n] = r]
    BY <1>3 DEF TakeResult
  <2>4. r \in Int /\ r >= 0
    BY <1>0, <2>2
  <2> QED
    BY <1>0, <1>1, <1>3, <2>3, <2>4 DEF TakeResult, Statuses
<1>4. ASSUME NEW n \in Parents, SpawnChild(n)
      PROVE  Statuses'
  BY <1>0, <1>4 DEF SpawnChild, Statuses
<1>5. CASE EndMain
  <2>1. PICK r \in {2, rv[Main]} : rv' = [rv EXCEPT ![Main] = r]
    BY <1>5 DEF EndMain
  <2> QED
    BY <1>0, <1>1, <1>5, <2>1, MainApart DEF EndMain, Statuses
<1>6. ASSUME NEW n \in Nodes, RunOne(n), ~Family(n)
      PROVE  Statuses'
  <2>0. n \in Parents
    BY DEF Parents
  <2>1. CASE Stopped(n) \/ NoCommands(n) \/ StartCommands(n)
    <3>1. PICK r \in {0, 1} : rv' = [rv EXCEPT ![n] = r]
      BY <2>1 DEF Stopped, NoCommands, StartCommands
    <3>2. last' = last
      BY <2>1 DEF Stopped, NoCommands, StartCommands
    <3> QED
      BY <1>0, <1>1, <2>0, <3>1, <3>2 DEF Statuses
  <2>2. CASE CommandEnds(n)
    <3>1. PICK o \in Nat : last' = [last EXCEPT ![n] = o]
      BY <2>2 DEF CommandEnds
    <3> QED
      BY <1>0, <1>2, <2>2, <3>1 DEF CommandEnds, Statuses
  <2>3. CASE LineDone(n)
    <3>1. PICK r \in {0, rv[n], last[n]} : rv' = [rv EXCEPT ![n] = r]
      BY <1>0, <2>0, <2>3 DEF LineDone
    <3>2. r \in Int /\ r >= 0
      BY <1>0, <2>0
    <3>3. last' = [last EXCEPT ![n] = 0]
      BY <2>3 DEF LineDone
    <3> QED
      BY <1>1, <1>2, <2>0, <3>1, <3>2, <3>3 DEF Statuses
  <2>4. CASE ~(Stopped(n) \/ NoCommands(n) \/ StartCommands(n) \/ CommandEnds(n) \/ LineDone(n))
    <3>1. rv' = rv /\ last' = last
      BY <1>6, <2>4 DEF RunOne, Check, Wait, SetBuilt, Expand, TakeJob, Launch, Clear,
         Release, local
    <3> QED
      BY <1>0, <3>1 DEF Statuses
  <2> QED
    BY <2>1, <2>2, <2>3, <2>4
<1>7. CASE UNCHANGED vars
  BY <1>0, <1>7 DEF vars, local, Statuses
<1> QED
  BY <1>3, <1>4, <1>5, <1>6, <1>7, StepKinds

LEMMA StatusesHold ==
  ASSUME Outcomes \subseteq Nat
  PROVE  Spec => []Statuses
<1>1. Init => Statuses
  BY DEF Init, Statuses, Parents
<1>2. TInv /\ Statuses /\ [Next]_vars => Statuses'
  BY StatusesStep
<1> QED
  BY <1>1, <1>2, ThreadsHold, PTL DEF Spec

(* No command of a target runs when the build of a prerequisite that its   *)
(* own thread started has failed.                                          *)
THEOREM Stops ==
  ASSUME OptionsStop, Outcomes \subseteq Nat
  PROVE  Spec => []FailureStops
<1>1. TInv /\ Statuses /\ PositiveStops => FailureStops
  BY ChildIsNode
     DEF PositiveStops, FailureStops, Commands, TInv, TypeOK, Statuses, Parents
<1> QED
  BY <1>1, StopsPositive, StatusesHold, ThreadsHold, PTL

(* A make in which a target failed does not return success.                *)
THEOREM Reports ==
  ASSUME OptionsStop, Outcomes \subseteq Nat
  PROVE  Spec => []FailureReported
<1>1. TInv /\ Statuses /\ PositiveReported => FailureReported
  BY DEF PositiveReported, FailureReported, TInv, TypeOK, Statuses, Parents
<1> QED
  BY <1>1, ReportsPositive, StatusesHold, ThreadsHold, PTL
=============================================================================
