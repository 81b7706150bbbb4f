------------------------ MODULE RunnerProgress_proofs ------------------------
(***************************************************************************)
(* Proofs about the end of a make, for every tree of Depends, every number *)
(* of command lines and every interleaving of the threads: a make that is  *)
(* not over has a thread that can step, each step leaves less to do, and   *)
(* when RunCommands returns no thread is left.  That is MakeEnds but for   *)
(* the temporal step.  They use that no goal needs itself.                 *)
(*                                                                         *)
(* From the same invariant: what else -j 1 promises, and what the exit     *)
(* status 0 says.                                                          *)
(***************************************************************************)
EXTENDS Runner_proofs, CountingLemmas

-----------------------------------------------------------------------------
(* The place of a thread in its command lines, and its job.                *)
LinesInOrder ==
  \A n \in Nodes :
    /\ pc[n] \notin Commands => line[n] = 1
    /\ pc[n] \in {"slot", "launch", "command", "result"} => line[n] <= Lines[GoalOf[n]]
    /\ line[n] <= Lines[GoalOf[n]] + 1

JobsInUse == \A n \in Nodes : n \in running <=> pc[n] \in {"launch", "command"}

(* Who waits for a goal, or has waited, does so for one that is built.     *)
SomeoneBuilds ==
  /\ \A g \in Goals : isBuilt[g] => Builders(g) # {}
  /\ \A n \in Nodes : pc[n] \in {"wait", "waited"} => isBuilt[GoalOf[n]]

(* A builder has opened the semaphore, or it was open from the start.      *)
Opened(g) == Windows => \E m \in Builders(g) : pc[m] = "returned"

WaitedFor(g) == {n \in Nodes : GoalOf[n] = g /\ pc[n] = "waited"}

(* No unit of onHold is lost: once it is open, the units that are left and *)
(* those the waiting threads have taken are HoldUnits at least.            *)
UnitsKept ==
  \A g \in Goals : Opened(g) => onHold[g] + Cardinality(WaitedFor(g)) >= HoldUnits

(* The inductive invariant.                                                *)
PInv == TInv /\ LinesInOrder /\ JobsInUse /\ SomeoneBuilds /\ HoldReleased /\ UnitsKept

-----------------------------------------------------------------------------
(* The guards of the actions: what a thread needs to take its next step.   *)
CanSpawn(p) ==
  pc[p] = "children" /\ next[p] < Len(Children[p]) /\ (OneJob => seen[p] = next[p])

CanStep(p) ==
  \/ pc[p] \in {"check", "set", "expand", "result", "clear", "release"}
  \/ pc[p] = "wait" /\ onHold[GoalOf[p]] > 0
  \/ CanSpawn(p) \/ ResultReady(p) \/ Joined(p)
  \/ pc[p] = "slot" /\ p \notin running /\ Slots!Committed(running \cup {p}) <= MaxJobs
  \/ pc[p] \in {"launch", "command"} /\ p \in running

(* The threads of a make are never stuck: until RunCommands has returned,  *)
(* one of them can step.                                                   *)
NeverStuck == pc[Main] # "returned" => \E p \in Parents : CanStep(p)

-----------------------------------------------------------------------------
(* A bound on the steps that a thread has left: a line takes five, and a   *)
(* child two, to start it and to take its result.                          *)
LinesOfGoal(p) == IF p = Main THEN 0 ELSE Lines[GoalOf[p]]

InLine(p) == 3 + 5 * (LinesOfGoal(p) + 1 - line[p])
WithChildren(p) ==
  5 + 5 * LinesOfGoal(p) + (Len(Children[p]) - next[p]) + (Len(Children[p]) - seen[p])

Left(p) ==
  CASE pc[p] \in {"returned", "waited"} -> 0
    [] pc[p] \in {"release", "wait"}    -> 1
    [] pc[p] = "clear"    -> 2
    [] pc[p] = "expand"   -> InLine(p)
    [] pc[p] = "slot"     -> InLine(p) - 1
    [] pc[p] = "launch"   -> InLine(p) - 2
    [] pc[p] = "command"  -> InLine(p) - 3
    [] pc[p] = "result"   -> InLine(p) - 4
    [] pc[p] = "join"     -> 4 + 5 * LinesOfGoal(p)
    [] pc[p] = "children" -> WithChildren(p)
    [] pc[p] = "set"      -> WithChildren(p) + 1
    [] pc[p] = "check"    -> WithChildren(p) + 2
    [] pc[p] = "off"      -> WithChildren(p) + 3

(* The work of the whole make, each step that is left as a pair.           *)
Work == UNION {{p} \X (1 .. Left(p)) : p \in Parents}

(* Each step of a thread leaves less to do.                                *)
WorkShrinks == [][Cardinality(Work') < Cardinality(Work)]_vars

(* When RunCommands has returned, no thread is left running.               *)
NoneRunning ==
  pc[Main] = "returned" => \A n \in Nodes : pc[n] \in {"off", "returned", "waited"}

(* However many threads the tree gives the make, it has no more commands   *)
(* running than the job server has jobs, with the make's own; and when      *)
(* RunCommands has returned every job has been given back, by the threads  *)
(* that a failure stopped as well.                                         *)
RunningCommands == {n \in Nodes : pc[n] = "command"}
JobsKept ==
  /\ Cardinality(RunningCommands) <= MaxJobs + 1
  /\ pc[Main] = "returned" => running = {}

-----------------------------------------------------------------------------
(* With -j 1 who has waited has waited for a goal that was built.          *)
Settled ==
  OneJob => \A n \in Nodes : pc[n] \in {"wait", "waited"} =>
    \E m \in Builders(GoalOf[n]) : pc[m] = "returned"

(* With -j 1 one command runs at a time.                                   *)
OneCommand == OneJob => Cardinality(running) <= 1

(* A make that returns 0 has built its goals, and whatever a goal that it  *)
(* built needs, without a failure; on POSIX with -j 1, as nobody waits for *)
(* another thread's goal there.                                            *)
SuccessMeansBuilt ==
  (Windows \/ OneJob) /\ pc[Main] = "returned" /\ rv[Main] = 0 =>
    \A p \in Parents : pc[p] = "returned" =>
      \A g \in ChildGoals(p) : \E m \in Builders(g) : pc[m] = "returned" /\ rv[m] = 0

-----------------------------------------------------------------------------
(* What a step of a node with its parents and children leaves to others.   *)
LEMMA FamilyStages ==
  ASSUME TInv, NEW p \in Parents, Family(p)
  PROVE  /\ UNCHANGED <<line, running, isBuilt, onHold>>
         /\ \A m \in Nodes :
              \/ pc'[m] = pc[m]
              \/ pc[m] = "off" /\ pc'[m] = "check"
              \/ pc[m] = "children" /\ pc'[m] = "join"
<1>1. TypeOK /\ InOrder
  BY DEF TInv
<1>2. CASE SpawnChild(p)
  <2>1. PICK c : c = Children[p][next[p] + 1]
    OBVIOUS
  <2>2. pc[c] = "off" /\ pc'[c] = "check" /\ \A m \in Nodes \ {c} : pc'[m] = pc[m]
    BY <1>1, <1>2, <2>1, SpawnEffect DEF Parents
  <2> QED
    BY <1>2, <2>2 DEF SpawnChild, shared
<1>3. CASE TakeResult(p)
  <2>1. pc[p] = "children" /\ pc'[p] \in {"children", "join"}
        /\ \A m \in Nodes \ {p} : pc'[m] = pc[m]
    BY <1>1, <1>3, TakeEffect DEF Parents
  <2> QED
    BY <1>3, <2>1 DEF TakeResult
<1> QED
  BY <1>2, <1>3 DEF Family

LEMMA EndMainStages ==
  ASSUME TInv, EndMain
  PROVE  /\ UNCHANGED <<line, running, isBuilt, onHold>>
         /\ \A m \in Nodes : pc'[m] = pc[m]
<1>1. \A m \in Nodes : pc'[m] = pc[m]
  BY MoveEffect, MainMoves, MainApart, StageOfPc DEF Parents, TInv
<1> QED
  BY <1>1 DEF EndMain, shared

(* The steps of Next, for an invariant about the nodes one by one.         *)
LEMMA NodeSteps ==
  ASSUME TInv, [Next]_vars
  PROVE  \/ \E n \in Nodes : RunOne(n) /\ ~Family(n)
         \/ /\ UNCHANGED <<line, running, isBuilt, onHold>>
            /\ \A m \in Nodes :
                 \/ pc'[m] = pc[m]
                 \/ pc[m] = "off" /\ pc'[m] = "check"
                 \/ pc[m] = "children" /\ pc'[m] = "join"
<1>1. CASE \E p \in Parents : Family(p)
  BY <1>1, FamilyStages
<1>2. CASE EndMain
  BY <1>2, EndMainStages
<1>3. CASE UNCHANGED vars
  BY <1>3 DEF vars, local, shared
<1> QED
  BY <1>1, <1>2, <1>3, StepKinds DEF Family

(* A step of a node apart from those with its children changes its own     *)
(* stage and line, and its own place among the jobs.                       *)
LEMMA NodeEffect ==
  ASSUME TInv, NEW n \in Nodes, RunOne(n), ~Family(n)
  PROVE  \A m \in Nodes \ {n} :
           pc'[m] = pc[m] /\ line'[m] = line[m] /\ (m \in running' <=> m \in running)
<1>1. PICK x : Move(n, x)
  BY NodeMoves
<1>2. \A m \in Nodes \ {n} : pc'[m] = pc[m]
  BY <1>1, MoveEffect, StageOfPc DEF TInv, Parents
<1>3. line \in [Nodes -> Nat]
  BY DEF TInv, TypeOK
<1>4. \A m \in Nodes \ {n} : line'[m] = line[m]
  BY <1>3 DEF RunOne, Check, Wait, SetBuilt, Stopped, NoCommands, StartCommands, Expand,
     TakeJob, Launch, CommandEnds, LineDone, Clear, Release, local
<1>5. \A m \in Nodes \ {n} : m \in running' <=> m \in running
  BY DEF RunOne, Check, Wait, SetBuilt, Stopped, NoCommands, StartCommands, Expand,
     TakeJob, Launch, CommandEnds, LineDone, Clear, Release, shared,
     Slots!Start, Slots!Finish
<1> QED
  BY <1>2, <1>4, <1>5

LineAt(n) ==
  /\ pc[n] \notin Commands => line[n] = 1
  /\ pc[n] \in {"slot", "launch", "command", "result"} => line[n] <= Lines[GoalOf[n]]
  /\ line[n] <= Lines[GoalOf[n]] + 1

(* The stage, the line and the job that a step of a node leaves it with.   *)
LEMMA LineOfNode ==
  ASSUME TInv, LinesInOrder, JobsInUse, NEW n \in Nodes, RunOne(n), ~Family(n)
  PROVE  /\ LineAt(n)'
         /\ n \in running' <=> pc'[n] \in {"launch", "command"}
<1>0. /\ n \in Parents /\ GoalOf[n] \in Goals /\ Lines[GoalOf[n]] \in Nat /\ line[n] \in Nat
      /\ pc \in [Parents -> Stage] /\ line \in [Nodes -> Nat]
  BY TreeAssumption, OptionsAssumption, StageOfPc DEF TInv, TypeOK, Parents
<1>1. LineAt(n) /\ (n \in running <=> pc[n] \in {"launch", "command"})
  BY DEF LineAt, LinesInOrder, JobsInUse
<1>2. \A x : Goto(n, x) => pc'[n] = x
  BY <1>0 DEF Goto
<1>3. CASE Check(n) \/ Wait(n) \/ SetBuilt(n) \/ Stopped(n) \/ NoCommands(n) \/ Release(n)
  <2>1. /\ pc[n] \notin Commands /\ line' = line /\ running' = running
        /\ pc'[n] \notin Commands
    BY <1>2, <1>3 DEF Check, Wait, SetBuilt, Stopped, NoCommands, Release, Joined,
       local, shared, Commands
  <2> QED
    BY <1>0, <1>1, <2>1 DEF LineAt, Commands
<1>4. CASE StartCommands(n)
  <2>1. pc[n] \notin Commands /\ line' = line /\ running' = running /\ pc'[n] = "expand"
    BY <1>2, <1>4 DEF StartCommands, Joined, Commands
  <2> QED
    BY <1>0, <1>1, <2>1 DEF LineAt, Commands
<1>5. CASE Expand(n)
  <2>1. /\ pc[n] = "expand" /\ line[n] <= Lines[GoalOf[n]] /\ line' = line
        /\ running' = running /\ pc'[n] \in {"clear", "slot"}
    BY <1>2, <1>5 DEF Expand, local, shared
  <2> QED
    BY <1>0, <1>1, <2>1 DEF LineAt, Commands
<1>6. CASE TakeJob(n)
  <2>1. /\ pc[n] = "slot" /\ line' = line /\ running' = running \cup {n}
        /\ pc'[n] = "launch"
    BY <1>2, <1>6 DEF TakeJob, Slots!Start, local
  <2> QED
    BY <1>0, <1>1, <2>1 DEF LineAt, Commands
<1>7. CASE Launch(n)
  <2>1. /\ pc[n] = "launch" /\ line' = line
        /\ \/ running' = running \ {n} /\ pc'[n] = "clear"
           \/ running' = running /\ pc'[n] = "command"
    BY <1>2, <1>7 DEF Launch, Slots!Finish, local
  <2> QED
    BY <1>0, <1>1, <2>1 DEF LineAt, Commands
<1>8. CASE CommandEnds(n)
  <2>1. /\ pc[n] = "command" /\ line' = line /\ running' = running \ {n}
        /\ pc'[n] = "result"
    BY <1>2, <1>8 DEF CommandEnds, Slots!Finish
  <2> QED
    BY <1>0, <1>1, <2>1 DEF LineAt, Commands
<1>9. CASE LineDone(n)
  <2>1. pc[n] = "result" /\ running' = running
    BY <1>9 DEF LineDone, shared
  <2>2. \/ pc'[n] = "clear" /\ line'[n] = line[n]
        \/ pc'[n] = "expand" /\ line'[n] = line[n] + 1
    BY <1>0, <1>2, <1>9 DEF LineDone
  <2> QED
    BY <1>0, <1>1, <2>1, <2>2 DEF LineAt, Commands
<1>10. CASE Clear(n)
  <2>1. /\ pc[n] \in {"clear", "expand"} /\ line'[n] = 1 /\ running' = running
        /\ pc'[n] = "release"
    BY <1>0, <1>2, <1>10 DEF Clear
  <2> QED
    BY <1>0, <1>1, <2>1 DEF LineAt, Commands
<1> QED
  BY <1>3, <1>4, <1>5, <1>6, <1>7, <1>8, <1>9, <1>10 DEF RunOne

LEMMA LinesStep ==
  ASSUME TInv, LinesInOrder, JobsInUse, [Next]_vars
  PROVE  LinesInOrder' /\ JobsInUse'
<1>0. SUFFICES ASSUME NEW m \in Nodes
               PROVE  /\ LineAt(m)'
                      /\ m \in running' <=> pc'[m] \in {"launch", "command"}
  BY DEF LinesInOrder, JobsInUse, LineAt
<1>1. LineAt(m) /\ (m \in running <=> pc[m] \in {"launch", "command"})
  BY DEF LineAt, LinesInOrder, JobsInUse
<1>2. ASSUME NEW n \in Nodes, RunOne(n), ~Family(n)
      PROVE  /\ LineAt(m)'
             /\ m \in running' <=> pc'[m] \in {"launch", "command"}
  <2>1. CASE m = n
    BY <1>2, <2>1, LineOfNode
  <2>2. CASE m # n
    <3>1. pc'[m] = pc[m] /\ line'[m] = line[m] /\ (m \in running' <=> m \in running)
      BY <1>2, <2>2, NodeEffect
    <3> QED
      BY <1>1, <3>1 DEF LineAt
  <2> QED
    BY <2>1, <2>2
<1>3. CASE /\ UNCHANGED <<line, running, isBuilt, onHold>>
           /\ \A k \in Nodes :
                \/ pc'[k] = pc[k]
                \/ pc[k] = "off" /\ pc'[k] = "check"
                \/ pc[k] = "children" /\ pc'[k] = "join"
  <2>1. line' = line /\ running' = running
    BY <1>3
  <2>2. \/ pc'[m] = pc[m]
        \/ /\ pc[m] \notin Commands /\ pc'[m] \notin Commands
           /\ pc[m] \notin {"launch", "command"} /\ pc'[m] \notin {"launch", "command"}
           /\ pc'[m] \notin {"slot", "launch", "command", "result"}
    BY <1>3 DEF Commands
  <2> QED
    BY <1>1, <2>1, <2>2 DEF LineAt
<1> QED
  BY <1>2, <1>3, NodeSteps

-----------------------------------------------------------------------------
(* A builder of a goal stays one.                                          *)
LEMMA BuildersGrow ==
  ASSUME TInv, [Next]_vars, NEW g
  PROVE  Builders(g) \subseteq Builders(g)'
<1>1. SUFFICES ASSUME NEW m \in Nodes, pc[m] \notin Early
               PROVE  pc'[m] \notin Early
  BY BuilderStages, BuilderStagesNext
<1>2. CASE \E n \in Nodes : Check(n) \/ SetBuilt(n) \/ StartCommands(n) \/ Clear(n)
  <2>1. PICK n \in Nodes : Check(n) \/ SetBuilt(n) \/ StartCommands(n) \/ Clear(n)
    BY <1>2
  <2>2. pc \in [Parents -> Stage] /\ n \in Parents /\ m \in Parents
    BY StageOfPc DEF TInv, Parents
  <2>3. CASE m = n
    BY <1>1, <2>1, <2>2, <2>3
       DEF Check, SetBuilt, StartCommands, Clear, Goto, Early
  <2>4. CASE m # n
    BY <1>1, <2>1, <2>2, <2>4 DEF Check, SetBuilt, StartCommands, Clear, Goto
  <2> QED
    BY <2>3, <2>4
<1> QED
  BY <1>1, <1>2, OtherSteps

(* isBuilt is set by SetBuilt, and wait is reached from check.             *)
LEMMA BuiltEffect ==
  ASSUME TInv, NEW n \in Nodes, RunOne(n), ~Family(n)
  PROVE  /\ \A g \in Goals :
              isBuilt'[g] <=> isBuilt[g] \/ (SetBuilt(n) /\ g = GoalOf[n])
         /\ pc'[n] \in {"wait", "waited"} => isBuilt[GoalOf[n]] \/ pc[n] = "wait"
         /\ SetBuilt(n) => pc'[n] = "children"
<1>1. /\ pc \in [Parents -> Stage] /\ n \in Parents /\ GoalOf[n] \in Goals
      /\ isBuilt \in [Goals -> BOOLEAN]
  BY StageOfPc, TreeAssumption DEF TInv, TypeOK, Parents
<1>2. \A x : Goto(n, x) => pc'[n] = x
  BY <1>1 DEF Goto
<1>3. CASE Check(n)
  BY <1>1, <1>2, <1>3 DEF Check, SetBuilt, shared
<1>4. CASE Wait(n)
  BY <1>1, <1>2, <1>4 DEF Wait, SetBuilt
<1>5. CASE SetBuilt(n)
  BY <1>1, <1>2, <1>5 DEF SetBuilt
<1>6. CASE Stopped(n) \/ NoCommands(n) \/ StartCommands(n) \/ Release(n)
  BY <1>1, <1>2, <1>6
     DEF Stopped, NoCommands, StartCommands, Release, SetBuilt, Joined, shared
<1>7. CASE Expand(n) \/ TakeJob(n) \/ Launch(n)
  BY <1>1, <1>2, <1>7 DEF Expand, TakeJob, Launch, SetBuilt, shared
<1>8. CASE CommandEnds(n) \/ LineDone(n) \/ Clear(n)
  BY <1>1, <1>2, <1>8 DEF CommandEnds, LineDone, Clear, SetBuilt, shared
<1> QED
  BY <1>3, <1>4, <1>5, <1>6, <1>7, <1>8 DEF RunOne

LEMMA BuildsStep ==
  ASSUME TInv, SomeoneBuilds, [Next]_vars
  PROVE  SomeoneBuilds'
<1>0. GoalOf \in [Nodes -> Goals]
  BY TreeAssumption
<1>1. ASSUME NEW n \in Nodes, RunOne(n), ~Family(n)
      PROVE  SomeoneBuilds'
  <2>1. ASSUME NEW g \in Goals, isBuilt'[g]
        PROVE  Builders(g)' # {}
    <3>1. CASE isBuilt[g]
      BY <3>1, BuildersGrow DEF SomeoneBuilds
    <3>2. CASE SetBuilt(n) /\ g = GoalOf[n]
      <4>1. pc'[n] = "children"
        BY <1>1, <3>2, BuiltEffect
      <4> QED
        BY <3>2, <4>1 DEF Builders
    <3> QED
      BY <1>1, <2>1, <3>1, <3>2, BuiltEffect
  <2>2. ASSUME NEW m \in Nodes, pc'[m] \in {"wait", "waited"}
        PROVE  isBuilt'[GoalOf[m]]
    <3>1. isBuilt[GoalOf[m]]
      <4>1. CASE m = n
        BY <1>1, <2>2, <4>1, BuiltEffect DEF SomeoneBuilds
      <4>2. CASE m # n
        BY <1>1, <2>2, <4>2, NodeEffect DEF SomeoneBuilds
      <4> QED
        BY <4>1, <4>2
    <3> QED
      BY <1>0, <1>1, <3>1, BuiltEffect
  <2> QED
    BY <2>1, <2>2 DEF SomeoneBuilds
<1>2. CASE /\ UNCHANGED <<line, running, isBuilt, onHold>>
           /\ \A k \in Nodes :
                \/ pc'[k] = pc[k]
                \/ pc[k] = "off" /\ pc'[k] = "check"
                \/ pc[k] = "children" /\ pc'[k] = "join"
  <2>1. \A g \in Goals : isBuilt'[g] => Builders(g)' # {}
    BY <1>2, BuildersGrow DEF SomeoneBuilds
  <2>2. \A m \in Nodes : pc'[m] \in {"wait", "waited"} => isBuilt'[GoalOf[m]]
    BY <1>2 DEF SomeoneBuilds
  <2> QED
    BY <2>1, <2>2 DEF SomeoneBuilds
<1> QED
  BY <1>1, <1>2, NodeSteps

-----------------------------------------------------------------------------
(* The units of onHold.                                                    *)
LEMMA WaitedFinite ==
  ASSUME NEW g
  PROVE  /\ IsFiniteSet(WaitedFor(g)) /\ Cardinality(WaitedFor(g)) \in Nat
         /\ IsFiniteSet(WaitedFor(g)') /\ Cardinality(WaitedFor(g)') \in Nat
<1>1. WaitedFor(g) \subseteq Nodes /\ WaitedFor(g)' \subseteq Nodes
  BY DEF WaitedFor
<1> QED
  BY <1>1, TreeAssumption, FS_Subset, FS_CardinalityType

(* The semaphore of a goal that is not released and not waited for.        *)
LEMMA UnitsSame ==
  ASSUME UnitsKept, NEW g \in Goals, Opened(g), onHold'[g] = onHold[g],
         WaitedFor(g)' = WaitedFor(g)
  PROVE  onHold'[g] + Cardinality(WaitedFor(g)') >= HoldUnits
BY DEF UnitsKept

LEMMA UnitsStep ==
  ASSUME TInv, HoldReleased, UnitsKept, [Next]_vars
  PROVE  UnitsKept'
<1>0. onHold \in [Goals -> Nat] /\ GoalOf \in [Nodes -> Goals] /\ HoldUnits \in Nat
  BY TreeAssumption, HoldAssumption DEF TInv, TypeOK
<1> SUFFICES ASSUME NEW g \in Goals, Opened(g)'
             PROVE  onHold'[g] + Cardinality(WaitedFor(g)') >= HoldUnits
  BY DEF UnitsKept
<1>1. ASSUME NEW n \in Nodes, RunOne(n), ~Family(n)
      PROVE  onHold'[g] + Cardinality(WaitedFor(g)') >= HoldUnits
  <2>0. PICK x : Move(n, x)
    BY <1>1, NodeMoves
  <2>1. /\ n \in Parents /\ pc \in [Parents -> Stage] /\ pc'[n] = x
        /\ \A m \in Nodes \ {n} : pc'[m] = pc[m]
    BY <2>0, StageOfPc, MoveEffect DEF TInv, Parents
  <2>2. CASE Release(n)
    <3>1. pc[n] = "release" /\ pc'[n] = "returned"
      BY <2>1, <2>2 DEF Release, Goto
    <3>2. WaitedFor(g)' = WaitedFor(g)
      BY <2>1, <3>1 DEF WaitedFor
    <3>3. CASE GoalOf[n] # g
      <4>1. onHold'[g] = onHold[g]
        BY <1>0, <2>2, <3>3 DEF Release
      <4>2. Opened(g)
        BY <2>1, <3>3 DEF Opened, Builders
      <4> QED
        BY <3>2, <4>1, <4>2, UnitsSame
    <3>4. CASE GoalOf[n] = g /\ ~(Windows /\ onHold[g] > 0)
      <4>1. onHold'[g] = onHold[g] + HoldUnits
        BY <1>0, <2>2, <3>4 DEF Release
      <4> QED
        BY <1>0, <4>1, WaitedFinite
    <3>5. CASE GoalOf[n] = g /\ Windows /\ onHold[g] > 0
      <4>1. onHold'[g] = onHold[g]
        BY <1>0, <2>2, <3>5 DEF Release
      <4>2. Opened(g)
        BY <3>5 DEF Opened, HoldReleased
      <4> QED
        BY <3>2, <4>1, <4>2, UnitsSame
    <3> QED
      BY <3>3, <3>4, <3>5
  <2>3. CASE ~Release(n)
    <3>1. pc'[n] = "returned" => FALSE
      BY <1>0, <1>1, <2>1, <2>3 DEF RunOne, Check, Wait, SetBuilt, Stopped, NoCommands,
         StartCommands, Expand, TakeJob, Launch, CommandEnds, LineDone, Clear, Goto
    <3>2. Opened(g)
      BY <2>1, <3>1 DEF Opened, Builders
    <3>3. CASE Wait(n)
      <4>1. /\ pc[n] = "wait" /\ pc'[n] = "waited" /\ onHold[GoalOf[n]] > 0
            /\ onHold' = [onHold EXCEPT ![GoalOf[n]] = @ - 1]
        BY <2>1, <3>3 DEF Wait, Goto
      <4>2. CASE GoalOf[n] # g
        <5>1. WaitedFor(g)' = WaitedFor(g)
          BY <2>1, <4>2 DEF WaitedFor
        <5> QED
          BY <1>0, <3>2, <4>1, <4>2, <5>1, UnitsSame
      <4>3. CASE GoalOf[n] = g
        <5>1. WaitedFor(g)' = WaitedFor(g) \cup {n} /\ n \notin WaitedFor(g)
          BY <2>1, <4>1, <4>3 DEF WaitedFor
        <5>2. Cardinality(WaitedFor(g)') = Cardinality(WaitedFor(g)) + 1
          BY <5>1, WaitedFinite, FS_AddElement
        <5>3. onHold'[g] = onHold[g] - 1
          BY <1>0, <4>1, <4>3
        <5> QED
          BY <1>0, <3>2, <5>2, <5>3, WaitedFinite DEF UnitsKept
      <4> QED
        BY <4>2, <4>3
    <3>4. CASE ~Wait(n)
      <4>1. onHold' = onHold /\ pc[n] # "wait"
        BY <1>1, <2>3, <3>4 DEF RunOne, Check, SetBuilt, Stopped, NoCommands, StartCommands,
           Expand, TakeJob, Launch, CommandEnds, LineDone, Clear, Joined, shared
      <4>2. x # "waited" /\ pc[n] # "waited"
        BY <2>0, <4>1 DEF Move, Edge, Joined, Commands
      <4>3. WaitedFor(g)' = WaitedFor(g)
        BY <2>1, <4>2 DEF WaitedFor
      <4> QED
        BY <3>2, <4>1, <4>3, UnitsSame
    <3> QED
      BY <3>3, <3>4
  <2> QED
    BY <2>2, <2>3
<1>2. CASE /\ UNCHANGED <<line, running, isBuilt, onHold>>
           /\ \A k \in Nodes :
                \/ pc'[k] = pc[k]
                \/ pc[k] = "off" /\ pc'[k] = "check"
                \/ pc[k] = "children" /\ pc'[k] = "join"
  <2>1. \A m \in Nodes : (pc'[m] = "waited" <=> pc[m] = "waited")
                         /\ (pc'[m] = "returned" <=> pc[m] = "returned")
    BY <1>2
  <2>2. WaitedFor(g)' = WaitedFor(g)
    BY <2>1 DEF WaitedFor
  <2>3. Opened(g)
    BY <2>1 DEF Opened, Builders
  <2> QED
    BY <1>2, <2>2, <2>3, UnitsSame
<1> QED
  BY <1>1, <1>2, NodeSteps

-----------------------------------------------------------------------------
LEMMA ProgressInit == Init => PInv
<1> SUFFICES ASSUME Init PROVE PInv
  OBVIOUS
<1>1. TInv
  BY ThreadsInit
<1>2. \A n \in Nodes : pc[n] = "off" /\ line[n] = 1
  BY MainApart DEF Init, Parents
<1>3. running = {} /\ (\A g \in Goals : ~isBuilt[g])
      /\ \A g \in Goals : onHold[g] = IF Windows THEN 0 ELSE HoldUnits
  BY DEF Init, Slots!Init
<1>4. LinesInOrder /\ JobsInUse /\ SomeoneBuilds
  BY <1>2, <1>3, TreeAssumption, OptionsAssumption
     DEF LinesInOrder, JobsInUse, SomeoneBuilds, Commands
<1>5. HoldReleased
  BY <1>2, <1>3 DEF HoldReleased
<1>6. ASSUME NEW g \in Goals, Opened(g)
      PROVE  onHold[g] + Cardinality(WaitedFor(g)) >= HoldUnits
  <2>1. ~Windows
    BY <1>2, <1>6 DEF Opened, Builders
  <2> QED
    BY <1>3, <2>1, WaitedFinite, HoldAssumption
<1> QED
  BY <1>1, <1>4, <1>5, <1>6 DEF PInv, UnitsKept

LEMMA ProgressStep == PInv /\ [Next]_vars => PInv'
<1> SUFFICES ASSUME PInv, [Next]_vars PROVE PInv'
  OBVIOUS
<1>1. TInv'
  BY ThreadsStep DEF PInv
<1>2. LinesInOrder' /\ JobsInUse'
  BY LinesStep DEF PInv
<1>3. SomeoneBuilds'
  BY BuildsStep DEF PInv
<1>4. HoldReleased'
  BY HoldStep DEF PInv, HoldReleased
<1>5. UnitsKept'
  BY UnitsStep DEF PInv
<1> QED
  BY <1>1, <1>2, <1>3, <1>4, <1>5 DEF PInv

LEMMA ProgressHolds == Spec => []PInv
BY ProgressInit, ProgressStep, PTL DEF Spec

-----------------------------------------------------------------------------
(* NeverStuck.                                                             *)

(* A parent without an active child can go on with its children.           *)
LEMMA ParentSteps ==
  ASSUME TInv, NEW p \in Parents, Tip(p), pc[p] \in {"children", "join"}
  PROVE  CanStep(p)
<1>1. /\ next[p] \in Nat /\ seen[p] \in Nat /\ Len(Children[p]) \in Nat
      /\ seen[p] <= next[p] /\ next[p] <= Len(Children[p])
  BY ChildIsNode DEF TInv, TypeOK, InOrder
<1>2. ASSUME NEW i \in 1 .. next[p]
      PROVE  Finished(Children[p][i])
  <2>1. i \in 1 .. Len(Children[p])
    BY <1>1
  <2>2. pc[Children[p][i]] # "off" /\ ~Active(Children[p][i])
    BY <1>1, <2>1 DEF Tip, TInv, InOrder
  <2> QED
    BY <2>2 DEF Active, Finished
<1>3. CASE pc[p] = "join" \/ seen[p] = Len(Children[p])
  BY <1>2, <1>3 DEF CanStep, Joined
<1>4. CASE pc[p] = "children" /\ seen[p] < next[p] /\ (OneJob \/ next[p] = Len(Children[p]))
  <2>1. Finished(Children[p][seen[p] + 1])
    BY <1>1, <1>2, <1>4
  <2> QED
    BY <1>4, <2>1 DEF CanStep, ResultReady
<1>5. CASE pc[p] = "children" /\ next[p] < Len(Children[p]) /\ (OneJob => seen[p] = next[p])
  BY <1>5 DEF CanStep, CanSpawn
<1> QED
  BY <1>1, <1>3, <1>4, <1>5

(* There is always a job for the first that asks: the free slot.           *)
LEMMA FirstJob ==
  ASSUME NEW n \in Nodes
  PROVE  Slots!Committed({n}) <= MaxJobs
<1>0. \A T : Slots!Cardinality(T) = Cardinality(T)
  BY DEF Slots!Cardinality, Cardinality
<1>1. Cardinality({n}) = 1
  BY FS_Singleton
<1>2. Slots!Committed({n}) = Cardinality({n}) - Cardinality({Main})
  <2>1. {[m \in Nodes |-> Main][t] : t \in {n}} = {Main}
    OBVIOUS
  <2> QED
    BY <1>0, <2>1 DEF Slots!Committed
<1>3. Cardinality({Main}) = 1
  BY FS_Singleton
<1> QED
  BY <1>1, <1>2, <1>3, OptionsAssumption

(* A builder of the goal has come to its end: there is a unit for whoever  *)
(* waits, since each thread takes one at most.                             *)
LEMMA UnitForWaiter ==
  ASSUME PInv, NEW n \in Nodes, pc[n] = "wait", Opened(GoalOf[n])
  PROVE  onHold[GoalOf[n]] > 0
<1> DEFINE g == GoalOf[n]
<1>1. g \in Goals /\ onHold[g] \in Nat /\ HoldUnits \in Nat
  BY TreeAssumption, HoldAssumption DEF PInv, TInv, TypeOK
<1>2. WaitedFor(g) \subseteq Nodes /\ WaitedFor(g) # Nodes
  BY DEF WaitedFor
<1>3. Cardinality(WaitedFor(g)) < Cardinality(Nodes)
  <2>1. /\ Cardinality(WaitedFor(g)) \in Nat /\ Cardinality(Nodes) \in Nat
        /\ Cardinality(WaitedFor(g)) <= Cardinality(Nodes)
        /\ Cardinality(Nodes) = Cardinality(WaitedFor(g)) => Nodes = WaitedFor(g)
    BY <1>2, TreeAssumption, FS_Subset, FS_CardinalityType
  <2> QED
    BY <1>2, <2>1
<1>4. onHold[g] + Cardinality(WaitedFor(g)) >= HoldUnits
  BY <1>1 DEF PInv, UnitsKept
<1> QED
  BY <1>1, <1>3, <1>4, WaitedFinite, TreeAssumption, FS_CardinalityType, HoldAssumption

(* Of the goals that are worked on, one has no prerequisite that is worked *)
(* on: no circle of threads waits.                                         *)
LEMMA LowestGoal ==
  ASSUME TInv, NEW k \in Nodes, Active(k)
  PROVE  \E n \in Nodes : Active(n) /\
           \A m \in Nodes : Active(m) /\ GoalOf[m] = GoalOf[n] => Tip(m)
<1> DEFINE S == {GoalOf[n] : n \in {m \in Nodes : Active(m)}}
<1>1. S \in SUBSET Goals /\ S # {}
  BY TreeAssumption
<1>2. PICK g \in S : \A n \in Nodes : GoalOf[n] = g =>
        \A i \in DOMAIN Children[n] : GoalOf[Children[n][i]] \notin S
  BY <1>1, CircleAssumption
<1>3. PICK n \in Nodes : Active(n) /\ GoalOf[n] = g
  BY <1>2
<1>4. ASSUME NEW m \in Nodes, Active(m), GoalOf[m] = g
      PROVE  Tip(m)
  <2>1. m \in Parents /\ DOMAIN Children[m] = 1 .. Len(Children[m])
    BY TreeAssumption DEF Parents
  <2>2. ASSUME NEW i \in 1 .. Len(Children[m])
        PROVE  ~Active(Children[m][i])
    <3>1. Children[m][i] \in Nodes
      BY <2>1, ChildIsNode
    <3>2. GoalOf[Children[m][i]] \notin S
      BY <1>2, <1>4, <2>1
    <3> QED
      BY <3>1, <3>2
  <2> QED
    BY <1>4, <2>2 DEF Tip
<1> QED
  BY <1>3, <1>4

(* A thread with a job can use it, and one that asks for the only job can  *)
(* have it.                                                                *)
LEMMA BusySteps ==
  ASSUME PInv, NEW n \in Nodes, Tip(n), pc[n] # "wait"
  PROVE  \E p \in Parents : CanStep(p)
<1>1. n \in Parents /\ TInv
  BY DEF Parents, PInv
<1>2. pc[n] \in Stage
  BY <1>1, StageOfPc DEF TInv
<1>3. CASE pc[n] \in {"children", "join"}
  BY <1>1, <1>3, ParentSteps
<1>4. CASE pc[n] \in {"check", "set", "expand", "result", "clear", "release"}
  BY <1>1, <1>4 DEF CanStep
<1>5. CASE pc[n] \in {"launch", "command"}
  BY <1>1, <1>5 DEF CanStep, PInv, JobsInUse
<1>6. CASE pc[n] = "slot"
  <2>1. n \notin running
    BY <1>6 DEF PInv, JobsInUse
  <2>2. CASE running = {}
    <3>1. running \cup {n} = {n}
      BY <2>2
    <3>2. Slots!Committed(running \cup {n}) <= MaxJobs
      BY <3>1, FirstJob
    <3> QED
      BY <1>1, <1>6, <2>1, <3>2 DEF CanStep
  <2>3. CASE running # {}
    <3>1. PICK m : m \in running
      BY <2>3
    <3>2. m \in Nodes /\ m \in Parents
      BY <3>1 DEF PInv, TInv, TypeOK, Parents
    <3> QED
      BY <3>1, <3>2 DEF CanStep, PInv, JobsInUse
  <2> QED
    BY <2>2, <2>3
<1> QED
  BY <1>2, <1>3, <1>4, <1>5, <1>6 DEF Tip, Active, Stage, Commands

LEMMA SomeoneSteps == PInv => NeverStuck
<1> SUFFICES ASSUME PInv, pc[Main] # "returned"
             PROVE  \E p \in Parents : CanStep(p)
  BY DEF NeverStuck
<1>1. TInv /\ Main \in Parents
  BY MainApart DEF PInv
<1>2. CASE \A n \in Nodes : ~Active(n)
  <2>1. pc[Main] \in {"children", "join"}
    BY <1>1 DEF TInv, Stages
  <2>2. Tip(Main)
    BY <1>1, <1>2, <2>1, ChildIsNode DEF Tip, Active
  <2> QED
    BY <1>1, <2>1, <2>2, ParentSteps
<1>3. CASE \E n \in Nodes : Active(n)
  <2>1. PICK n \in Nodes : Active(n) /\
          \A m \in Nodes : Active(m) /\ GoalOf[m] = GoalOf[n] => Tip(m)
    BY <1>1, <1>3, LowestGoal
  <2>2. CASE pc[n] # "wait"
    BY <2>1, <2>2, BusySteps
  <2>3. CASE pc[n] = "wait"
    <3>1. PICK b \in Builders(GoalOf[n]) : TRUE
      BY <2>3, TreeAssumption DEF PInv, SomeoneBuilds
    <3>2. b \in Nodes /\ GoalOf[b] = GoalOf[n] /\ pc[b] # "wait"
      BY <3>1 DEF Builders
    <3>3. CASE pc[b] = "returned"
      <4>1. onHold[GoalOf[n]] > 0
        BY <2>3, <3>1, <3>3, UnitForWaiter DEF Opened
      <4> QED
        BY <2>3, <4>1 DEF CanStep, Parents
    <3>4. CASE pc[b] # "returned"
      <4>1. Active(b)
        BY <3>1, <3>4 DEF Builders, Active
      <4> QED
        BY <2>1, <3>2, <4>1, BusySteps
    <3> QED
      BY <3>3, <3>4
  <2> QED
    BY <2>2, <2>3
<1> QED
  BY <1>2, <1>3

(* Nobody waits for ever on everybody: as long as RunCommands has not      *)
(* returned, a thread can take its next step.  A thread that waits for a   *)
(* shared goal has a builder which is at work, or whose Release left a     *)
(* unit for it; one that waits for a job has somebody who gives one back.  *)
THEOREM NoDeadlock == Spec => []NeverStuck
BY ProgressHolds, SomeoneSteps, PTL

-----------------------------------------------------------------------------
(* WorkShrinks.                                                            *)

(* The numbers that Left is made of.                                       *)
LEMMA Numbers ==
  ASSUME PInv, NEW p \in Parents
  PROVE  /\ LinesOfGoal(p) \in Nat /\ Len(Children[p]) \in Nat
         /\ next[p] \in Nat /\ seen[p] \in Nat
         /\ seen[p] <= next[p] /\ next[p] <= Len(Children[p])
         /\ p # Main => /\ p \in Nodes /\ LinesOfGoal(p) = Lines[GoalOf[p]]
                        /\ line[p] \in Nat /\ line[p] <= LinesOfGoal(p) + 1
         /\ pc[p] \in Commands => p # Main
<1>1. LinesOfGoal(p) \in Nat
  BY TreeAssumption, OptionsAssumption DEF LinesOfGoal, Parents
<1>2. p # Main => p \in Nodes /\ LinesOfGoal(p) = Lines[GoalOf[p]] /\ line[p] \in Nat
  BY DEF LinesOfGoal, Parents, PInv, TInv, TypeOK
<1>3. p # Main => line[p] <= LinesOfGoal(p) + 1
  BY <1>2 DEF PInv, LinesInOrder
<1>4. pc[p] \in Commands => p # Main
  BY DEF PInv, TInv, Stages, Commands
<1> QED
  BY <1>1, <1>2, <1>3, <1>4, ChildIsNode DEF PInv, TInv, TypeOK, InOrder

LEMMA ChildrenLeft ==
  ASSUME PInv, NEW p \in Parents
  PROVE  WithChildren(p) \in Nat /\ WithChildren(p) > 0
<1> DEFINE K == LinesOfGoal(p)
           L == Len(Children[p])
<1>1. /\ K \in Nat /\ L \in Nat /\ next[p] \in Nat /\ seen[p] \in Nat
      /\ seen[p] <= next[p] /\ next[p] <= L
  BY Numbers
<1>2. WithChildren(p) = 5 + 5 * K + (L - next[p]) + (L - seen[p])
  BY DEF WithChildren
<1> HIDE DEF K, L
<1> QED
  BY <1>1, <1>2

LEMMA LineLeft ==
  ASSUME PInv, NEW p \in Parents, pc[p] \in Commands
  PROVE  /\ InLine(p) \in Nat /\ InLine(p) >= 3
         /\ pc[p] \in {"slot", "launch", "command", "result"} => InLine(p) >= 8
<1> DEFINE K == LinesOfGoal(p)
<1>1. K \in Nat /\ p \in Nodes /\ K = Lines[GoalOf[p]] /\ line[p] \in Nat /\ line[p] <= K + 1
  BY Numbers
<1>2. pc[p] \in {"slot", "launch", "command", "result"} => line[p] <= K
  BY <1>1 DEF PInv, LinesInOrder
<1>3. InLine(p) = 3 + 5 * (K + 1 - line[p])
  BY DEF InLine
<1> HIDE DEF K
<1> QED
  BY <1>1, <1>2, <1>3

LEMMA LeftIsNatural ==
  ASSUME PInv, NEW p \in Parents
  PROVE  Left(p) \in Nat
<1>1. LinesOfGoal(p) \in Nat /\ WithChildren(p) \in Nat
  BY Numbers, ChildrenLeft
<1>2. pc[p] \in Stage
  BY StageOfPc DEF PInv, TInv
<1>3. CASE pc[p] \in Commands
  <2>1. /\ InLine(p) \in Nat /\ InLine(p) >= 3
        /\ pc[p] \in {"slot", "launch", "command", "result"} => InLine(p) >= 8
    BY <1>3, LineLeft
  <2> QED
    BY <1>3, <2>1 DEF Left, Commands
<1>4. CASE pc[p] \notin Commands
  BY <1>1, <1>2, <1>4 DEF Left, Stage
<1> QED
  BY <1>3, <1>4

LEMMA LeftsNatural == PInv => \A p \in Parents : Left(p) \in Nat
BY LeftIsNatural

LEMMA LeftsNaturalNext == PInv' => (\A p \in Parents : Left(p) \in Nat)'
BY LeftsNatural, PTL

(* What is left of a thread whose stage, line and counts do not change.    *)
LEMMA LeftSame ==
  ASSUME NEW p, pc'[p] = pc[p], next'[p] = next[p], seen'[p] = seen[p],
         p # Main => line'[p] = line[p], pc[p] \in Commands => p # Main
  PROVE  Left(p)' = Left(p)
<1>1. WithChildren(p)' = WithChildren(p)
  BY DEF WithChildren, LinesOfGoal
<1>2. pc[p] \in Commands => InLine(p)' = InLine(p)
  BY DEF InLine, LinesOfGoal
<1> QED
  BY <1>1, <1>2 DEF Left, Commands

LEMMA LeftOfNode ==
  ASSUME PInv, NEW n \in Nodes, RunOne(n), ~Family(n)
  PROVE  Left(n)' < Left(n)
<1> DEFINE K == Lines[GoalOf[n]]
           L == Len(Children[n])
<1>0. n \in Parents /\ n # Main
  BY MainApart DEF Parents
<1>1. /\ K \in Nat /\ L \in Nat /\ next[n] \in Nat /\ seen[n] \in Nat
      /\ seen[n] <= next[n] /\ next[n] <= L
      /\ line[n] \in Nat /\ line[n] <= K + 1
      /\ LinesOfGoal(n) = K /\ LinesOfGoal(n)' = K
  BY <1>0, Numbers DEF LinesOfGoal
<1>2. /\ pc \in [Parents -> Stage] /\ line \in [Nodes -> Nat]
      /\ pc[n] \notin Commands => line[n] = 1
      /\ pc[n] \in {"slot", "launch", "command", "result"} => line[n] <= K
      /\ pc[n] \in Early => next[n] = 0 /\ seen[n] = 0
  BY <1>0, StageOfPc DEF PInv, TInv, TypeOK, LinesInOrder, Stages
<1>3. \A x : Goto(n, x) => pc'[n] = x
  BY <1>0, <1>2 DEF Goto
<1>4. PICK x : Move(n, x)
  BY NodeMoves
<1>5. next' = next /\ seen' = seen
  BY <1>4 DEF Move
<1>6. /\ WithChildren(n) = 5 + 5 * K + (L - next[n]) + (L - seen[n])
      /\ WithChildren(n)' = 5 + 5 * K + (L - next[n]) + (L - seen[n])
      /\ InLine(n) = 3 + 5 * (K + 1 - line[n])
      /\ InLine(n)' = 3 + 5 * (K + 1 - line'[n])
  BY <1>1, <1>5 DEF WithChildren, InLine
<1> HIDE DEF K, L
<1>7. CASE Check(n)
  <2>1. pc[n] = "check" /\ pc'[n] \in {"wait", "set"}
    BY <1>3, <1>7 DEF Check
  <2> QED
    BY <1>1, <1>6, <2>1 DEF Left
<1>8. CASE Wait(n)
  <2>1. pc[n] = "wait" /\ pc'[n] = "waited"
    BY <1>3, <1>8 DEF Wait
  <2> QED
    BY <2>1 DEF Left
<1>9. CASE SetBuilt(n)
  <2>1. pc[n] = "set" /\ pc'[n] = "children"
    BY <1>3, <1>9 DEF SetBuilt
  <2> QED
    BY <1>1, <1>6, <2>1 DEF Left
<1>10. CASE Stopped(n) \/ NoCommands(n)
  <2>1. pc[n] \in {"children", "join"} /\ pc'[n] = "release"
    BY <1>3, <1>10 DEF Stopped, NoCommands, Joined
  <2> QED
    BY <1>1, <1>6, <2>1 DEF Left
<1>11. CASE StartCommands(n)
  <2>1. pc[n] \in {"children", "join"} /\ pc'[n] = "expand" /\ line' = line
    BY <1>3, <1>11 DEF StartCommands, Joined
  <2>2. line'[n] = 1
    BY <1>2, <2>1 DEF Commands
  <2>3. InLine(n)' = 3 + 5 * K
    BY <1>1, <1>6, <2>2
  <2>4. Left(n)' = 3 + 5 * K
    BY <2>1, <2>3 DEF Left
  <2>5. Left(n) >= 4 + 5 * K
    BY <1>1, <1>6, <2>1 DEF Left
  <2> QED
    BY <1>1, <2>4, <2>5, LeftIsNatural, <1>0
<1>12. CASE Expand(n) \/ TakeJob(n) \/ CommandEnds(n)
  <2>1. /\ line' = line
        /\ \/ pc[n] = "expand" /\ pc'[n] \in {"clear", "slot"}
           \/ pc[n] = "slot" /\ pc'[n] = "launch"
           \/ pc[n] = "command" /\ pc'[n] = "result"
    BY <1>3, <1>12 DEF Expand, TakeJob, CommandEnds, local
  <2> QED
    BY <1>1, <1>6, <2>1 DEF Left
<1>13. CASE Launch(n)
  <2>1. line' = line /\ pc[n] = "launch" /\ pc'[n] \in {"clear", "command"}
    BY <1>3, <1>13 DEF Launch, local
  <2>2. line[n] <= K
    BY <1>2, <2>1
  <2> QED
    BY <1>1, <1>6, <2>1, <2>2 DEF Left
<1>14. CASE LineDone(n)
  <2>1. /\ pc[n] = "result"
        /\ pc'[n] = "clear" \/ (pc'[n] = "expand" /\ line'[n] = line[n] + 1)
    BY <1>2, <1>3, <1>14 DEF LineDone
  <2>2. line[n] <= K
    BY <1>2, <2>1
  <2> QED
    BY <1>1, <1>6, <2>1, <2>2 DEF Left
<1>15. CASE Clear(n)
  <2>1. pc[n] \in {"clear", "expand"} /\ pc'[n] = "release"
    BY <1>3, <1>15 DEF Clear
  <2> QED
    BY <1>1, <1>6, <2>1 DEF Left
<1>16. CASE Release(n)
  <2>1. pc[n] = "release" /\ pc'[n] = "returned"
    BY <1>3, <1>16 DEF Release
  <2> QED
    BY <2>1 DEF Left
<1> QED
  BY <1>7, <1>8, <1>9, <1>10, <1>11, <1>12, <1>13, <1>14, <1>15, <1>16 DEF RunOne

(* A step leaves nobody more, and somebody less, to do.                    *)
LEMMA LeftShrinks ==
  ASSUME PInv, [Next]_vars, vars' # vars
  PROVE  \E q \in Parents : Left(q)' < Left(q) /\
           \A p \in Parents : p = q \/ Left(p)' <= Left(p)
<1>0. TypeOK /\ InOrder /\ TInv /\ pc \in [Parents -> Stage]
  BY StageOfPc DEF PInv, TInv
<1>1. \A p \in Parents : Left(p) \in Nat /\ (pc[p] \in Commands => p # Main)
  BY LeftIsNatural, Numbers
<1>2. ASSUME NEW p \in Parents, Left(p)' = Left(p)
      PROVE  Left(p)' <= Left(p)
  BY <1>1, <1>2
<1>3. ASSUME NEW n \in Nodes, RunOne(n), ~Family(n), NEW x, Move(n, x)
      PROVE  \E q \in Parents : Left(q)' < Left(q) /\
               \A p \in Parents : p = q \/ Left(p)' <= Left(p)
  <2>1. n \in Parents /\ Left(n)' < Left(n)
    BY <1>3, LeftOfNode DEF Parents
  <2>2. ASSUME NEW p \in Parents, p # n
        PROVE  Left(p)' = Left(p)
    <3>1. pc'[p] = pc[p] /\ next'[p] = next[p] /\ seen'[p] = seen[p]
      BY <1>0, <1>3, <2>1, <2>2, MoveEffect DEF Move
    <3>2. p # Main => line'[p] = line[p]
      BY <1>0, <1>3, <2>2, NodeEffect DEF Parents
    <3> QED
      BY <1>1, <3>1, <3>2, LeftSame
  <2> QED
    BY <1>2, <2>1, <2>2
<1>4. CASE EndMain
  <2>1. Main \in Parents /\ pc[Main] \in {"children", "join"} /\ pc'[Main] = "returned"
    BY <1>0, <1>4, MainApart DEF EndMain, Joined, Goto
  <2>2. Left(Main)' < Left(Main)
    <3>1. Left(Main)' = 0
      BY <2>1 DEF Left
    <3>2. Left(Main) > 0
      BY <2>1, Numbers, ChildrenLeft DEF Left
    <3> QED
      BY <3>1, <3>2
  <2>3. ASSUME NEW p \in Parents, p # Main
        PROVE  Left(p)' = Left(p)
    <3>1. pc'[p] = pc[p] /\ next'[p] = next[p] /\ seen'[p] = seen[p] /\ line' = line
      BY <1>0, <1>4, <2>1, <2>3, MoveEffect, MainMoves DEF EndMain
    <3> QED
      BY <1>1, <3>1, LeftSame
  <2> QED
    BY <1>2, <2>1, <2>2, <2>3
<1>5. ASSUME NEW n \in Parents, SpawnChild(n)
      PROVE  \E q \in Parents : Left(q)' < Left(q) /\
               \A p \in Parents : p = q \/ Left(p)' <= Left(p)
  <2>1. PICK c : c = Children[n][next[n] + 1]
    OBVIOUS
  <2>2. /\ c \in Parents /\ c # n /\ pc[c] = "off" /\ pc'[c] = "check"
        /\ next'[n] = next[n] + 1 /\ next[n] < Len(Children[n])
        /\ \A p \in Parents \ {c} : pc'[p] = pc[p]
        /\ \A p \in Parents \ {n} : next'[p] = next[p]
        /\ pc[n] = "children" /\ seen' = seen /\ line' = line
    BY <1>0, <1>5, <2>1, SpawnEffect DEF SpawnChild
  <2>3. Left(c)' < Left(c)
    <3>1. WithChildren(c)' = WithChildren(c)
      BY <2>2 DEF WithChildren, LinesOfGoal
    <3>2. WithChildren(c) \in Int
      BY <2>2, ChildrenLeft
    <3> QED
      BY <2>2, <3>1, <3>2 DEF Left
  <2>4. Left(n)' <= Left(n)
    <3>0. /\ LinesOfGoal(n) \in Nat /\ LinesOfGoal(n)' = LinesOfGoal(n)
          /\ next[n] \in Nat /\ seen[n] \in Nat /\ Len(Children[n]) \in Nat
      BY Numbers DEF LinesOfGoal
    <3>1. WithChildren(n)' = WithChildren(n) - 1
      BY <2>2, <3>0, SMTT(20) DEF WithChildren
    <3>2. WithChildren(n) \in Int
      BY ChildrenLeft
    <3> QED
      BY <2>2, <3>1, <3>2 DEF Left
  <2>5. ASSUME NEW p \in Parents, p # n, p # c
        PROVE  Left(p)' = Left(p)
    BY <1>1, <2>2, <2>5, LeftSame
  <2> QED
    BY <1>2, <2>2, <2>3, <2>4, <2>5
<1>6. ASSUME NEW n \in Parents, TakeResult(n)
      PROVE  \E q \in Parents : Left(q)' < Left(q) /\
               \A p \in Parents : p = q \/ Left(p)' <= Left(p)
  <2>1. /\ pc[n] = "children" /\ pc'[n] \in {"children", "join"}
        /\ seen[n] < next[n] /\ seen'[n] = seen[n] + 1 /\ next' = next /\ line' = line
        /\ \A p \in Parents \ {n} : pc'[p] = pc[p] /\ seen'[p] = seen[p]
    BY <1>0, <1>6, TakeEffect DEF TakeResult
  <2>2. Left(n)' < Left(n)
    <3> DEFINE K == LinesOfGoal(n)
               L == Len(Children[n])
    <3>1. /\ K \in Nat /\ next[n] \in Nat /\ seen[n] \in Nat /\ L \in Nat
          /\ seen[n] < next[n] /\ next[n] <= L
          /\ seen'[n] = seen[n] + 1 /\ next'[n] = next[n] /\ LinesOfGoal(n)' = K
      BY <2>1, Numbers DEF LinesOfGoal
    <3>2. /\ WithChildren(n) = 5 + 5 * K + (L - next[n]) + (L - seen[n])
          /\ WithChildren(n)' = 5 + 5 * K + (L - next[n]) + (L - (seen[n] + 1))
      BY <3>1 DEF WithChildren
    <3> HIDE DEF K, L
    <3>3. Left(n)' \in {4 + 5 * K, 5 + 5 * K + (L - next[n]) + (L - (seen[n] + 1))}
      BY <2>1, <3>1, <3>2 DEF Left
    <3>4. Left(n) = 5 + 5 * K + (L - next[n]) + (L - seen[n])
      BY <2>1, <3>2 DEF Left
    <3> QED
      BY <3>1, <3>3, <3>4
  <2>3. ASSUME NEW p \in Parents, p # n
        PROVE  Left(p)' = Left(p)
    BY <1>1, <2>1, <2>3, LeftSame
  <2> QED
    BY <1>2, <2>2, <2>3
<1> QED
  BY <1>3, <1>4, <1>5, <1>6, StepKinds

(* The pairs of Work are finitely many, and fewer after a step.            *)
LEMMA WorkFinite ==
  ASSUME PInv
  PROVE  IsFiniteSet(Work) /\ Cardinality(Work) \in Nat
<1> DEFINE W(p) == {p} \X (1 .. Left(p))
           w == [p \in Parents |-> W(p)]
<1>1. IsFiniteSet(Parents)
  BY TreeAssumption, FS_AddElement DEF Parents
<1>2. ASSUME NEW p \in Parents
      PROVE  IsFiniteSet(W(p))
  <2>0. Left(p) \in Int
    BY LeftIsNatural
  <2>1. IsFiniteSet(1 .. Left(p))
    BY <2>0, FS_Interval
  <2>2. IsFiniteSet({p})
    BY FS_Singleton
  <2> QED
    BY <2>1, <2>2, FS_Product
<1>3. {W(p) : p \in Parents} = ImageOf(w, Parents)
  BY DEF ImageOf
<1>4. IsFiniteSet({W(p) : p \in Parents})
  BY <1>1, <1>3, ImageFinite
<1>5. IsFiniteSet(UNION {W(p) : p \in Parents})
  BY <1>2, <1>4, FS_UNION
<1> QED
  BY <1>5, FS_CardinalityType DEF Work

LEMMA WorkStep ==
  ASSUME PInv, PInv', [Next]_vars
  PROVE  [Cardinality(Work') < Cardinality(Work)]_vars
<1> SUFFICES ASSUME vars' # vars
             PROVE  Cardinality(Work') < Cardinality(Work)
  OBVIOUS
<1>1. PICK q \in Parents : Left(q)' < Left(q) /\
        \A p \in Parents : p = q \/ Left(p)' <= Left(p)
  BY LeftShrinks
<1>2. \A p \in Parents : Left(p) \in Nat /\ Left(p)' \in Nat /\ Left(p)' <= Left(p)
  <2>1. \A p \in Parents : Left(p) \in Nat
    BY LeftIsNatural
  <2>2. \A p \in Parents : Left(p)' \in Nat
    BY LeftsNaturalNext
  <2> QED
    BY <1>1, <2>1, <2>2
<1>3. Work' \subseteq Work
  <2>1. \A p \in Parents : (1 .. Left(p)') \subseteq (1 .. Left(p))
    BY <1>2
  <2> QED
    BY <2>1 DEF Work
<1>4. <<q, Left(q)>> \in Work /\ <<q, Left(q)>> \notin Work'
  <2>1. Left(q) \in 1 .. Left(q) /\ Left(q) \notin 1 .. Left(q)'
    BY <1>1, <1>2
  <2> QED
    BY <2>1 DEF Work
<1> QED
  BY <1>3, <1>4, WorkFinite, FS_Subset, FS_CardinalityType

(* Each step of a make leaves less to do, so that it has finitely many,    *)
(* however the threads interleave and whatever its commands return.        *)
THEOREM Shrinks == Spec => WorkShrinks
<1>1. PInv /\ PInv' /\ [Next]_vars => [Cardinality(Work') < Cardinality(Work)]_vars
  BY WorkStep
<1> QED
  BY <1>1, ProgressHolds, PTL DEF Spec, WorkShrinks

(* RunCommands does not return before all its threads have.                *)
THEOREM AllGone == Spec => []NoneRunning
<1>1. TInv => NoneRunning
  BY NobodyLeft DEF NoneRunning, Active
<1> QED
  BY <1>1, ThreadsHold, PTL

(* The jobs in use are those that were there when the last one was taken,   *)
(* or fewer.                                                               *)
FewJobs == Cardinality(running) <= MaxJobs + 1

LEMMA JobsOfMake ==
  ASSUME NEW S \in SUBSET Nodes, S # {}
  PROVE  Slots!Committed(S) = Cardinality(S) - 1
<1>1. {[n \in Nodes |-> Main][t] : t \in S} = {Main}
  OBVIOUS
<1>2. Cardinality({Main}) = 1
  BY FS_Singleton
<1>3. \A T : Slots!Cardinality(T) = Cardinality(T)
  BY DEF Slots!Cardinality, Cardinality
<1> QED
  BY <1>1, <1>2, <1>3 DEF Slots!Committed

LEMMA FewJobsStep == TInv /\ FewJobs /\ [Next]_vars => FewJobs'
<1> SUFFICES ASSUME TInv, FewJobs, [Next]_vars PROVE FewJobs'
  OBVIOUS
<1>1. running \subseteq Nodes /\ IsFiniteSet(running) /\ Cardinality(running) \in Nat
  BY TreeAssumption, FS_Subset, FS_CardinalityType DEF TInv, TypeOK
<1>2. ASSUME NEW n \in Nodes, running' = running \ {n}
      PROVE  FewJobs'
  <2>1. Cardinality(running') <= Cardinality(running) /\ Cardinality(running') \in Nat
    BY <1>1, <1>2, FS_Subset, FS_CardinalityType
  <2> QED
    BY <1>1, <2>1, OptionsAssumption DEF FewJobs
<1>3. CASE UNCHANGED running
  BY <1>3 DEF FewJobs
<1>4. ASSUME NEW n \in Nodes, RunOne(n)
      PROVE  FewJobs'
  <2>1. CASE TakeJob(n)
    <3>1. running' = running \cup {n} /\ Slots!Committed(running \cup {n}) <= MaxJobs
      BY <2>1 DEF TakeJob, Slots!Start
    <3>2. running' \subseteq Nodes /\ IsFiniteSet(running')
      BY <1>1, <3>1, TreeAssumption, FS_Subset
    <3>3. Cardinality(running') \in Nat /\ Cardinality(running') - 1 <= MaxJobs
      BY <3>1, <3>2, JobsOfMake, FS_CardinalityType
    <3> QED
      BY <3>3, OptionsAssumption DEF FewJobs
  <2>2. CASE Launch(n) \/ CommandEnds(n)
    BY <1>2, <1>3, <2>2 DEF Launch, CommandEnds, Slots!Finish
  <2>3. CASE ~(TakeJob(n) \/ Launch(n) \/ CommandEnds(n))
    BY <1>3, <1>4, <2>3
       DEF RunOne, Check, Wait, SetBuilt, Family, SpawnChild, TakeResult, Stopped,
           NoCommands, StartCommands, Expand, LineDone, Clear, Release, shared
  <2> QED
    BY <2>1, <2>2, <2>3
<1>5. CASE RunCommands
  BY <1>3, <1>5 DEF RunCommands, Family, SpawnChild, TakeResult, EndMain, shared
<1> QED
  BY <1>3, <1>4, <1>5 DEF Next, Over, vars, shared

(* The commands that run are as many as the job server allows, and no job  *)
(* is left with a make that has ended.                                     *)
THEOREM GivesJobsBack == Spec => []JobsKept
<1>1. Init => FewJobs
  BY OptionsAssumption, FS_EmptySet DEF Init, Slots!Init, FewJobs
<1>2. PInv /\ FewJobs /\ NoneRunning => JobsKept
  <2> SUFFICES ASSUME PInv, FewJobs, NoneRunning PROVE JobsKept
    OBVIOUS
  <2>1. running \subseteq Nodes /\ IsFiniteSet(running) /\ Cardinality(running) \in Nat
    BY TreeAssumption, FS_Subset, FS_CardinalityType DEF PInv, TInv, TypeOK
  <2>2. RunningCommands \subseteq running
    BY DEF RunningCommands, PInv, JobsInUse
  <2>3. Cardinality(RunningCommands) \in Nat
        /\ Cardinality(RunningCommands) <= Cardinality(running)
    BY <2>1, <2>2, FS_Subset, FS_CardinalityType
  <2>4. ASSUME pc[Main] = "returned" PROVE running = {}
    BY <2>1, <2>4 DEF NoneRunning, PInv, JobsInUse
  <2> QED
    BY <2>1, <2>3, <2>4, OptionsAssumption DEF JobsKept, FewJobs
<1> QED
  BY <1>1, <1>2, FewJobsStep, ThreadsHold, ProgressHolds, AllGone, PTL DEF Spec

-----------------------------------------------------------------------------
(* With -j 1.                                                              *)

(* Who finds isBuilt set is the only thread that steps.  If a builder of   *)
(* its goal had not returned, that builder would have to wait for it, and  *)
(* the goal would need itself.                                             *)
LEMMA BuilderIsDone ==
  ASSUME PInv, OneByOne, OneJob, NEW n \in Nodes, pc[n] = "check", Tip(n),
         NEW b \in Builders(GoalOf[n])
  PROVE  pc[b] = "returned"
<1> SUFFICES ASSUME pc[b] # "returned" PROVE FALSE
  OBVIOUS
<1>1. b \in Nodes /\ GoalOf[b] = GoalOf[n] /\ Active(b) /\ b # n
  BY DEF Builders, Active
<1>2. PICK k \in Nodes : Active(k) /\
        \A m \in Nodes : Active(m) /\ GoalOf[m] = GoalOf[k] => Tip(m)
  BY <1>1, LowestGoal DEF PInv
<1>3. k = n
  BY <1>2 DEF OneByOne, Parents
<1>4. Tip(b)
  BY <1>1, <1>2, <1>3
<1> QED
  BY <1>1, <1>4 DEF OneByOne, Parents

LEMMA SettledStep ==
  ASSUME PInv, OneByOne, Settled, [Next]_vars
  PROVE  Settled'
<1>0. OneJob' = OneJob
  BY DEF Next, RunOne, RunCommands, Over, vars, OneJob
<1>1. SUFFICES ASSUME OneJob, NEW m \in Nodes, pc'[m] \in {"wait", "waited"}
               PROVE  \E b \in Builders(GoalOf[m])' : pc'[b] = "returned"
  BY <1>0 DEF Settled
<1>2. SUFFICES \E b \in Builders(GoalOf[m]) : pc[b] = "returned"
  BY TreeAssumption, BuildersStay DEF PInv
<1>3. CASE pc[m] \in {"wait", "waited"}
  BY <1>1, <1>3 DEF Settled
<1>4. CASE pc[m] \notin {"wait", "waited"}
  <2>1. RunOne(m) /\ ~Family(m)
    BY <1>1, <1>4, NodeSteps, NodeEffect DEF PInv
  <2>2. PICK x : Move(m, x)
    BY <2>1, NodeMoves
  <2>3. m \in Parents /\ Tip(m) /\ pc'[m] = x
    BY <2>2, MoverIsTip, MoveEffect, StageOfPc DEF PInv, TInv, Parents
  <2>4. pc[m] = "check"
    BY <1>1, <1>4, <2>2, <2>3 DEF Move, Edge, Commands
  <2>5. isBuilt[GoalOf[m]]
    BY <1>1, <1>4, <2>1, BuiltEffect DEF PInv
  <2>6. PICK b \in Builders(GoalOf[m]) : TRUE
    BY <2>5, TreeAssumption DEF PInv, SomeoneBuilds
  <2> QED
    BY <1>1, <2>3, <2>4, <2>6, BuilderIsDone
<1> QED
  BY <1>3, <1>4

LEMMA SettledHolds == Spec => []Settled
<1>1. Init => Settled
  BY MainApart DEF Init, Settled, Parents
<1>2. PInv /\ OneInv /\ Settled /\ [Next]_vars => Settled'
  BY SettledStep DEF OneInv
<1> QED
  BY <1>1, <1>2, ProgressHolds, OneAtATime, PTL DEF Spec

(* With -j 1 no target's commands run before its prerequisites have been   *)
(* built, on POSIX as well, where onHold is open from the start: the       *)
(* builder of a shared goal returns before another thread looks at it.     *)
THEOREM PrerequisitesInOrder == Spec => [](OneJob => PrerequisitesBuilt)
<1>1. TInv /\ Settled => (OneJob => PrerequisitesBuilt)
  <2>1. Settled /\ OneJob => Awaited
    BY DEF Settled, Awaited
  <2> QED
    BY <2>1, BuiltBefore
<1> QED
  BY <1>1, ThreadsHold, SettledHolds, PTL

(* With -j 1 one command of the make runs at a time, although each node    *)
(* has a thread, and although the job server would let a second one run.   *)
THEOREM CommandByCommand == Spec => []OneCommand
<1>1. PInv /\ OneByOne => OneCommand
  <2> SUFFICES ASSUME PInv, OneByOne, OneJob PROVE Cardinality(running) <= 1
    BY DEF OneCommand
  <2>1. ASSUME NEW m \in running
        PROVE  m \in Parents /\ Tip(m)
    <3>1. m \in Nodes /\ m \in Parents /\ pc[m] \in {"launch", "command"}
      BY DEF PInv, TInv, TypeOK, JobsInUse, Parents
    <3>2. Active(m) /\ pc[m] \notin {"children", "join"}
      BY <3>1 DEF Active
    <3> QED
      BY <3>1, <3>2, BusyIsTip DEF PInv
  <2>2. CASE running = {}
    BY <2>2, FS_EmptySet
  <2>3. CASE running # {}
    <3>1. PICK m : running = {m}
      BY <2>1, <2>3 DEF OneByOne
    <3>2. Cardinality({m}) = 1
      BY FS_Singleton
    <3> QED
      BY <3>1, <3>2
  <2> QED
    BY <2>2, <2>3
<1> QED
  BY <1>1, ProgressHolds, OneAtATime, PTL DEF OneInv

-----------------------------------------------------------------------------
LEMMA SuccessIsComplete ==
  ASSUME TInv, Failures, FailureReported, Awaited
  PROVE  SuccessMeansBuilt
<1> SUFFICES ASSUME pc[Main] = "returned", rv[Main] = 0,
                    NEW p \in Parents, pc[p] = "returned", NEW g \in ChildGoals(p)
             PROVE  \E m \in Builders(g) : pc[m] = "returned" /\ rv[m] = 0
  BY DEF SuccessMeansBuilt
<1>1. \A n \in Nodes : pc[n] = "returned" => rv[n] = 0
  BY DEF FailureReported
<1>2. rv[p] = 0
  BY <1>1 DEF Parents
<1>3. ~stop[p]
  BY <1>2 DEF Failures
<1>4. seen[p] = Len(Children[p])
  BY <1>3 DEF TInv, Stages
<1>5. PICK i \in 1 .. Len(Children[p]) : g = GoalOf[Children[p][i]]
  BY DEF ChildGoals
<1>6. Children[p][i] \in Nodes /\ Finished(Children[p][i])
  BY <1>4, <1>5, ChildIsNode DEF TInv, InOrder
<1>7. CASE pc[Children[p][i]] = "returned"
  BY <1>1, <1>5, <1>6, <1>7 DEF Builders
<1>8. CASE pc[Children[p][i]] = "waited"
  <2>1. PICK m \in Builders(g) : pc[m] = "returned"
    BY <1>5, <1>6, <1>8 DEF Awaited
  <2> QED
    BY <1>1, <2>1 DEF Builders
<1> QED
  BY <1>6, <1>7, <1>8 DEF Finished

(* Exit status 0 means that the goals of the make have been built, and     *)
(* everything that was needed on the way, all without a failure: nothing   *)
(* was left out because a sibling had failed, or since another thread      *)
(* should have built it and did not.                                       *)
THEOREM Success ==
  ASSUME OptionsStop, Outcomes \subseteq Nat
  PROVE  Spec => []SuccessMeansBuilt
<1>1. TInv /\ HoldReleased /\ Failures /\ FailureReported /\ Settled => SuccessMeansBuilt
  <2>1. HoldReleased /\ Windows => Awaited
    BY WindowsAwaits
  <2>2. Settled /\ OneJob => Awaited
    BY DEF Settled, Awaited
  <2>3. ~(Windows \/ OneJob) => SuccessMeansBuilt
    BY DEF SuccessMeansBuilt
  <2> QED
    BY <2>1, <2>2, <2>3, SuccessIsComplete
<1>2. PInv => HoldReleased
  BY DEF PInv
<1> QED
  BY <1>1, <1>2, ThreadsHold, ProgressHolds, FailuresHold, Reports, SettledHolds, PTL

=============================================================================
