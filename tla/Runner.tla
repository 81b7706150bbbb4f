------------------------------- MODULE Runner -------------------------------
(***************************************************************************)
(* How JWmake runs the commands of a dependency tree: Maker::RunCommands,  *)
(* Runner::RunOne and Spawner::InternalRun, with the job slots of JobSlots.*)
(*                                                                         *)
(* Each node of the tree of Depends is run by a thread of its own.  Two    *)
(* nodes may stand for the same goal (a prerequisite of two targets): they *)
(* share the goal's RuleList, whose isBuilt flag and onHold semaphore are  *)
(* to see to it that one of them runs the commands and the other waits.    *)
(* All threads share Spawner::stopAll, Eval::ruleStack and the job server. *)
(*                                                                         *)
(* Left out: what the commands say and print, the touching and deleting of *)
(* files, .ONESHELL, and target lists that mix plain names and % patterns: *)
(* a plain name of such a list is related to the whole list, itself        *)
(* included, and RuleList::SetBuilt calls itself for it without an end.    *)
(* A goal has Lines[g] command lines and each returns one of Outcomes.     *)
(***************************************************************************)
EXTENDS Integers, Sequences, FiniteSets

CONSTANTS
  Nodes,       \* the Depends of the tree
  Main,        \* Maker::RunCommands, the parent of the top goals
  NoNode,      \* nobody
  Goals,       \* the RuleLists
  GoalOf,      \* the RuleList of a node
  Children,    \* the prerequisites of a node, and the top goals of Main
  Lines,       \* the number of command lines of a goal, 0 for none
  Ignored,     \* the lines <<g, i>> that are marked with '-'
  Outcomes,    \* what a command line may return
  Options,     \* the option records the make may be run with
  MaxJobs,     \* the jobs of the job server, this make's or its parent's
  Windows,     \* the build for Windows, or the one for POSIX
  HoldUnits    \* 60000 in the code: the argument of onHold and of Release

Parents == Nodes \cup {Main}

ASSUME TreeAssumption ==
  /\ IsFiniteSet(Nodes)
  /\ Main \notin Nodes
  /\ NoNode \notin Nodes
  /\ GoalOf \in [Nodes -> Goals]
  /\ Children \in [Parents -> Seq(Nodes)]

(* The subgoals are unique_ptrs: a node is in one list, once, and each set  *)
(* of nodes has a member whose parent is not in it (no node is its own     *)
(* descendant, and none is without a parent).                              *)
ASSUME OwnershipAssumption ==
  /\ \A p, q \in Parents : \A i \in DOMAIN Children[p], j \in DOMAIN Children[q] :
       Children[p][i] = Children[q][j] => p = q /\ i = j
  /\ \A S \in SUBSET Nodes : S # {} =>
       \E p \in Parents \ S : \E i \in DOMAIN Children[p] : Children[p][i] \in S

(* No goal needs itself: of every set of goals one has no prerequisite in  *)
(* it.  Maker::Dependencies walks the prerequisites of a goal wherever it  *)
(* meets the goal, so that a circle nests until it is refused (line 165).  *)
ASSUME CircleAssumption ==
  \A S \in SUBSET Goals : S # {} =>
    \E g \in S : \A n \in Nodes : GoalOf[n] = g =>
      \A i \in DOMAIN Children[n] : GoalOf[Children[n][i]] \notin S

ASSUME OptionsAssumption ==
  /\ Lines \in [Goals -> Nat]
  /\ Outcomes \subseteq Int /\ Outcomes # {}
  /\ Options \subseteq [oneJob : BOOLEAN, keepGoing : BOOLEAN, posix : BOOLEAN]
  /\ MaxJobs \in Nat \ {0}
  /\ Windows \in BOOLEAN

(* Each goal is waited for by fewer threads than Release lets through.     *)
ASSUME HoldAssumption == HoldUnits \in Nat /\ Cardinality(Nodes) <= HoldUnits

VARIABLES
  options,     \* oneJob: -j 1; keepGoing: -k; posix: the makefile has .POSIX
  pc,          \* pc[n]: what the thread of n does next
  next,        \* next[n]: how many of its children n has started
  seen,        \* seen[n]: how many of their results it has taken
  rv,          \* rv[n]: its rv; its return value once it is finished
  stop,        \* stop[n]: its stop flag
  line,        \* line[n]: the command line it is at, 1 when it is at none
  last,        \* last[n]: what that line returned, until it is dealt with
  isBuilt,     \* RuleList::isBuilt
  onHold,      \* the count of RuleList::onHold
  stopAll,     \* Spawner::stopAll
  ruleStack,   \* the node whose rule stack Eval::ruleStack is, or NoNode
  running      \* the nodes that have a job of the job server

local == <<next, seen, rv, stop, line, last>>
shared == <<isBuilt, onHold, stopAll, ruleStack, running>>
vars == <<pc, local, shared, options>>

Slots == INSTANCE JobSlots
  WITH Threads <- Nodes, ProcOf <- [n \in Nodes |-> Main]

(* Semaphore(60000) starts at 0 on Windows and at 60000 elsewhere.         *)
Init ==
  /\ pc = [n \in Parents |-> IF n = Main THEN "children" ELSE "off"]
  /\ next = [n \in Parents |-> 0]
  /\ seen = [n \in Parents |-> 0]
  /\ rv = [n \in Parents |-> 0]
  /\ stop = [n \in Parents |-> FALSE]
  /\ line = [n \in Nodes |-> 1]
  /\ last = [n \in Nodes |-> 0]
  /\ isBuilt = [g \in Goals |-> FALSE]
  /\ onHold = [g \in Goals |-> IF Windows THEN 0 ELSE HoldUnits]
  /\ stopAll = FALSE
  /\ ruleStack = NoNode
  /\ Slots!Init
  /\ options \in Options

-----------------------------------------------------------------------------
OneJob    == options.oneJob
KeepGoing == options.keepGoing
Posix     == options.posix

Goto(n, to) == pc' = [pc EXCEPT ![n] = to]

Finished(n) == pc[n] \in {"returned", "waited"}

(* if (rl->IsBuilt()): a plain bool, tested before it is set.              *)
Check(n) ==
  /\ pc[n] = "check"
  /\ Goto(n, IF isBuilt[GoalOf[n]] THEN "wait" ELSE "set")
  /\ UNCHANGED <<local, shared>>

(* Faulty: the thread does not wait, or the semaphore does not block.      *)
WaitUnguarded(n) ==
  /\ pc[n] = "wait"
  /\ onHold' = [onHold EXCEPT ![GoalOf[n]] = @ - 1]
  /\ Goto(n, "waited")
  /\ UNCHANGED <<local, isBuilt, stopAll, ruleStack, running>>

(* rl->Wait(); return 0;                                                   *)
Wait(n) ==
  /\ pc[n] = "wait"
  /\ onHold[GoalOf[n]] > 0
  /\ onHold' = [onHold EXCEPT ![GoalOf[n]] = @ - 1]
  /\ Goto(n, "waited")
  /\ UNCHANGED <<local, isBuilt, stopAll, ruleStack, running>>

(* Faulty: the goal is not marked.                                         *)
SetBuiltForgotten(n) ==
  /\ pc[n] = "set"
  /\ Goto(n, "children")
  /\ UNCHANGED <<local, shared>>

(* rl->SetBuilt(), for a goal without related rules.                        *)
SetBuilt(n) ==
  /\ pc[n] = "set"
  /\ isBuilt' = [isBuilt EXCEPT ![GoalOf[n]] = TRUE]
  /\ Goto(n, "children")
  /\ UNCHANGED <<local, onHold, stopAll, ruleStack, running>>

(* The next child gets its thread; with -j 1 when the results of those     *)
(* before it have been taken.                                              *)
SpawnChild(n) ==
  /\ pc[n] = "children"
  /\ next[n] < Len(Children[n])
  /\ OneJob => seen[n] = next[n]
  /\ pc' = [pc EXCEPT ![Children[n][next[n] + 1]] = "check"]
  /\ next' = [next EXCEPT ![n] = @ + 1]
  /\ UNCHANGED <<seen, rv, stop, line, last, shared>>

(* A result can be taken: when all children have their threads, or with    *)
(* -j 1 after each.                                                        *)
ResultReady(n) ==
  /\ pc[n] = "children"
  /\ seen[n] < next[n]
  /\ OneJob \/ next[n] = Len(Children[n])
  /\ Finished(Children[n][seen[n] + 1])

(* Faulty: a failed child stops nothing.                                   *)
TakeResultIgnored(n) ==
  /\ ResultReady(n)
  /\ rv' = [rv EXCEPT ![n] = IF @ = 0 THEN rv[Children[n][seen[n] + 1]] ELSE @]
  /\ seen' = [seen EXCEPT ![n] = @ + 1]
  /\ UNCHANGED <<pc, next, stop, line, last, shared>>

(* A child's result: rv takes the first that is not 0 unless it is         *)
(* positive already.  A positive rv stops n, at once without -k; but with  *)
(* -k and -j 1 RunOne, unlike RunCommands, leaves stop as it is.           *)
TakeResult(n) ==
  LET result == rv[Children[n][seen[n] + 1]]
      new    == IF rv[n] <= 0 /\ result # 0 THEN result ELSE rv[n]
      failed == new > 0
  IN
  /\ ResultReady(n)
  /\ rv' = [rv EXCEPT ![n] = new]
  /\ seen' = [seen EXCEPT ![n] = @ + 1]
  /\ stop' = [stop EXCEPT ![n] =
                @ \/ (failed /\ (~KeepGoing \/ ~OneJob \/ n = Main))]
  /\ stopAll' = (stopAll \/ (failed /\ ~KeepGoing))
  /\ Goto(n, IF failed /\ ~KeepGoing THEN "join" ELSE "children")
  /\ UNCHANGED <<next, line, last, isBuilt, onHold, ruleStack, running>>

-----------------------------------------------------------------------------
(* All results are taken, or the loop was left, and the threads are joined. *)
Joined(n) ==
  /\ \/ pc[n] = "join"
     \/ pc[n] = "children" /\ seen[n] = Len(Children[n])
  /\ \A i \in 1 .. next[n] : Finished(Children[n][i])

(* RunCommands is at its end.                                              *)
EndMain ==
  /\ Joined(Main)
  /\ rv' = [rv EXCEPT ![Main] = IF stop[Main] THEN 2 ELSE @]
  /\ Goto(Main, "returned")
  /\ UNCHANGED <<next, seen, stop, line, last, shared>>

(* Faulty: RunOne returns 0 when it has stopped.                           *)
StoppedQuietly(n) ==
  /\ n # Main /\ Joined(n) /\ stop[n]
  /\ rv' = [rv EXCEPT ![n] = 0]
  /\ Goto(n, "release")
  /\ UNCHANGED <<next, seen, stop, line, last, shared>>

(* if (stop): the goal's commands do not run and RunOne returns 1.         *)
Stopped(n) ==
  /\ n # Main /\ Joined(n) /\ stop[n]
  /\ rv' = [rv EXCEPT ![n] = 1]
  /\ Goto(n, "release")
  /\ UNCHANGED <<next, seen, stop, line, last, shared>>

(* A goal without commands: rv = 0.                                        *)
NoCommands(n) ==
  /\ n # Main /\ Joined(n) /\ ~stop[n] /\ Lines[GoalOf[n]] = 0
  /\ rv' = [rv EXCEPT ![n] = 0]
  /\ Goto(n, "release")
  /\ UNCHANGED <<next, seen, stop, line, last, shared>>

(* Faulty: Eval::SetRuleStack is not called.                               *)
StartCommandsUnset(n) ==
  /\ n # Main /\ Joined(n) /\ ~stop[n] /\ Lines[GoalOf[n]] > 0
  /\ rv' = [rv EXCEPT ![n] = 0]
  /\ Goto(n, "expand")
  /\ UNCHANGED <<next, seen, stop, line, last, shared>>

(* Eval::SetRuleStack, and the loop of InternalRun starts with rv = 0.     *)
StartCommands(n) ==
  /\ n # Main /\ Joined(n) /\ ~stop[n] /\ Lines[GoalOf[n]] > 0
  /\ rv' = [rv EXCEPT ![n] = 0]
  /\ ruleStack' = n
  /\ Goto(n, "expand")
  /\ UNCHANGED <<next, seen, stop, line, last, isBuilt, onHold, stopAll, running>>

(* A line is expanded with Eval::ruleStack; Run returns if stopAll is set. *)
Expand(n) ==
  /\ pc[n] = "expand"
  /\ line[n] <= Lines[GoalOf[n]]
  /\ rv[n] = 0 \/ ~Posix
  /\ Goto(n, IF stopAll THEN "clear" ELSE "slot")
  /\ UNCHANGED <<local, shared>>

(* OSTakeJobIfNotMake: OS::TakeJob.                                        *)
TakeJob(n) ==
  /\ pc[n] = "slot"
  /\ Slots!Start(n)
  /\ Goto(n, "launch")
  /\ UNCHANGED <<local, isBuilt, onHold, stopAll, ruleStack>>

(* if (!stopAll): the command is spawned, else the job is given back.      *)
Launch(n) ==
  /\ pc[n] = "launch"
  /\ IF stopAll
     THEN Slots!Finish(n) /\ Goto(n, "clear")
     ELSE Goto(n, "command") /\ UNCHANGED running
  /\ UNCHANGED <<local, isBuilt, onHold, stopAll, ruleStack>>

(* OS::Spawn returns and ~OSTakeJobIfNotMake gives the job back.           *)
CommandEnds(n) ==
  /\ pc[n] = "command"
  /\ \E o \in Outcomes : last' = [last EXCEPT ![n] = o]
  /\ Slots!Finish(n)
  /\ Goto(n, "result")
  /\ UNCHANGED <<next, seen, rv, stop, line, isBuilt, onHold, stopAll, ruleStack>>

(* if (stopAll) break;, or the result counts: the first that is not 0,     *)
(* and none at all after a line marked '-'.                                *)
LineDone(n) ==
  LET ignore == <<GoalOf[n], line[n]>> \in Ignored IN
  /\ pc[n] = "result"
  /\ IF stopAll
     THEN Goto(n, "clear") /\ UNCHANGED <<rv, line>>
     ELSE /\ rv' = [rv EXCEPT ![n] =
                      IF ignore THEN 0 ELSE IF @ = 0 THEN last[n] ELSE @]
          /\ line' = [line EXCEPT ![n] = @ + 1]
          /\ Goto(n, "expand")
  /\ last' = [last EXCEPT ![n] = 0]
  /\ UNCHANGED <<next, seen, stop, shared>>

(* The lines are done or left; Eval::ClearRuleStack.                       *)
Clear(n) ==
  /\ \/ pc[n] = "clear"
     \/ pc[n] = "expand" /\ (line[n] > Lines[GoalOf[n]] \/ (rv[n] # 0 /\ Posix))
  /\ ruleStack' = NoNode
  /\ line' = [line EXCEPT ![n] = 1]
  /\ Goto(n, "release")
  /\ UNCHANGED <<next, seen, rv, stop, last, isBuilt, onHold, stopAll, running>>

(* Faulty: the waiting threads are not released.                           *)
ReleaseForgotten(n) ==
  /\ pc[n] = "release"
  /\ Goto(n, "returned")
  /\ UNCHANGED <<local, shared>>

(* rl->Release(), Post(60000), and the promise is kept.  ReleaseSemaphore  *)
(* fails when the count would exceed its maximum, 60000.                   *)
Release(n) ==
  LET g == GoalOf[n] IN
  /\ pc[n] = "release"
  /\ onHold' = [onHold EXCEPT ![g] =
                  IF Windows /\ @ > 0 THEN @ ELSE @ + HoldUnits]
  /\ Goto(n, "returned")
  /\ UNCHANGED <<local, isBuilt, stopAll, ruleStack, running>>

Family(n) == SpawnChild(n) \/ TakeResult(n)

RunOne(n) ==
  /\ \/ Check(n) \/ Wait(n) \/ SetBuilt(n) \/ Family(n)
     \/ Stopped(n) \/ NoCommands(n) \/ StartCommands(n)
     \/ Expand(n) \/ TakeJob(n) \/ Launch(n)
     \/ CommandEnds(n) \/ LineDone(n) \/ Clear(n) \/ Release(n)
  /\ UNCHANGED options

RunCommands == (Family(Main) \/ EndMain) /\ UNCHANGED options

(* The make is over.                                                       *)
Over == pc[Main] = "returned" /\ UNCHANGED vars

Next == (\E n \in Nodes : RunOne(n)) \/ RunCommands \/ Over

Spec == Init /\ [][Next]_vars

(* Every thread that can run is run, and every command ends.               *)
FairSpec == Spec /\ WF_vars(RunCommands) /\ \A n \in Nodes : WF_vars(RunOne(n))

-----------------------------------------------------------------------------
Commands == {"expand", "slot", "launch", "command", "result", "clear"}

TypeOK ==
  /\ pc \in [Parents -> {"off", "check", "wait", "set", "children", "join",
                         "release", "returned", "waited"} \cup Commands]
  /\ next \in [Parents -> Nat] /\ seen \in [Parents -> Nat]
  /\ rv \in [Parents -> Int] /\ stop \in [Parents -> BOOLEAN]
  /\ line \in [Nodes -> Nat] /\ last \in [Nodes -> Int]
  /\ isBuilt \in [Goals -> BOOLEAN] /\ onHold \in [Goals -> Nat]
  /\ stopAll \in BOOLEAN
  /\ ruleStack \in Nodes \cup {NoNode}
  /\ running \subseteq Nodes
  /\ options \in Options

(* The threads that found isBuilt false, and so build their goal.          *)
Builders(g) ==
  {n \in Nodes : GoalOf[n] = g /\ pc[n] \notin {"off", "check", "set", "wait", "waited"}}

ChildGoals(n) == {GoalOf[Children[n][i]] : i \in 1 .. Len(Children[n])}

(* With -j 1 a goal's commands are run by one thread only, however many    *)
(* targets have it as a prerequisite.  Nothing in RunOne sees to it when   *)
(* the threads run in parallel: isBuilt is tested and set in two steps.    *)
BuiltOnce == OneJob => \A g \in Goals : Cardinality(Builders(g)) <= 1

(* When a target's commands run, each of its prerequisites has been built: *)
(* a thread that built it has come to the end of RunOne.                   *)
PrerequisitesBuilt ==
  \A n \in Nodes : pc[n] \in Commands =>
    \A g \in ChildGoals(n) : \E m \in Builders(g) : pc[m] = "returned"

(* The commands of a target do not run when the build of a prerequisite    *)
(* that its own thread started has failed.  (When another thread builds    *)
(* it, RunOne returns 0 for it, failed or not.)                            *)
FailureStops ==
  \A n \in Nodes : pc[n] = "command" =>
    \A i \in 1 .. Len(Children[n]) :
      pc[Children[n][i]] = "returned" => rv[Children[n][i]] = 0

(* A make in which a target failed does not return success: RunOne's       *)
(* result reaches RunCommands through every level of the tree.             *)
FailureReported ==
  pc[Main] = "returned" /\ (\E n \in Nodes : pc[n] = "returned" /\ rv[n] # 0)
    => rv[Main] # 0

(* With -j 1 a line is expanded with the target-specific variables of its  *)
(* own goal: the rule stack in use is the one its thread has set.  In      *)
(* parallel the threads overwrite each other's.                            *)
OwnRuleStack == OneJob => \A n \in Nodes : pc[n] = "expand" => ruleStack = n

(* The make ends: no thread waits for ever for a prerequisite that another *)
(* builds, for a child or for a job, and none is left running.             *)
MakeEnds ==
  <>(pc[Main] = "returned" /\ \A n \in Nodes : pc[n] \in {"off", "returned", "waited"})

=============================================================================
