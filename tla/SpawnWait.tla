------------------------------ MODULE SpawnWait ------------------------------
(* OS::Spawn of JWmake: starting a command, collecting its output, waiting   *)
(* for it, in the threads of a make, and the stop that a failure brings      *)
(* (Spawner::Stop and OS::TerminateAll).  On Windows the pipe is read once,  *)
(* after the wait; on POSIX it is polled, and waitpid called when it has     *)
(* been empty for 100 ms.                                                    *)
EXTENDS Integers, Sequences, FiniteSets

CONSTANTS
  Threads,    \* sequence of the threads that one call of RunOne waits for
  Commands,   \* thread -> how many commands it runs
  Builds,     \* "windows", "posix"
  Codes,      \* what a command may exit with
  Outputs,    \* how much a command may write
  PipeSize,   \* how much a pipe holds
  ReadSize,   \* how much one read takes (1000 bytes)
  Handles,    \* values of process handles: a closed one may come again
  StopSignal  \* the number of the signal that stopped a command

ASSUME SpawnAssumption ==
  /\ \A i \in DOMAIN Threads : Commands[Threads[i]] \in Nat
  /\ PipeSize \in Nat \ {0} /\ ReadSize \in Nat \ {0}
  /\ Codes \subseteq Nat /\ Codes # {} /\ Outputs \subseteq Nat /\ StopSignal \in Nat \ {0}
  /\ Builds \subseteq {"windows", "posix"}

NoHandle == "none"
ASSUME HandleAssumption == NoHandle \notin Handles

VARIABLES
  build,       \* chosen once
  capture,     \* Windows: the output is wanted (output # nullptr)
  stopAll,     \* Spawner::stopAll
  waiter,      \* the thread in RunOne: what it does, whom it waits for, rv
  pc,          \* thread -> where it is
  left,        \* thread -> commands not yet begun
  result,      \* thread -> what OS::Spawn returned, or its variable status
  retVal,      \* thread -> Spawner::retVal
  child,       \* thread -> the process of its command; unread counts what the
               \* last look at its pipe left there
  pipe,        \* thread -> the pipe of OS::Spawn
  processIds,  \* the handles TerminateAll kills
  handles,     \* the open process handles
  startedLate, \* thread -> processes it started after stopAll was set
  leftOpen,    \* thread -> pipes that were open when OS::Spawn returned
  refused      \* thread -> commands whose file actions could not be set up

vars == <<build, capture, stopAll, waiter, pc, left, result, retVal, child, pipe,
          processIds, handles, startedLate, leftOpen, refused>>

ThreadSet == {Threads[i] : i \in DOMAIN Threads}

(* A call that waits for nobody has no threads and nothing to model.         *)
ASSUME ThreadsAssumption == Threads \in Seq(ThreadSet) /\ Threads # <<>>

Piped     == build = "posix" \/ capture
NoChild   == [state |-> "none", code |-> 0, handle |-> NoHandle,
              todo |-> 0, unread |-> 0]
NoPipe    == [open |-> FALSE, bytes |-> 0]
Least(a, b) == IF a < b THEN a ELSE b

Init ==
  /\ build \in Builds
  /\ capture \in (IF build = "windows" THEN BOOLEAN ELSE {TRUE})
  /\ stopAll = FALSE
  /\ waiter = [doing |-> "waiting", at |-> 1, rv |-> 0]
  /\ pc = [t \in ThreadSet |-> "next"]
  /\ left = [t \in ThreadSet |-> Commands[t]]
  /\ result = [t \in ThreadSet |-> 0]
  /\ retVal = [t \in ThreadSet |-> 0]
  /\ child = [t \in ThreadSet |-> NoChild]
  /\ pipe = [t \in ThreadSet |-> NoPipe]
  /\ processIds = {}
  /\ handles = {}
  /\ startedLate = [t \in ThreadSet |-> 0]
  /\ leftOpen = [t \in ThreadSet |-> 0]
  /\ refused = [t \in ThreadSet |-> 0]

Goto(t, there)  == pc' = [pc EXCEPT ![t] = there]
At(t, here)     == pc[t] = here

-----------------------------------------------------------------------------
(* The commands themselves.                                                  *)

Running(t) == child[t].state = "running"

(* Output goes to the pipe, where a full one blocks, or straight out.        *)
ChildWrites(t) ==
  /\ Running(t)
  /\ child[t].todo > 0
  /\ Piped => pipe[t].bytes < PipeSize
  /\ child' = [child EXCEPT ![t].todo = @ - 1]
  /\ pipe' = IF Piped THEN [pipe EXCEPT ![t].bytes = @ + 1] ELSE pipe
  /\ UNCHANGED <<build, capture, stopAll, waiter, pc, left, result, retVal, processIds, handles,
                 startedLate, leftOpen, refused>>

Ends(t, state, code) ==
  /\ Running(t)
  /\ child' = [child EXCEPT ![t].state = state, ![t].code = code]
  /\ UNCHANGED <<build, capture, stopAll, waiter, pc, left, result, retVal, pipe, processIds,
                 handles, startedLate, leftOpen, refused>>

ChildExits(t) == child[t].todo = 0 /\ \E code \in Codes : Ends(t, "exited", code)

(* A signal from elsewhere.                                                  *)
ChildKilled(t)  == build = "posix" /\ Ends(t, "killed", 0)
ChildStopped(t) == build = "posix" /\ Ends(t, "stopped", StopSignal)

-----------------------------------------------------------------------------
(* Spawner::Run for one command of a thread.                                 *)

(* Faulty: the flag is tested before the first command alone.                *)
StoppedAtFirst(t) == stopAll /\ left[t] = Commands[t]

(* The flag is tested before each command and after it.                      *)
Stopped(t) == stopAll

NextCommand(t) ==
  /\ At(t, "next")
  /\ IF left[t] > 0 /\ ~Stopped(t)
     THEN left' = [left EXCEPT ![t] = @ - 1] /\ Goto(t, "create")
     ELSE left' = left /\ Goto(t, "finished")
  /\ UNCHANGED <<build, capture, stopAll, waiter, result, retVal, child, pipe, processIds, handles,
                 startedLate, leftOpen, refused>>

(* CreatePipe and CreateProcess, as a program or with the shell; pipe and    *)
(* posix_spawn.                                                              *)
Create(t) ==
  /\ At(t, "create")
  /\ \E todo \in Outputs, h \in (IF build = "windows" THEN Handles \ handles ELSE {NoHandle}) :
       /\ child' = [child EXCEPT ![t] = [NoChild EXCEPT !.state = "running", !.handle = h, !.todo = todo]]
       /\ handles' = handles \cup ({h} \ {NoHandle})
  /\ pipe' = [pipe EXCEPT ![t] = [open |-> Piped, bytes |-> 0]]
  /\ startedLate' = [startedLate EXCEPT ![t] = IF stopAll THEN @ + 1 ELSE @]
  /\ Goto(t, IF build = "windows" THEN "insert" ELSE "poll")
  /\ UNCHANGED <<build, capture, stopAll, waiter, left, result, retVal, processIds, leftOpen,
                 refused>>

(* Faulty: the pipe stays open when there is no process.                     *)
PipeKept == [open |-> Piped, bytes |-> 0]

PipeAfterFailure == NoPipe

(* Neither CreateProcess works, or posix_spawn fails: the pipe is closed.     *)
CreateFails(t) ==
  /\ At(t, "create")
  /\ child' = [child EXCEPT ![t] = NoChild]
  /\ pipe' = [pipe EXCEPT ![t] = PipeAfterFailure]
  /\ result' = [result EXCEPT ![t] = -1]
  /\ Goto(t, "returned")
  /\ UNCHANGED <<build, capture, stopAll, waiter, left, retVal, processIds, handles, startedLate,
                 leftOpen, refused>>

(* posix_spawn_file_actions_adddup2 or _addclose fails after pipe(): an early *)
(* return, which leaves both ends of the pipe open.                          *)
ActionsFail(t) ==
  /\ At(t, "create")
  /\ build = "posix"
  /\ child' = [child EXCEPT ![t] = NoChild]
  /\ pipe' = [pipe EXCEPT ![t] = [open |-> TRUE, bytes |-> 0]]
  /\ result' = [result EXCEPT ![t] = -1]
  /\ refused' = [refused EXCEPT ![t] = @ + 1]
  /\ Goto(t, "returned")
  /\ UNCHANGED <<build, capture, stopAll, waiter, left, retVal, processIds, handles, startedLate,
                 leftOpen>>

-----------------------------------------------------------------------------
(* Windows: insert, wait, erase, then output, exit code and handles.         *)

Insert(t) ==
  /\ At(t, "insert")
  /\ processIds' = processIds \cup {child[t].handle}
  /\ Goto(t, "wait")
  /\ UNCHANGED <<build, capture, stopAll, waiter, left, result, retVal, child, pipe, handles,
                 startedLate, leftOpen, refused>>

(* spin_and_report_single_process waits for the handle again and again.      *)
Wait(t) ==
  /\ At(t, "wait")
  /\ ~Running(t)
  /\ Goto(t, "erase")
  /\ UNCHANGED <<build, capture, stopAll, waiter, left, result, retVal, child, pipe, processIds,
                 handles, startedLate, leftOpen, refused>>

(* Faulty: the handle stays in the set.                                      *)
EraseNothing(h) == processIds

Erased(h) == processIds \ {h}
Erase(t) ==
  /\ At(t, "erase")
  /\ processIds' = Erased(child[t].handle)
  /\ Goto(t, "collect")
  /\ UNCHANGED <<build, capture, stopAll, waiter, left, result, retVal, child, pipe, handles,
                 startedLate, leftOpen, refused>>

(* Faulty: one piece is read.                                                *)
PeekPiece(bytes) == Least(ReadSize, bytes)

PeekAll(bytes) == bytes

(* PeekNamedPipe and one ReadFile of what is there, GetExitCodeProcess,      *)
(* CloseHandle of the process and of the pipe.                               *)
Collect(t) ==
  /\ At(t, "collect")
  /\ child' = [child EXCEPT ![t].handle = NoHandle,
                            ![t].unread = pipe[t].bytes - PeekAll(pipe[t].bytes)]
  /\ pipe' = [pipe EXCEPT ![t] = NoPipe]
  /\ result' = [result EXCEPT ![t] = child[t].code]
  /\ handles' = handles \ {child[t].handle}
  /\ Goto(t, "returned")
  /\ UNCHANGED <<build, capture, stopAll, waiter, left, retVal, processIds, startedLate,
                 leftOpen, refused>>

-----------------------------------------------------------------------------
(* POSIX: poll for 100 ms, read, and waitpid when there was nothing to read. *)

(* Faulty: what is in the pipe is left there.                                *)
ReadNothing(bytes) == 0

(* Faulty: the count asked for is taken for the count read.                  *)
ReadAsked(bytes) == ReadSize

ReadFrom(bytes) == Least(ReadSize, bytes)

(* Faulty: waitpid is called after every poll.                               *)
AlwaysReap(bytes) == "reap"

AfterPoll(bytes) == IF bytes > 0 THEN "poll" ELSE "reap"

Poll(t) ==
  LET bytes == pipe[t].bytes
  IN  /\ At(t, "poll")
      /\ pipe' = [pipe EXCEPT ![t].bytes = @ - ReadFrom(bytes)]
      /\ child' = [child EXCEPT ![t].unread = bytes - ReadFrom(bytes)]
      /\ Goto(t, AfterPoll(bytes))
      /\ UNCHANGED <<build, capture, stopAll, waiter, left, result, retVal, processIds, handles,
                     startedLate, leftOpen, refused>>

(* Faulty: a child that still runs ends the loop.                            *)
EveryEndsLoop(state) == TRUE

(* What ends the loop: an exit or a stop.  A death by a signal does not, but  *)
(* the next waitpid fails and leaves in status the 0 made of that signal,    *)
(* which reads as an exit.                                                   *)
EndsLoop(state) == state \in {"exited", "stopped", "gone"}

(* waitpid(WUNTRACED | WNOHANG), the tests of the status, WEXITSTATUS and,   *)
(* out of the loop, the closing of the pipe.                                 *)
Reap(t) ==
  LET state == child[t].state
  IN  /\ At(t, "reap")
      /\ child' = [child EXCEPT ![t].state = IF state = "killed" THEN "gone" ELSE state]
      /\ result' = [result EXCEPT ![t] = IF state = "running" THEN @ ELSE child[t].code]
      /\ pipe' = [pipe EXCEPT ![t] = IF EndsLoop(state) THEN NoPipe ELSE @]
      /\ Goto(t, IF EndsLoop(state) THEN "returned" ELSE "poll")
      /\ UNCHANGED <<build, capture, stopAll, waiter, left, retVal, processIds, handles,
                     startedLate, leftOpen, refused>>

-----------------------------------------------------------------------------
(* Back in Spawner: after a stop the result is dropped, else the first one   *)
(* that is not 0 is kept and the next command follows.  The variables of     *)
(* OS::Spawn are gone: a pipe that is open now is never closed.              *)

Reaped(t) ==
  child[t].state \in (IF build = "posix" THEN {"none", "exited", "gone"}
                     ELSE {"none", "exited", "killed"})

Return(t) ==
  /\ At(t, "returned")
  /\ retVal' = [retVal EXCEPT ![t] = IF Stopped(t) \/ @ # 0 THEN @ ELSE result[t]]
  /\ Goto(t, IF Stopped(t) THEN "finished" ELSE "next")
  /\ result' = [result EXCEPT ![t] = 0]
  /\ child' = [child EXCEPT ![t] = IF Reaped(t) THEN NoChild ELSE [NoChild EXCEPT !.state = child[t].state]]
  /\ leftOpen' = [leftOpen EXCEPT ![t] = IF pipe[t].open THEN @ + 1 ELSE @]
  /\ pipe' = [pipe EXCEPT ![t] = NoPipe]
  /\ UNCHANGED <<build, capture, stopAll, waiter, left, processIds, handles, startedLate, refused>>

ThreadStep(t) ==
  \/ NextCommand(t) \/ Create(t) \/ CreateFails(t) \/ ActionsFail(t)
  \/ Insert(t) \/ Wait(t) \/ Erase(t) \/ Collect(t)
  \/ Poll(t) \/ Reap(t)
  \/ Return(t)

-----------------------------------------------------------------------------
(* RunOne, without -k: it waits for its threads in order; the first result   *)
(* above 0 stops all, and then the threads are joined.                       *)

Doing(what) == waiter.doing = what
WaiterOnly == UNCHANGED <<build, capture, pc, left, result, retVal, pipe, handles, startedLate,
                          leftOpen, refused>>

GetResult ==
  LET t == Threads[waiter.at]
      rv == IF waiter.rv <= 0 /\ retVal[t] # 0 THEN retVal[t] ELSE waiter.rv
  IN  /\ Doing("waiting")
      /\ At(t, "finished")
      /\ waiter' = [doing |-> IF rv > 0 THEN "stop"
                              ELSE IF waiter.at = Len(Threads) THEN "join" ELSE "waiting",
                    at |-> IF rv > 0 \/ waiter.at = Len(Threads) THEN waiter.at ELSE waiter.at + 1,
                    rv |-> rv]
      /\ WaiterOnly /\ UNCHANGED <<stopAll, child, processIds>>

StopAll ==
  /\ Doing("stop")
  /\ stopAll' = TRUE
  /\ waiter' = [waiter EXCEPT !.doing = "terminate"]
  /\ WaiterOnly /\ UNCHANGED <<child, processIds>>

(* TerminateProcess(a, 0) for each handle.  On POSIX the set is empty, and   *)
(* the call would only ask whether the process exists.                       *)
TerminateAll ==
  /\ Doing("terminate")
  /\ child' = [t \in ThreadSet |->
                 IF child[t].handle \in processIds /\ Running(t)
                 THEN [child[t] EXCEPT !.state = "killed", !.code = 0] ELSE child[t]]
  /\ waiter' = [waiter EXCEPT !.doing = "join"]
  /\ WaiterOnly /\ UNCHANGED <<stopAll, processIds>>

Join ==
  /\ Doing("join")
  /\ \A t \in ThreadSet : At(t, "finished")
  /\ waiter' = [waiter EXCEPT !.doing = "done"]
  /\ WaiterOnly /\ UNCHANGED <<stopAll, child, processIds>>

WaiterStep == GetResult \/ StopAll \/ TerminateAll \/ Join

Next ==
  \/ \E t \in ThreadSet :
       ChildWrites(t) \/ ChildExits(t) \/ ChildKilled(t) \/ ChildStopped(t) \/ ThreadStep(t)
  \/ WaiterStep

Spec == Init /\ [][Next]_vars

(* Threads are scheduled; a command that is not blocked comes to its end.    *)
FairSpec ==
  /\ Spec
  /\ WF_vars(WaiterStep)
  /\ \A t \in ThreadSet : WF_vars(ThreadStep(t)) /\ WF_vars(ChildWrites(t) \/ ChildExits(t))

-----------------------------------------------------------------------------
TypeOK ==
  /\ build \in Builds /\ capture \in BOOLEAN /\ stopAll \in BOOLEAN
  /\ processIds \subseteq Handles /\ handles \subseteq Handles
  /\ \A t \in ThreadSet :
       /\ pc[t] \in {"next", "create", "insert", "wait", "erase", "collect", "poll", "reap",
                     "returned", "finished"}
       /\ left[t] \in 0 .. Commands[t]
       /\ pipe[t].bytes \in 0 .. PipeSize
       /\ leftOpen[t] \in Nat /\ refused[t] \in Nat
       /\ child[t].state \in {"none", "running", "exited", "killed", "stopped", "gone"}

(* OS::Spawn answers for the command it started, once that has ended, with   *)
(* its exit code; -1 is for a command that never started; and a 0 that no    *)
(* command returned comes of one that was killed, never of one that runs.    *)
StatusReported ==
  \A t \in ThreadSet : At(t, "returned") =>
    CASE child[t].state = "none"    -> result[t] = -1
      [] child[t].state = "exited"  -> result[t] = child[t].code
      [] child[t].state = "stopped" -> result[t] = StopSignal
      [] OTHER -> child[t].state \in {"killed", "gone"} /\ result[t] = 0

(* Whatever the last look at the pipe found was shown before OS::Spawn        *)
(* returns.  Windows looks after the end and loses nothing; POSIX may lose   *)
(* what a command wrote between the last poll and its end.                   *)
OutputShown == \A t \in ThreadSet : At(t, "returned") => child[t].unread = 0

(* TerminateAll finds exactly the processes that are waited for: no handle   *)
(* that was closed, or that another process has got since.                   *)
OnlyWaitedFor ==
  /\ processIds = {child[t].handle : t \in {u \in ThreadSet : pc[u] \in {"wait", "erase"}}}
                    \ (IF build = "posix" THEN {NoHandle} ELSE {})
  /\ processIds \subseteq handles

(* After the stop a thread starts no command but the one it had already      *)
(* decided to start.                                                         *)
OneMoreAtMost == \A t \in ThreadSet : startedLate[t] <= 1

(* When the threads are joined no handle is left over, no process but one     *)
(* that was stopped, and as many pipes as there were early returns of        *)
(* OS::Spawn for want of file actions, which close none: on Windows no pipe  *)
(* at all.  (The code does leak those; every other way out, the failing      *)
(* posix_spawn included, closes its pipe.)                                   *)
NothingLeaked ==
  Doing("done") =>
    /\ processIds = {} /\ handles = {}
    /\ \A t \in ThreadSet :
         /\ ~pipe[t].open /\ child[t].state \in {"none", "stopped"}
         /\ leftOpen[t] = refused[t]
         /\ build = "windows" => leftOpen[t] = 0

(* Every call of OS::Spawn returns, whatever the command writes; on Windows, *)
(* if what it writes fits into the pipe, or is not captured.                 *)
Inside(t) == pc[t] \in {"insert", "wait", "erase", "collect", "poll", "reap"}
Drained(t) ==
  build = "posix" \/ ~capture \/ child[t].todo + pipe[t].bytes <= PipeSize
SpawnReturns == \A t \in ThreadSet : (Inside(t) /\ Drained(t)) ~> At(t, "returned")
=============================================================================
