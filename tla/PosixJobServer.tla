--------------------------- MODULE PosixJobServer ---------------------------
(***************************************************************************)
(* The POSIX job server of JWmake (os_specific/Linux/Linux_Jobserver.cpp). *)
(*                                                                         *)
(* A top make creates a FIFO and fills it with one byte per job; every     *)
(* make of the tree, the top one and the sub-makes its commands start,     *)
(* opens the FIFO and counts the jobs it has in the atomic current_jobs.   *)
(* The first job of a make is free (the slot its parent holds for it);     *)
(* each further one costs a byte read from the FIFO, kept on               *)
(* popped_char_stack and written back by ReleaseJob.  Several worker       *)
(* threads of one make run TakeNewJob and ReleaseJob at the same time      *)
(* (Spawner.cpp: OSTakeJobIfNotMake around each command), and no lock      *)
(* spans an operation, so a step here is one access to shared state.       *)
(*                                                                         *)
(* Bytes are interchangeable, so the FIFO and the stack are counters.      *)
(* The stack counter may go below zero: std::stack::pop on an empty stack  *)
(* is undefined, and a build either faults or goes on with a size() that   *)
(* wrapped around, which is not zero.                                      *)
(***************************************************************************)
EXTENDS Integers, FiniteSets

CONSTANTS
  Procs,         \* the makes of the tree
  Root,          \* the top make, the one that creates the FIFO
  NoProc,        \* "no sub-make"
  Threads,       \* the worker threads of all makes
  ProcOf,        \* the make a worker thread belongs to
  MaxJobs,       \* the argument of the constructor: the value of -j
  PipeCapacity,  \* bytes the kernel keeps in a FIFO before write gives EAGAIN
  StackBound     \* bound of the model: depth stays in -StackBound..StackBound

ASSUME ProcsAssumption ==
  /\ IsFiniteSet(Procs)
  /\ Root \in Procs
  /\ NoProc \notin Procs

ASSUME ThreadsAssumption ==
  /\ IsFiniteSet(Threads)
  /\ ProcOf \in [Threads -> Procs]

ASSUME JobsAssumption ==
  MaxJobs \in Nat \ {0} /\ PipeCapacity \in Nat \ {0} /\ StackBound \in Nat \ {0}

VARIABLES
  pipe,      \* bytes in the FIFO
  filled,    \* i of populate_pipe: bytes the top make has written at start
  status,    \* status[p]: "off", "filling" (in the constructor) or "up"
  current,   \* current[p]: current_jobs of make p
  depth,     \* depth[p]: popped_char_stack of make p
  pc,        \* pc[t]: what worker t does next
  sub        \* sub[t]: the sub-make that t's command is, or NoProc

vars == <<pipe, filled, status, current, depth, pc, sub>>

ThreadsOf(p) == {t \in Threads : ProcOf[t] = p}

Init ==
  /\ pipe = 0
  /\ filled = 0
  /\ status = [p \in Procs |-> IF p = Root THEN "filling" ELSE "off"]
  /\ current = [p \in Procs |-> 0]
  /\ depth = [p \in Procs |-> 0]
  /\ pc = [t \in Threads |-> "idle"]
  /\ sub = [t \in Threads |-> NoProc]

-----------------------------------------------------------------------------
(* A worker t is at `from' and goes on at `to'.                            *)
Transition(t, from, to) ==
  /\ pc[t] = from
  /\ pc' = [pc EXCEPT ![t] = to]

(* Make p is gone, and the worker that waited for it in OS::Spawn, if any, *)
(* has its command's result.  What p's workers did and counted is gone too. *)
Gone(p) ==
  /\ status' = [status EXCEPT ![p] = "off"]
  /\ current' = [current EXCEPT ![p] = 0]
  /\ depth' = [depth EXCEPT ![p] = 0]
  /\ pc' = [t \in Threads |-> IF ProcOf[t] = p THEN "idle" ELSE pc[t]]
  /\ sub' = [t \in Threads |->
               IF ProcOf[t] = p \/ sub[t] = p THEN NoProc ELSE sub[t]]
  /\ UNCHANGED filled

(* An exception leaves ReleaseJob inside ~OSTakeJobIfNotMake, which is     *)
(* noexcept, or an access to the stack faults: the whole make is aborted   *)
(* and no destructor gives its bytes back.                                 *)
Abort(p) == Gone(p) /\ UNCHANGED pipe

-----------------------------------------------------------------------------
(* populate_pipe: one write of its loop.  On a full FIFO it yields and     *)
(* tries again for as long as it takes.                                    *)
Populate ==
  /\ status[Root] = "filling"
  /\ filled < MaxJobs
  /\ pipe < PipeCapacity
  /\ pipe' = pipe + 1
  /\ filled' = filled + 1
  /\ UNCHANGED <<status, current, depth, pc, sub>>

(* The constructor of the top make's job server returns.                   *)
Constructed ==
  /\ status[Root] = "filling"
  /\ filled = MaxJobs
  /\ status' = [status EXCEPT ![Root] = "up"]
  /\ UNCHANGED <<pipe, filled, current, depth, pc, sub>>

(* A worker is about to run a command: OS::TakeJob.                        *)
BeginTake(t) ==
  /\ status[ProcOf[t]] = "up"
  /\ Transition(t, "idle", "exchange")
  /\ UNCHANGED <<pipe, filled, status, current, depth, sub>>

(* Faulty: the exchange also succeeds when the make has one job.           *)
ExchangeFromOne(t) ==
  LET p == ProcOf[t] IN
  /\ pc[t] = "exchange"
  /\ IF current[p] <= 1
     THEN /\ current' = [current EXCEPT ![p] = 1]
          /\ pc' = [pc EXCEPT ![t] = "job"]
     ELSE /\ pc' = [pc EXCEPT ![t] = "read"]
          /\ UNCHANGED current
  /\ UNCHANGED <<pipe, filled, status, depth, sub>>

(* current_jobs.compare_exchange_strong(0, 1): the free slot of the make.  *)
Exchange(t) ==
  LET p == ProcOf[t] IN
  /\ pc[t] = "exchange"
  /\ IF current[p] = 0
     THEN /\ current' = [current EXCEPT ![p] = 1]
          /\ pc' = [pc EXCEPT ![t] = "job"]
     ELSE /\ pc' = [pc EXCEPT ![t] = "read"]
          /\ UNCHANGED current
  /\ UNCHANGED <<pipe, filled, status, depth, sub>>

(* Faulty: the FIFO is read again until there is a byte.                   *)
ReadTokenBlocking(t) ==
  /\ pipe > 0
  /\ Transition(t, "read", "push")
  /\ pipe' = pipe - 1
  /\ UNCHANGED <<filled, status, current, depth, sub>>

(* Faulty: EAGAIN is taken for a byte.                                     *)
ReadTokenUnchecked(t) ==
  /\ Transition(t, "read", "push")
  /\ pipe' = IF pipe > 0 THEN pipe - 1 ELSE 0
  /\ UNCHANGED <<filled, status, current, depth, sub>>

(* read(readfd): a byte, or EAGAIN and once more round the loop.           *)
ReadToken(t) ==
  /\ pc[t] = "read"
  /\ IF pipe > 0
     THEN pipe' = pipe - 1 /\ pc' = [pc EXCEPT ![t] = "push"]
     ELSE pipe' = pipe /\ pc' = [pc EXCEPT ![t] = "exchange"]
  /\ UNCHANGED <<filled, status, current, depth, sub>>

(* popped_char_stack.push under char_stack_mutex.                          *)
Push(t) ==
  LET p == ProcOf[t] IN
  \/ /\ depth[p] < StackBound
     /\ Transition(t, "push", "increment")
     /\ depth' = [depth EXCEPT ![p] = @ + 1]
     /\ UNCHANGED <<pipe, filled, status, current, sub>>
  \/ pc[t] = "push" /\ depth[p] < 0 /\ Abort(p)

(* Faulty: the job that a byte pays for is not counted.                    *)
IncrementForgotten(t) ==
  /\ Transition(t, "increment", "job")
  /\ UNCHANGED <<pipe, filled, status, current, depth, sub>>

(* current_jobs++, and TakeNewJob returns.                                 *)
Increment(t) ==
  /\ Transition(t, "increment", "job")
  /\ current' = [current EXCEPT ![ProcOf[t]] = @ + 1]
  /\ UNCHANGED <<pipe, filled, status, depth, sub>>

(* The command is a sub-make: it opens the FIFO (the constructor from an   *)
(* auth string), with nothing counted and nothing on its stack.            *)
StartMake(t, q) ==
  /\ pc[t] = "job"
  /\ sub[t] = NoProc
  /\ q # Root
  /\ status[q] = "off"
  /\ \A u \in Threads : sub[u] # q
  /\ status' = [status EXCEPT ![q] = "up"]
  /\ sub' = [sub EXCEPT ![t] = q]
  /\ UNCHANGED <<pipe, filled, current, depth, pc>>

(* The command has ended: OS::GiveJob enters ReleaseJob.                   *)
BeginRelease(t) ==
  /\ sub[t] = NoProc
  /\ Transition(t, "job", "zero?")
  /\ UNCHANGED <<pipe, filled, status, current, depth, sub>>

(* current_jobs == 0 throws "Job server has returned more jobs than it     *)
(* has consumed".                                                          *)
TestZero(t) ==
  LET p == ProcOf[t] IN
  /\ pc[t] = "zero?"
  /\ IF current[p] = 0
     THEN Abort(p)
     ELSE /\ pc' = [pc EXCEPT ![t] = "many?"]
          /\ UNCHANGED <<pipe, filled, status, current, depth, sub>>

(* Faulty: >= for >, so that the free slot too is given back as a byte.    *)
TestManyOrOne(t) ==
  /\ \/ current[ProcOf[t]] >= 1 /\ Transition(t, "many?", "empty?")
     \/ current[ProcOf[t]] < 1  /\ Transition(t, "many?", "decrement")
  /\ UNCHANGED <<pipe, filled, status, current, depth, sub>>

(* Faulty: the second job of a make is taken for its free slot.            *)
TestManyOffByOne(t) ==
  /\ \/ current[ProcOf[t]] > 2 /\ Transition(t, "many?", "empty?")
     \/ current[ProcOf[t]] <= 2 /\ Transition(t, "many?", "decrement")
  /\ UNCHANGED <<pipe, filled, status, current, depth, sub>>

(* current_jobs > 1, a second load: is there a byte to give back?          *)
TestMany(t) ==
  /\ \/ current[ProcOf[t]] > 1 /\ Transition(t, "many?", "empty?")
     \/ current[ProcOf[t]] <= 1 /\ Transition(t, "many?", "decrement")
  /\ UNCHANGED <<pipe, filled, status, current, depth, sub>>

(* popped_char_stack.size() == 0, without the mutex, throws "Somehow       *)
(* current_jobs is ... but popped_char_stack is: 0".                       *)
TestEmpty(t) ==
  LET p == ProcOf[t] IN
  \/ /\ depth[p] # 0
     /\ Transition(t, "empty?", "top")
     /\ UNCHANGED <<pipe, filled, status, current, depth, sub>>
  \/ pc[t] = "empty?" /\ depth[p] = 0 /\ Abort(p)

(* popped_char_stack.top under the mutex; the byte stays on the stack.     *)
Top(t) ==
  LET p == ProcOf[t] IN
  \/ /\ Transition(t, "top", "write")
     /\ UNCHANGED <<pipe, filled, status, current, depth, sub>>
  \/ pc[t] = "top" /\ depth[p] <= 0 /\ Abort(p)

(* write(writefd); a full FIFO makes it yield and try again.               *)
WriteToken(t) ==
  \/ /\ pipe < PipeCapacity
     /\ Transition(t, "write", "pop")
     /\ pipe' = pipe + 1
     /\ UNCHANGED <<filled, status, current, depth, sub>>
  \/ pc[t] = "write" /\ pipe = PipeCapacity /\ UNCHANGED vars

(* Faulty: the byte that was written back stays on the stack.              *)
PopForgotten(t) ==
  /\ Transition(t, "pop", "decrement")
  /\ UNCHANGED <<pipe, filled, status, current, depth, sub>>

(* popped_char_stack.pop under the mutex.                                  *)
Pop(t) ==
  LET p == ProcOf[t] IN
  \/ /\ depth[p] > -StackBound
     /\ Transition(t, "pop", "decrement")
     /\ depth' = [depth EXCEPT ![p] = @ - 1]
     /\ UNCHANGED <<pipe, filled, status, current, sub>>
  \/ pc[t] = "pop" /\ depth[p] <= 0 /\ Abort(p)

(* current_jobs--, and ReleaseJob returns.                                 *)
Decrement(t) ==
  /\ Transition(t, "decrement", "idle")
  /\ current' = [current EXCEPT ![ProcOf[t]] = @ - 1]
  /\ UNCHANGED <<pipe, filled, status, depth, sub>>

(* A make ends when its workers are joined; ~POSIXJobServer runs           *)
(* ReleaseAllJobs, ReleaseJob until current_jobs is 0, then closes the     *)
(* FIFO.  Bytes still on the stack are not written back.                   *)
Exit(p) ==
  /\ status[p] = "up"
  /\ \A t \in ThreadsOf(p) : pc[t] = "idle"
  /\ pipe' = pipe + (IF current[p] > 1 THEN current[p] - 1 ELSE 0)
  /\ Gone(p)

Step(t) ==
  \/ Exchange(t) \/ ReadToken(t) \/ Push(t) \/ Increment(t)
  \/ BeginRelease(t) \/ TestZero(t) \/ TestMany(t) \/ TestEmpty(t)
  \/ Top(t) \/ WriteToken(t) \/ Pop(t) \/ Decrement(t)

(* The whole tree has ended.                                               *)
Over == (\A p \in Procs : status[p] = "off") /\ UNCHANGED vars

Next ==
  \/ Populate
  \/ Constructed
  \/ \E t \in Threads : BeginTake(t) \/ Step(t)
  \/ \E t \in Threads, q \in Procs : StartMake(t, q)
  \/ \E p \in Procs : Exit(p)
  \/ Over

Spec == Init /\ [][Next]_vars

(* The scheduler runs every thread that can run, a command ends, and the   *)
(* top make gets through its constructor; nothing makes a make ask for     *)
(* another job, start a sub-make or exit.                                  *)
FairSpec ==
  /\ Spec
  /\ WF_vars(Populate) /\ WF_vars(Constructed)
  /\ \A t \in Threads : WF_vars(Step(t))

-----------------------------------------------------------------------------
(* TakeNewJob and ReleaseJob as the worker's places in them.               *)
Asking    == {"exchange", "read"}
Taking    == {"read", "push", "increment"}
Releasing == {"zero?", "many?", "empty?", "top", "write", "pop", "decrement"}
Counted   == {"job"} \cup Releasing

Holders(p) == {t \in ThreadsOf(p) : pc[t] \in Counted}

(* The values the state can take.  depth may be negative because the code  *)
(* can pop an empty stack.                                                 *)
TypeOK ==
  /\ pipe \in 0 .. PipeCapacity
  /\ filled \in 0 .. MaxJobs
  /\ status \in [Procs -> {"off", "filling", "up"}]
  /\ current \in [Procs -> Nat]
  /\ depth \in [Procs -> -StackBound .. StackBound]
  /\ pc \in [Threads -> {"idle", "job"} \cup Asking \cup Taking \cup Releasing]
  /\ sub \in [Threads -> Procs \cup {NoProc}]

(* Whatever the threads do, current_jobs is the number of workers that are *)
(* between the step of TakeNewJob that counts them and the last step of    *)
(* ReleaseJob: no compare-exchange, increment or decrement is ever lost or *)
(* made twice, across aborts and restarts of makes too.                    *)
CountsHolders == \A p \in Procs : current[p] = Cardinality(Holders(p))

(* The first exception of ReleaseJob, "Job server has returned more jobs   *)
(* than it has consumed", is never thrown.                                 *)
NeverOverReturned ==
  \A t \in Threads : pc[t] = "zero?" => current[ProcOf[t]] > 0

(* A make whose workers want jobs always comes to have a job, whatever the *)
(* other makes do with the FIFO and even if bytes have leaked: the comment *)
(* on current_jobs, "we can ALWAYS assume that there is at least one job   *)
(* available".                                                             *)
MakeAlwaysGetsAJob ==
  \A p \in Procs :
    (\E t \in ThreadsOf(p) : pc[t] \in Asking)
      ~> (status[p] = "off" \/ \E t \in ThreadsOf(p) : pc[t] = "job")

(* What the second exception of ReleaseJob claims cannot be: a make counts *)
(* more than one job and has no byte to give back.                         *)
StackHasByte ==
  \A t \in Threads : pc[t] = "empty?" => depth[ProcOf[t]] # 0

=============================================================================
