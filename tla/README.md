# A TLA+ development for JWmake and the Jarvis tools

This directory holds the specifications of two parts of the repository: the
one whose behaviour depends on order and timing, `make` in
`src/source/Tools/JWmake`, with its parallel runs, the processes it starts and
its decisions from file times; and the code generator of the new C compiler in
`src/source/Tools/JWccLib`. It keeps TLA+ modules, configurations for TLC, and
proofs for TLAPS. `PROJECT.json` lists the components, runs, mutants, mapped
lines, findings, hazards and theorems; this file explains them.

## 1. The repository

| Part | What it is | State it keeps | Here |
|---|---|---|---|
| JWmake: job servers (`JobServer.h`, `os_specific/`) | limit the commands a tree of makes runs | FIFO or named semaphore, shared by processes; `current_jobs`, `popped_char_stack` per process, shared by threads | modelled |
| JWmake: `Runner`, `Maker::RunCommands` | one thread per dependency; run what is out of date | `RuleList::isBuilt`, `onHold`; `rv`, `stop`, futures per thread | modelled |
| JWmake: `Spawner` | the command lines of one target | `stopAll` (global), `rv` | modelled inside `Runner` and in `SpawnWait` |
| JWmake: `Maker` dependencies, `Depends`, `Rule` | what is out of date | the tree of `Depends`, the rules, file times | modelled in `Dependencies` |
| JWmake: `MakeMain`, `Include` | options, makefiles, remaking them and starting over | `restarts`, the containers cleared at each start | planned |
| JWmake: `Parser`, `Eval`, `Variable` | makefile language | variables, `ruleStack` | planned in part |
| JWmake: `os.cpp` | processes and files | `processIds`, pipes and handles of a call | `OS::Spawn` and `TerminateAll` in `SpawnWait` |
| JWcppLib (and its copy JWcpp) | C preprocessor | stack of conditionals, of include files, macro table | planned |
| JWccLib: `MasmCodeGenerator`, `ProgramData` | assembler text for functions and variables | `masm_current_locals`, `_params`, `_globals`; the tables `ProgramData` collects | `CodeGenerator` |
| JWccLib: `SemanticAnalyzer`, `SymbolTable`, lexer, grammar, syntax tree | the front end of the C compiler | symbol tables and scopes | what decides about returns, in `CodeGenerator` |
| JWcc, JWccTest | command line and tests of JWccLib | | read, not modelled |
| JWlink, JWlib, orl, dwarf | Open Watcom linker | third-party, sequential | not modelled |
| JWasm | assembler | third-party, sequential | not modelled |
| JWrc, Arguments, File, Memory, util, BinaryFormats | resource compiler and support libraries | | not modelled |
| Decompiler (Capstone), dosbox-x, external | vendored | | not modelled |
| Jarvis, Test2, samples, test, documentation | drafts and data | | not modelled |

### How the parts of JWmake meet

`MakeMain::Run` reads the makefiles, lets `Maker` build trees of `Depends` and
calls `Maker::RunCommands`. That starts a thread per top goal, each in
`Runner::RunOne`; `RunOne` starts a thread per prerequisite, takes their
results through futures, joins them and then runs the commands of its own goal
in a `Spawner`. Around each command `OSTakeJobIfNotMake` takes a job from the
job server and gives it back. A command may itself be a make, which opens the
same FIFO or semaphore by the name in `--jobserver-auth`. So three levels of
concurrency meet: makes in different processes share the FIFO, the threads of a
make share its job server object and several globals (`stopAll`,
`Eval::ruleStack`, `isBuilt`), and a goal with several dependents is visited by
several threads.

What is hard, and where: steps of `TakeNewJob` and `ReleaseJob` interleaved;
a make that dies with jobs in its hands; a full FIFO; a goal that two threads
find unbuilt; a thread that waits for a goal that failed; results that cross
with `-k`, `-j 1`, `.POSIX` and ignored lines; globals that one thread sets and
another uses; and, over many makes, decisions taken from time stamps alone
after edits, failures, kills and deleted intermediate files; a failure in one
thread that stops all while others are between the test of `stopAll`, the start
of a process and its entry in `processIds`; output that a command writes while
nobody reads. Each is listed under `hazards` at its line, with the properties
that are about it, or why none catches it.

### How the parts of JWccLib meet

`Compiler::compileFile` parses a file, lets `SemanticAnalyzer` look at it and,
if it has no error to report, hands the tree to `MasmCodeGenerator`.
`ProgramData` collects the variables and functions from the tree.
`handleIndividualFunction` writes one procedure after another and keeps its
tables in three static variables while `emitMasmExpression` calls itself. The
program is sequential; what is hard is arithmetic: five widths of variable, two
signs and three widths of register meet in each load, store and division, and a
mistake shows only for values with the top bit set, or after a statement that
left something in a register.

## 2. Modules

| Module | Models | Uses |
|---|---|---|
| `JobSlots` | the promise of a job server: one slot per make, `MaxJobs` shared ones | |
| `PosixJobServer` | `Linux_Jobserver.cpp`, one step per access to shared state | |
| `SerialJobServer` | the same under the restriction that releases do not overlap | `PosixJobServer`, refines `JobSlots` |
| `WindowsJobServer` | `Win_Jobserver.cpp` with its named semaphore | refines `JobSlots` |
| `Runner` | `Maker::RunCommands`, `Runner::RunOne`, `Spawner::InternalRun` and `Run`, `RuleList`'s flag and semaphore | takes its jobs by `JobSlots` |
| `Dependencies` | `Maker::CreateDependencyTree`, `Dependencies`, the search for implicit rules, `Runner::DeleteOne`, and the directory under one make after the other | |
| `SpawnWait` | `OS::Spawn` and `OS::TerminateAll` on Windows and on POSIX, in the threads of a make that a failure stops, with the commands as processes | |
| `CodeGenerator` | `MasmCodeGenerator` and what `ProgramData` and `SemanticAnalyzer` decide for it; the emitted code runs on a machine, next to what C says | |
| `JobSlots_proofs` | theorem about `JobSlots` | `CountingLemmas` |
| `PosixJobServer_proofs` | theorems about `PosixJobServer` | |
| `SerialJobServer_proofs` | theorems about `SerialJobServer` | `PosixJobServer_proofs`, `CountingLemmas` |
| `WindowsJobServer_proofs` | theorems about `WindowsJobServer`, also restricted | `CountingLemmas` |
| `Runner_proofs` | theorems about `Runner` | |
| `RunnerProgress_proofs` | theorems about `Runner`: that a make ends, `-j 1`, exit status 0 | `Runner_proofs`, `CountingLemmas` |
| `SpawnWait_proofs` | theorems about `SpawnWait` | |
| `CountingLemmas` | cardinalities of sets and of their images | |
| `MC...` | instances for TLC | |

Definitions named after a fault (`IncrementForgotten`, `WaitUnguarded`, ...)
and commented "Faulty" are not part of a specification. Each is what a likely
bug would make of the action that follows it, and `mutants` in `PROJECT.json`
says which property fails when it takes that action's place.

### PosixJobServer

State: `pipe` (bytes in the FIFO), and for each make `current` (`current_jobs`),
`depth` (size of `popped_char_stack`) and `status`; for each worker `pc` and
the sub-make its command is. Bytes are all alike, so counters stand for the
FIFO and the stack. An action is one atomic access of `TakeNewJob` or
`ReleaseJob`:

| Code | Actions |
|---|---|
| constructor, `populate_pipe` | `Populate`, `Constructed` |
| `TakeNewJob` | `BeginTake`, `Exchange`, `ReadToken`, `Push`, `Increment` |
| `ReleaseJob` | `BeginRelease`, `TestZero`, `TestMany`, `TestEmpty`, `Top`, `WriteToken`, `Pop`, `Decrement` |
| an exception in `~OSTakeJobIfNotMake` | `Abort` |
| a sub-make starts; a make ends | `StartMake`, `Exit` |

`top()` and `pop()` on an empty `std::stack` are undefined. The model allows
what a build does: the make faults (`Abort`), or goes on with a size that has
wrapped (a negative `depth`). The constructor of `OSTakeJobIfNotMake` ignores
its argument, so a command that is a make holds a job like any other.

### WindowsJobServer

The semaphore is `units`. `TakeNewJob` tests `current_jobs` (`TestBusy`), waits
50ms for a unit (`WaitFor`) and increments (`Increment`) in separate steps.
Makes do not come and go here: a make that exits gives nothing back.

### Runner

The tree of `Depends` is given by the constants `Nodes`, `Children` and
`GoalOf`. Two nodes with one goal share its `RuleList`. `Main` is
`RunCommands`. A thread is at `pc[n]`: `check`, `wait`, `set` (the
`isBuilt` protocol), `children`, `join`, then `expand`, `slot`,
`launch`, `command`, `result`, `clear` (the commands), `release`, `returned`.
What a command returns is any of `Outcomes`. `Windows` selects the count with
which `Semaphore(60000)` starts: 0, or 60000. `HoldUnits` stands for 60000.
Job slots are taken and given by the actions of `JobSlots`, what a job server
promises; what the two implementations really do is in their own modules.

Left out: names and texts, file times (every node of the tree is out of date),
touching, deleting, output, `.ONESHELL`, several commands per line, and target
lists that mix plain names with `%`. For those `SetBuilt` also marks the related
rules, of which the list itself is one: it calls itself without end.

### Dependencies

The makefile is one value: goals, `rules`, what the patterns match
(`candidates`), and the special targets. `Dependencies`, `WithRules`,
`WithoutRules`, `SearchImplicitRules` and `ExistsOrMentioned` follow the
functions of the same names; what those change in `RuleContainer`, in
`.INTERMEDIATE` and in `missingTarget` is a record, `maker`, that is handed
through. `exit(1)` is `exited`. Around the algorithm is a state machine: the
user edits and removes files (`Edit`, `Unlink`), starts makes (`Invoke`, which
is `CreateDependencyTree` and its result), the commands run in order
(`RunOne`), fail (`CommandsFail`) or the make is killed between two of them
(`Killed`), and `DeleteOne` ends it. `files` has the time stamps, and `clock`
does not move under a make unless someone edits, so that all that one make
makes has the same time: equal stamps are the rule. `from` and `stale` record
which file was made from what and whether that has changed since, which the
program does not know; the properties compare its decisions with them.

Left out: variables, VPATH, `.LOW_RESOLUTION_TIME`, `-o`, `.DEFAULT_GOAL`,
suffix rules, and what only automatic variables show.

### SpawnWait

A thread is at `pc[t]`: `next` and `create` (the tests and the start in
`Spawner::Run`); on Windows `insert`, `wait`, `erase`, `collect`; on POSIX
`poll` and `reap`; then `returned` and `finished`. `child[t]` is the process of
its command, `pipe[t]` the pipe of the call, `processIds` the set of
`OS::TerminateAll` and `handles` the open process handles, which may come
again once closed. `leftOpen[t]` counts the pipes that were open when a call
returned, `refused[t]` the commands whose file actions failed; the program keeps
neither. The commands write (`ChildWrites`, which waits for room in
the pipe), exit, are killed or stopped. The thread that waits for the others is
`waiter`: `GetResult`, `StopAll`, `TerminateAll` and `Join` are
`Runner::RunOne` after it has started them.

| Code | Actions |
|---|---|
| `Spawner::Run`, `InternalRun` | `NextCommand`, `Return` |
| `CreatePipe`, `CreateProcess`; `pipe`, `posix_spawn` | `Create`, `CreateFails` |
| POSIX: the early returns after `pipe` (`os.cpp:745` to 762) | `ActionsFail` |
| Windows: `processIds`, the wait, what follows it | `Insert`, `Wait`, `Erase`, `Collect` |
| POSIX: `poll` and `read`; `waitpid` and the tests of its status | `Poll`, `Reap` |
| `TerminateAll` | `TerminateAll`; on POSIX nothing is ever in the set |

A `waitpid` after a death by a signal fails and leaves the 0 that
`WEXITSTATUS` then reads; the model has the two calls, as the states `killed`
and `gone`. It assumes that no other process gets the number of the dead one
in the tenth of a second between them. Job slots are left out here, and so is
`SpawnWithRedirect`, which is not part of a parallel build.

### CodeGenerator

`k` is one function with its variables, `cpu` the machine that runs its code
and `want` what C says of its variables. `Statement` is one statement of the
body: it is analysed (`Accepted`), code is emitted for it (`EmitExpression`,
`LoadVariable`, `StoreVariable`, `Combine`) and run (`Exec`). A statement that
is neither an expression nor a jump emits nothing (`DroppedStatement`), a body
without `return` runs into what follows (`FallThrough`). `ReturnStatement`,
`ReturnNothing` (a bare `return;`) and `CallStatement` are the rest. The instructions are records; their registers are
named for their use: the accumulator is `acc`, the secondary register
`second`, the high half of a dividend `high`.

The other half of the module is a reference: `CEvaluate` gives an expression
its value, type and effect as C defines them, with promotions and conversions,
and says (`exact`) whether everything on the way was defined and fitted into
the register. `Ring` picks the expressions whose low bytes depend only on low
bytes, which must stay right where values do not fit.

A byte has two bits in the run, so that eight bytes are sixteen bits; the code
under test is about counts of bytes and signs, not about eights. A callee is
taken to leave the variables as they are. The assembler and the processor are
not in the repository's part that is modelled, and are external.

Left out: arrays, structures, initialisers of globals, the text of directives,
typedefs and warnings.

## 3. Runs

Runs that pass:

| Run | Instance | Shows |
|---|---|---|
| `PosixTree` | 3 + 1 workers, `-j 2`, FIFO of 4, fair | `current_jobs` is exact and never over-returned through every overlap, abort and restart; a make that asks comes to have a job, even when bytes have leaked |
| `SerialTree` | 3 + 2 workers, restricted | stack, bytes and aborts are in order, `JobSlots` is implemented, and at most `MaxJobs + 1` commands run, if releases do not overlap |
| `WinTree` | 2 + 2 workers, fair | counts, no abort, and progress |
| `WinSerial` | 3 + 2 workers, restricted | no unit is lost; `JobSlots` is implemented |
| `RunTree` | diamond, `-j 1`, `-j`, `-j -k` with `.POSIX`, fair | prerequisites first; failures stop dependents and reach the exit status; the make ends; with `-j 1` one builder per goal and its own rule stack |
| `DependTree` | 9 makefiles of 5 names, 4 edits or makes, `-B` and `-W` | a make that ends well leaves nothing it had to see to missing or out of date, the next one runs nothing, intermediate files go, `-B` and `-W` reach the top |
| `SpawnThreads` | 2 threads with 1 and 2 commands, both systems, output of 0 or 3 through a pipe of 2, 2 handles, fair | results and output belong to the command that ended; `TerminateAll` finds exactly the handles that are waited for; one late start per thread; no handle is left over, and no pipe but one for each early return of `OS::Spawn`; every wait that can end does |
| `CodeGen` | 8 functions for 16, 32 and 64 bits, 5 starts, every 2 of 63 statements | the emitted code does what C says where C defines it and the values fit, keeps low bytes right beyond that, writes nothing else, and leaves the stack as it was |

Runs that end in a violation, each a disagreement with something the repository
says, quoted under `findings`:

* `PosixReleaseRace`: two workers of a make overlap in `TakeNewJob` and
  `ReleaseJob`; one reads `current_jobs > 1` and finds the stack empty.
* `RunPosixHold`: `Semaphore(60000)` starts open on POSIX, so nobody waits for
  a prerequisite that another thread builds.
* `RunKeepGoing`: `make -k -j 1` returns 0 although a target failed.
* `DependChain`: a file that is named as a prerequisite, but reached through a
  chain of patterns first, is made `.INTERMEDIATE` and deleted.

Further behaviour the models have, and the properties exclude or do not state:
two threads can both find `isBuilt` false and build a goal twice when `-j` is
above 1 (`BuiltOnce` without its condition fails); the thread that waits for a
shared goal returns 0 whatever the build returned, so a second dependent is
made (`FailureStops` is about the thread that started the build); `rv > 0`
lets a negative status pass; without `.POSIX` the lines after a failed one run,
and a later line marked `-` forgets the failure; `Eval::ruleStack` is
overwritten by parallel threads; two workers on Windows can both use the free
slot of their make; more jobs than the FIFO holds keep the constructor of the
top make spinning (`Populate` is never enabled again), and `-j` defaults to
`INT_MAX`; the top make's free slot comes on top of `-j` bytes
(`AtMostOneExtra` has the `+ 1`).

The dependency checker has more of it, met while modelling:

* An order-only prerequisite is visited only if the goal does not exist, since
  `exists` (`Maker.cpp:239`) looks at the time of the goal.
* `-o file` clears the time of the file, which makes a source "No rule to make
  target" and a target out of date; `.LOW_RESOLUTION_TIME` rounds down the time
  of the goal, which makes it look older. Both do the opposite of their purpose.
* `doubleColon` is never set: a second `::` rule for a target is refused.
* A pattern may appear twice in a chain; `%.a: %.b` with `%.b: %.a` recurses
  without a limit (`PatternCircle`).
* A missing file behind an existing goal is not remade if an intermediate one is
  between them; the time of a prerequisite under `.DONTCARE` does not count; an
  edit under a running make is lost when it goes through an intermediate file
  that is then deleted; without `.DELETE_ON_ERROR` a half written file passes
  for a good one. The properties say where they exclude these: `Needed`,
  `Prereqs`, the guard of `Edit`, `Orderly`.
* `Include::MakeMakefiles` returns the `int` of `RunCommands` as a `bool`.

What `OS::Spawn` does beside what the properties say:

* A command that is killed counts as one that returned 0, on POSIX by the
  failing `waitpid`, on Windows since `TerminateAll` kills with 0. A command
  that is stopped returns the number of the signal and stays.
* On POSIX what a command writes between the last poll and its end is lost, and
  `TerminateAll` kills nothing: `processIds` is never filled there, and its
  call would be `kill(a, 0)`.
* On Windows a command whose captured output does not fit into the pipe and
  the make wait for each other for ever (`Drained` is what `SpawnReturns`
  excludes). The result of a command that ends after the stop is dropped.
* When `posix_spawn_file_actions_adddup2` or `addclose` fails, `OS::Spawn`
  returns -1 with both ends of the pipe open (`os.cpp:745` to 762), and nobody
  closes them. `NothingLeaked` says that this is the only leak: as many pipes
  stay open as there were such returns.
* A command that cannot be started returns -1, which stops nothing, since
  results are compared with 0 by `>`.

What the code generator does beside what the properties say, met while
modelling and present in the model unless it is data left out:

* The node of a unary operator, `++` or `--` keeps its operator where an
  identifier would be, so a load of the unknown name `_` is emitted, and the
  branch for `NT_UNARY` is never reached. `s.x` and `p->x` load `_x`.
* Comparisons, `<<`, `>>`, `&&`, `||`, `?:`, casts, calls inside expressions,
  `sizeof` and indexing are refused; nobody looks at the `false`, and what was
  written before it, pushes included, stays. A function without parameters and
  locals then returns to the pushed operand.
* `/`, `%` and `>>=` are signed in the width of the register whatever the type;
  a value wider than the register is cut off at the load; a wide destination is
  filled with sign or zeros as its own type says, not as the value's does; a `bool` gets the low byte.
* `long int` and `short int` are collected as `int`; a global `unsigned x` has
  no type at all; a global `int` has four bytes in 16 bit code too. `float`
  and `double` go through the integer registers.
* All locals share one scope, and an inner one hides the outer one everywhere.
  Initialisers of locals are not emitted. `if`, loops and nested blocks emit
  nothing, and a function without `return` runs into the next one.
* `return 1;` in an `int` function is refused with an error, as its inferred
  type is "constant"; a member that is no parameter is "undefined".
* The arguments of a call have to be integer constants: the pointer to any
  other argument's constant is used without a test.
* `compileFile` returns false after success as well.

Bounds. Two workers in a make are enough for each race between two operations;
the third in `PosixTree` and `SerialTree` lets two takes overlap with a holder
of the free slot. `MaxJobs = 2` lets the makes compete for shared slots and use
them up. `StackBound` limits how far the stack can drift: `Push` and `Pop` stop
at it. In `PosixTree` it is 3 and no worker is ever held up by it (the progress
property would fail: with two workers in the sub-make the drift has no bound
and it does). `PipeCapacity` is above `MaxJobs` as 64K is in Linux for sensible
values of `-j`; `WriteToken` meets the full FIFO after a race. `HoldUnits`
need only exceed the number of waiting threads. The diamond has two levels, a
shared prerequisite, a target without commands and one with two lines, the
second of which is ignored. `MaxJobs = 1` in `RunTree` makes threads wait for a
job: with the free slot two can have one, and `a`, `b` and `d` all want one.
`MaxClock = 4` in `DependTree` allows an edit, a make that fails or is killed,
an edit or removal of a result and a last make, or two edits and two makes;
5 shows nothing else. The makefiles have a shared
prerequisite, a chain through intermediate and secondary files, pattern chains
with an alternative and with a first pattern that fails half way, a phony goal
with commands, `.DEFAULT`, `.DONTCARE` and order-only prerequisites, and two
circles. `NestingLimit` and `SearchLimit` stand for 200 and for the size of the
stack; no chain without a circle comes near them.

In `SpawnThreads` the failure of the first thread can come before, between and
within the two commands of the second; three units of output are more than the
pipe takes, and more than two reads; two handles for two processes make a
closed one come again at once. In `CodeGen` two statements let the second one
find what the first left in registers and variables; the expressions nest
three deep. The starting values have the top bit of each width set and clear.
The functions have variables narrower than, as wide as and wider than the
register, signed and unsigned, a hidden variable and a pointer, and one of them
has neither parameters nor locals.

Fairness. Weak fairness of each worker's step: the operating system runs every
thread that can run, and a command ends. Nothing is assumed about whether a
worker asks for a job, about sub-makes or about exits. `Wait` and `TakeJob` are
waits on a semaphore; weak fairness of the thread is enough in `Runner`
because the units posted for a goal are more than the threads that wait for it
(`HoldAssumption`), and because each thread has a finite number of commands, so
that a slot is free for good in the end. In `SpawnThreads` the threads are
scheduled, and a command that is not blocked by its pipe comes to its end;
nothing is assumed about signals.

Deadlock is checked in every run but `CodeGen`, where a function returns, and
`SpawnThreads`, where the make ends and where, on Windows, a command can be
blocked on its pipe for ever; elsewhere a system that may stop (`Over`)
stutters.

## 4. Proofs

`PosixJobServer_proofs` proves for any finite sets of makes and workers, any
`-j`, any FIFO capacity and any bound on the stack:

* `Counting`: `Spec => [](TypeOK /\ CountsHolders)`, and `Typed` the first half
* `NoOverReturn`: `Spec => []NeverOverReturned`

The inductive invariant is `TypeOK /\ CountsHolders`. `CountsHolders` alone
does not hold up: a decrement keeps `current` a natural number only because the
worker that makes it is a holder, and the cardinalities need the sets to be
finite. The lemmas say what entering (`EnterHolders`), leaving
(`LeaveHolders`) and moving inside the counted part of the program
(`KeepHolders`) do to the set of holders, and `GoneKeepsCount` that a make's
end leaves none. `StepIInv` has a case per action of a worker, `NextIInv` per
disjunct of `Next`. The assumptions are `ProcsAssumption`, `ThreadsAssumption`
and `JobsAssumption` of `PosixJobServer`.

`WindowsJobServer_proofs` proves for any makes, any finite set of workers and
any `-j` (`TreeAssumption`):

* `Counting`: `Spec => [](TypeOK /\ CountsHolders)`, and `Typed` the first half
* `NoAbort`: `Spec => []NeverAborted`

Here the invariant is the conjunction of the three. Each needs the others: an
abort stops counted workers that `current` still counts, so the count is exact
because nothing aborts, and nothing aborts because a worker in `ReleaseJob` is
itself counted (`HolderIsCounted`). `Moves` covers every step that leaves the
count alone; `IncrementIInv` and `DecrementIInv` the two that do not.

`SpawnWait_proofs` proves all six safety properties of `SpawnWait`, for any
threads and numbers of commands, any sizes of pipe, read and output, any exit
codes and any handles, finite or not (`SpawnAssumption`, `HandleAssumption`):

* `Typed`, `Reported`, `Shown`, `Listing`, `OneMore`, `Leakless`: `Spec =>
  []TypeOK`, `[]StatusReported`, `[]OutputShown`, `[]OnlyWaitedFor`,
  `[]OneMoreAtMost`, `[]NothingLeaked`

For `Typed` and `Leakless` `Accounted` is proved with it: the pipes that were
left open are those of the early returns of `OS::Spawn`.

The inductive invariant has five parts. `Shapes` are the types. `Late`: whoever
started a command after the stop has not tested the flag since, so there is no
second one. `Owned`: the threads between start and `CloseHandle` have handles
of their own, which are the open ones; without it an erased or closed handle
could be that of another thread, and `OnlyWaitedFor` would not survive `Erase`.
`Found` says what state of its command a thread can meet at each place: that
`erase` means it has ended, that the loop of `poll` and `reap` is left only
after an end, and that a killed one has the code 0. `Ended`: once the threads
are joined they stay finished. There is a lemma for each action, with a step
for each part; `OwnedKept` and `OwnedClosed` are what the handles need in most
of them.

Two more say what can block, and with what. They are stated with the guards of
the steps (`ThreadFree`, `CommandFree`, `WaiterFree`), which TLC finds
equivalent to `ENABLED` of `ThreadStep`, of a command's steps and of
`WaiterStep` in every state of the instance of `SpawnThreads`.

* `Blocks`: `Spec => []OnlyFullPipeBlocks`. The one thing that can keep
  `RunOne` waiting is a command on Windows whose output is captured and has
  filled the pipe, which is read only after the wait. Every other thread, or
  its command, can go on, also after a stop. That it can hang so is real: TLC
  reaches such a state.
* `Drain`: a call that is `Drained` can always go on, and no step of anyone
  makes it one that is not. This is the safety part of `SpawnReturns`.

They need `Within` as well: no command writes more than it has to, and `RunOne`
waits for a thread of the list (`ThreadsAssumption`). `CommandStep` says what
any step at all does to one command and its pipe.

What the count of the POSIX job server does not tell, that the stack has a
byte, is false (`PosixReleaseRace`). `SerialJobServer_proofs` proves it, and
what depends on it, under the restriction of `SerialSpec`, for any finite sets
of makes and workers, any `-j`, and sub-makes in sub-makes to any depth:

* `Stacks`, `Conservation`, `OneExtra`: `SerialSpec => []StackMatchesJobs`,
  `[]BytesConserved`, `[]AtMostOneExtra`
* `OnlyExits`: `SerialSpec => NeverAborts`
* `Implements`: `SerialSpec => ImplementsJobSlots`
* `NoMissingByte`: `SerialSpec => []StackHasByte`, the property of
  `PosixReleaseRace`
* `OneWorker`: without the restriction, and for makes of one worker each,
  `Spec` has `BytesConserved`, `StackHasByte`, `NeverAborts` and
  `ImplementsJobSlots`. With `-j 1` the threads of a make take turns
  (`CommandByCommand` below) and one worker stands for them, so these hold of
  the code as it is. `Apart` says that a behaviour of `Spec` without overlaps
  is one of `SerialSpec`: the restriction excludes nothing else.

The inductive invariant `SInv` has `IInv` of `PosixJobServer_proofs`, the
restriction, and seven parts more. `StackMatchesJobs` and `BytesConserved` are
not inductive by themselves, for both count a make's first job apart: a step
must be known not to add or to remove that one unless it used the free slot.
`Accompanied` says so of a take that has a byte (a worker of the make stays in
its job until the take is over, as a release would overlap it), `HasByte` of a
release that found more than one job. `Waits`, `Quiet` and `WaitedFor` say that
a make that is not up has no worker at work and that each sub-make that is up
is some worker's command; without them a make could exit with a byte on its
stack, and `OneExtra` would lack the job that pays for the free slot of a
sub-make. The refinement maps `running` to the workers whose job is paid for. A
job starts in the abstract at the exchange or at the increment and ends at the
write of the byte, or at the test that finds no other job counted. That the
limit which `Start` tests is kept then follows from `BytesConserved` after the
step.

The second part of `WindowsJobServer_proofs` does the same for the semaphore:

* `Units`: `SerialSpec => []UnitsConserved`
* `Limit`: `SerialSpec => []Slots!SlotsRespected`
* `Implements`: `SerialSpec => ImplementsJobSlots`
* `OneWorker`: for makes of one worker each `Spec` has `UnitsConserved` and
  `ImplementsJobSlots`

`UnitsConserved` speaks of quiet states only and says nothing at the others, so
`WInv` has `Conserved`, which counts the unit in the hands of a worker between
wait and increment. `WaitsBusy` and `PostsMany` tell such a unit from the free
slot: who waits does so because the make has a job, who posts does because it
has another.

`JobSlots_proofs` proves `Respected`, for finitely many workers and any limit:
`Spec` of `JobSlots` keeps `SlotsRespected` at all times, the end of a job
included. The number of shared slots in use is a difference of two
cardinalities, and `CountingLemmas` says how the image of a set grows and
shrinks with the set.

`Runner_proofs` proves all six safety properties of `Runner` for any tree:

* `Typed`: `Spec => []TypeOK`
* `Once`, `OwnStack`: `Spec => []BuiltOnce`, `Spec => []OwnRuleStack`
* `Prerequisites`: `Spec => []PrerequisitesBuilt`, for the build for Windows
  (and `PrerequisitesInOrder` below, with `-j 1`, for both)
* `StopsPositive`, `ReportsPositive`: the two properties of failures for the
  statuses that `RunOne` takes for one, the positive ones, for any options but
  `-k -j 1`
* `Stops`, `Reports`: `Spec => []FailureStops`, `Spec => []FailureReported`,
  for the same options and commands that return no negative status

Each hypothesis is there because the property is false without it.
`PrerequisitesBuilt` fails on POSIX (`RunPosixHold`) and `FailureReported` with
`-k -j 1` (`RunKeepGoing`): both are findings. A status of -1, which
`OS::Spawn` returns for a command that could not be started, is compared with
`> 0` and stops nothing, so `FailureStops` fails with it; `StopsPositive` and
`ReportsPositive` hold whatever commands return.

Two invariants carry the proof. `TInv` says how the threads of a tree are
related: `TypeOK`; `InOrder`, that a node's prerequisites are started and their
results taken in the order of the list; `Stages`, what the place of a thread
tells about its prerequisites (that they are finished once it has come past
`join`, and none is started before `children`). `OneInv` adds what `-j 1`
means. `OneByOne` says that the threads that can take a step other than to wait
for a child are at most one; it is what makes the test and the setting of
`isBuilt` one step. From it follow `NotYet` and `BuildsAlone`, that a thread
between the two is the first of its goal, and `StackSet`, that nobody else sets
the rule stack. `Marked`, that a goal with a builder is marked, holds with any
`-j`. `Prerequisites` has its own invariant `HoldReleased`: a unit of `onHold`,
or a thread that has taken one, proves that a builder of the goal has released
it. `Failures` says that a positive result that was taken has stopped the
parent, and that a stopped one returns a positive result; `Statuses` that none
is negative. `Reports` then climbs: the set of the nodes that failed has, by
`OwnershipAssumption`, a member whose parent is not in it, and `FailureClimbs`
leaves only `Main` for that parent.

`OwnershipAssumption` is what `std::list<std::unique_ptr<Depends>> subgoals` in
`Depends.h` gives: a node is in one list, once, and following parents from any
set of nodes leads out of it. It is stated for sets because a statement by
steps would need an induction over the tree. Without it two parents could start
one thread, and `InOrder` would be false. TLC evaluates it in the runs of
`MCRunner`.

`RunnerProgress_proofs` proves that a make ends, as far as that is a matter of
safety, and what else its invariant gives:

* `NoDeadlock`: `Spec => []NeverStuck`. Until `RunCommands` has returned, some
  thread can take its next step.
* `Shrinks`: `Spec => WorkShrinks`. Each step lowers a natural number, the
  steps that the threads have left at most.
* `AllGone`: `Spec => []NoneRunning`. When `RunCommands` returns, no thread is
  still running.
* `GivesJobsBack`: `Spec => []JobsKept`. At most `MaxJobs + 1` commands run at
  once, and when `RunCommands` has returned every job has been given back, by
  threads that were stopped on their way as well.
* `PrerequisitesInOrder`: `Spec => [](OneJob => PrerequisitesBuilt)`, on POSIX
  too
* `CommandByCommand`: `Spec => []OneCommand`. With `-j 1` one command runs at a
  time, even if the job server has more slots.
* `Success`: `Spec => []SuccessMeansBuilt`. A make that returns 0 has built its
  goals and what they needed, without a failure; for the options and outcomes
  of `Reports`, on Windows or with `-j 1`.

The first three are `MakeEnds` but for one temporal step: a state function with
natural values that every step lowers, and a step that can be taken until the
end, with weak fairness, bring the end. That step stays with TLC (`RunTree`).
`CanStep` spells out the guards; TLC finds it equivalent to `ENABLED` of the
thread's actions on the instance of `RunTree`.

The invariant `PInv` has `TInv`, `HoldReleased` and four parts more.
`LinesInOrder` keeps a thread within its command lines, `JobsInUse` says whose
job `running` counts. `SomeoneBuilds` says that a goal that is marked has a
thread that builds it, and `UnitsKept` that no unit of `onHold` is lost: once
it is open, what is left and what the waiting threads have taken are
`HoldUnits` at least, so that with `HoldAssumption` a thread that still waits
finds one. For `NoDeadlock` take, of the goals that threads are at work on, one
that needs none of the others (`LowestGoal`). No thread of that goal waits for
a child. If one of them does not wait for the goal itself it can step, or waits
for a job whose holder can (`BusySteps`). If it does, the goal has a builder,
which is at work on it, or has returned and released it. This is where
`CircleAssumption` comes in: of every set of goals one has no prerequisite in
the set. It is what `Maker::Dependencies` leaves of a makefile: it walks the
prerequisites of a goal wherever it meets the goal, and refuses what nests 200
deep. (A circle by way of an order-only prerequisite whose file appears during
the walk could slip through; two threads would then wait for each other's
goal.) As with `OwnershipAssumption`, the form with sets saves an induction.

`Settled` carries `PrerequisitesInOrder`: with `-j 1` a thread that finds its
goal marked has a builder that has returned already. `Success` puts together
what `Failures` says of those that stopped, what `HoldReleased` and `Settled`
say of goals that another thread built, and the climb of `Reports`.

TLC agrees on `PInv`, `NeverStuck`, `WorkShrinks` and the rest, on the tree of
`RunTree`, for both systems and with -1 among the outcomes where the theorem
allows it.

The theorems compose. The job servers implement `JobSlots` under their
restrictions (`Implements`, twice), all that implements it keeps the limit
(`Respected`), and a make's threads run their commands on the jobs they have
taken and give them all back (`GivesJobsBack`). `Runner` with a job server step
by step in the place of the actions of `JobSlots` is not a module; the argument
is that the shared set `running` is all that these theorems have in common.

TLC agrees with the strengthened invariants on the instances of the runs:
`SInv` on that of `SerialTree`, `WInv` on that of `WinSerial`, and `OneInv`,
`HoldReleased`, `Failures` and `Statuses` on that of `RunTree`, where all but
`Statuses` hold with -1 among the outcomes too.

Only model-checked, and why:

* `MakeAlwaysGetsAJob`, `MakeEnds` and `SpawnReturns`: liveness under fairness
  is out of the prover's reach. What of the last two is safety is proved
  (`NoDeadlock`, `Shrinks`, `AllGone`; `Blocks`, `Drain`).
* `Dependencies` (`Consistent`, `BuiltFromCurrent`, `NothingTwice`,
  `IntermediatesRemoved`, `ForcedAreRun` and its `TypeOK`): the walk over the
  rules and the search of patterns are recursive operators over data, and what
  they compute would take an induction that the prover cannot do.
* `CodeGenerator` (all five properties): the emission walks syntax trees, and
  the machine uses bitwise operators.
* The runs that end in a violation: they show a counterexample.

## 5. Plan

1. Prove next: `ToRun` and `ToDelete` of `Dependencies` written as sets of paths
   in the tree, from which `IntermediatesRemoved` would follow without an
   induction over the tree.
2. Model next: `MakefileRestart` (`MakeMain::Run` and `Include`), the
   preprocessor's conditionals, include stack and macro table, and the scopes of
   the C front end.
3. Compose: `Runner` over the step-level job server, and over `SpawnWait`.

## 6. Not modelled

Nearly all lines of the repository are other projects' programs, copied in:
dosbox-x with its drivers and generated tables, Capstone, JWasm, the Open Watcom
linker, the resource compiler and the libraries of a C runtime. They have their
own specifications or none, and nothing in this repository decides about them,
so the share of the mapped lines in the whole stays very small however much of
JWmake and JWccLib is modelled.

In the repository's own programs these are left out, for these reasons:

* The makefile language (`Parser`, `Eval`, `Variable`): functions from strings
  to strings. What they decide reaches the models as data.
* The lexer, the grammar and the classes of the syntax tree of JWccLib:
  generated from, or a copy of, the C grammar; trees are data here.
* JWcc, JWcppLib's reading and writing of files, and the command lines of all
  tools: input and output without state of interest.
* `OS::SpawnWithRedirect` and the functions for paths and the console: single
  calls of the system.
* `TryTakeNewJob` and the other constructors of the job servers: nothing calls
  them.
