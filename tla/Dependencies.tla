---------------------------- MODULE Dependencies ----------------------------
(***************************************************************************)
(* What JWmake decides to remake: Maker::CreateDependencyTree with         *)
(* Dependencies and the search for implicit rules, and the life of a       *)
(* directory under it: edits, removals and one make after the other, each  *)
(* of which may succeed, fail or be killed between two commands.           *)
(*                                                                         *)
(* Left out: variables, VPATH, .LOW_RESOLUTION_TIME, -o, the lists that    *)
(* only automatic variables show, messages.  What a pattern matches is     *)
(* data: candidates[g] are the prerequisites of the pattern rules that     *)
(* match g, in the order they are tried; they have no order-only ones.     *)
(* RuleList::doubleColon is FALSE in every run of the program, so a rule   *)
(* list has one kind of rule here.                                         *)
(* The commands run one after the other: Runner has the threads.           *)
(*                                                                         *)
(* The walks are recursive as the code is, so nothing is proved here.      *)
(***************************************************************************)
EXTENDS Naturals, SequencesExt

CONSTANTS
  Goals,         \* the names of files and targets
  Makefiles,     \* the makefiles to be considered
  Invocations,   \* the options of a make: -B is rebuildAll, -W names newFiles
  NestingLimit,  \* 200 in the code: how deep Dependencies may nest
  SearchLimit,   \* how deep SearchImplicitRules nests until the stack is full
  MaxClock       \* bound: edits and makes of one behaviour

OptionType == [rebuildAll : BOOLEAN, newFiles : SUBSET Goals]

RuleType == [prereqs : Seq(Goals), order : Seq(Goals),
             commands : BOOLEAN, dontCare : BOOLEAN]

MakerType == [opts : OptionType, rules : [Goals -> Seq(RuleType)],
              intermediate : SUBSET Goals, missingTarget : BOOLEAN, exited : BOOLEAN]

ASSUME MakefilesAssumption ==
  \A mk \in Makefiles :
    /\ mk.goals \in Seq(Goals)
    /\ \A g \in Goals : /\ mk.rules[g] \in Seq(RuleType)
                        /\ mk.candidates[g] \in Seq(Seq(Goals))
    /\ \A list \in {mk.phony, mk.intermediate, mk.secondary, mk.precious} :
         list \subseteq Goals
    /\ mk.hasDefault \in BOOLEAN /\ mk.deleteOnError \in BOOLEAN

ASSUME BoundsAssumption ==
  /\ Invocations \subseteq OptionType
  /\ {NestingLimit, SearchLimit, MaxClock} \subseteq Nat \ {0}

VARIABLES
  makefile,    \* the makefile, which does not change
  files,       \* files[g]: the time stamp of the file g, 0 when there is none
  clock,       \* the time
  maker,       \* the Maker and the RuleContainer of the current or last make
  depends,     \* Maker::depends, its tree
  todo,        \* the goals whose commands it has yet to run
  status,      \* "idle", "running", "failed", "stopped", "refused" or "done"
  \* What the user knows and make does not:
  from,        \* from[g]: the files g was last made from
  stale,       \* the files made from something that was edited since
  before,      \* the files as the current make found them
  disturbed    \* a file changed while the current make ran

directory == <<files, clock>>
history == <<from, stale, before, disturbed>>
vars == <<makefile, directory, maker, depends, todo, status, history>>

-----------------------------------------------------------------------------
(* Times.                                                                  *)

Later(s, t) == IF s > t THEN s ELSE t

(* Faulty: a file that is missing is as new as one that is missing.        *)
NotOlderPlain(s, t) == s >= t

(* Faulty: a file of the same time is taken for newer.                     *)
NotOlderStrict(s, t) == s > t

(* Time::operator>=.                                                       *)
NotOlder(s, t) == (s = t /\ s # 0) \/ s > t

(* Faulty: -W is forgotten.                                                *)
FileTimeAsIs(g, m) == files[g]

(* Maker::GetFileTime: what -W names is new.                               *)
FileTime(g, m) == IF g \in m.opts.newFiles THEN clock + 1 ELSE files[g]

-----------------------------------------------------------------------------
(* Implicit rules.  A search answers with [found, m]: whether it found a   *)
(* rule, and the maker with the rules it has entered on the way.           *)

HasCommands(rules) == \E i \in DOMAIN rules : rules[i].commands

Mentioned(g, m) == m.rules[g] # << >>

EnterRule(g, prereqs, m) ==
  [m EXCEPT !.rules[g] = <<[prereqs |-> prereqs, order |-> << >>,
                            commands |-> TRUE, dontCare |-> FALSE]>> \o @]

EnterSpecificRule(g, prereqs, outerMost, m) ==
  [EnterRule(g, prereqs, m) EXCEPT
     !.intermediate = IF outerMost THEN @ ELSE @ \cup {g}]

EnterDefaultRule(g, m) == IF Mentioned(g, m) THEN m ELSE EnterRule(g, << >>, m)

(* The prerequisites of a pattern rule are tried in turn; with implicit,   *)
(* those that are not there are searched for in turn with Search, which is *)
(* SearchImplicitRules.  What was entered for the first of them stays when *)
(* a later one is not found.                                               *)
ExistsOrMentioned(g, prereqs, implicit, outerMost, Search, depth, m) ==
  LET Try(search, p) ==
        IF ~search.found \/ Mentioned(p, search.m) \/ FileTime(p, search.m) # 0
        THEN search
        ELSE IF implicit THEN Search[p, FALSE, depth + 1, search.m]
        ELSE [search EXCEPT !.found = FALSE]
      Enter(search) ==
        IF search.found
        THEN [search EXCEPT !.m = EnterSpecificRule(g, prereqs, outerMost, @)]
        ELSE search
  IN  Enter(FoldLeft(Try, [found |-> TRUE, m |-> m], prereqs))

(* First the patterns whose prerequisites are there, then those that have  *)
(* to be made by other patterns, then .DEFAULT.                            *)
SearchImplicitRules[g \in Goals, outerMost \in BOOLEAN, depth \in Nat, m \in MakerType] ==
  LET Try(implicit, search, prereqs) ==
        IF search.found THEN search
        ELSE ExistsOrMentioned(g, prereqs, implicit, outerMost,
                               SearchImplicitRules, depth, search.m)
      All(implicit, search) ==
        FoldLeft(LAMBDA s, prereqs : Try(implicit, s, prereqs), search, makefile.candidates[g])
      OrDefault(search) ==
        IF search.found \/ ~makefile.hasDefault THEN search
        ELSE [found |-> TRUE, m |-> EnterDefaultRule(g, search.m)]
  IN  IF depth > SearchLimit THEN [found |-> TRUE, m |-> [m EXCEPT !.exited = TRUE]]
      ELSE OrDefault(All(TRUE, All(FALSE, [found |-> FALSE, m |-> m])))

-----------------------------------------------------------------------------
(* The tree.  Dependencies answers with [nodes, time, m]: the node of the  *)
(* goal, in a sequence of one, or no node when the goal is up to date; the *)
(* newest time in or under it; the maker.                                  *)

Answer(nodes, time, m) == [nodes |-> nodes, time |-> time, m |-> m]

Node(g, commands, m, children) ==
  [goal      |-> g,
   commands  |-> commands,
   toDelete  |-> g \in m.intermediate \ (makefile.precious \cup makefile.secondary),
   secondary |-> g \in m.intermediate \cup makefile.secondary,
   children  |-> children]

(* Faulty: intermediate files are left out, also those that are needed.    *)
PrunedIntermediate(g, goalTime, dependsTime, children, m) ==
  /\ ~m.opts.rebuildAll
  /\ NotOlder(goalTime, dependsTime) \/ g \in m.intermediate
  /\ g \notin makefile.phony
  /\ \A i \in DOMAIN children : children[i].secondary

(* A goal is left out when its file is not older than anything under it    *)
(* and nothing under it has to be made but what is intermediate.           *)
Pruned(g, goalTime, dependsTime, children, m) ==
  /\ ~m.opts.rebuildAll
  /\ NotOlder(goalTime, dependsTime)
  /\ g \notin makefile.phony
  /\ \A i \in DOMAIN children : children[i].secondary

(* The rules are gone through with Visit, which is Dependencies.  An       *)
(* order-only prerequisite is looked at when the goal does not exist: the  *)
(* code fetches the prerequisite's time and tests the goal's.              *)
WithRules(g, err, Visit, depth, m) ==
  LET known == IF HasCommands(m.rules[g]) THEN m
               ELSE SearchImplicitRules[g, TRUE, 0, m].m
      AddPrerequisite(sofar, a) ==
        Answer(sofar.nodes \o a.nodes, Later(sofar.time, a.time), a.m)
      AddOrdered(sofar, a) == Answer(sofar.nodes \o a.nodes, sofar.time, a.m)
      AddRule(sofar, rule) ==
        LET See(Add(_, _), b, p) == Add(b, Visit[p, err /\ ~rule.dontCare, depth + 1, b.m])
        IN  FoldLeft(LAMBDA b, p : IF FileTime(g, m) # 0 THEN b ELSE See(AddOrdered, b, p),
                     FoldLeft(LAMBDA b, p : See(AddPrerequisite, b, p),
                              sofar, rule.prereqs),
                     rule.order)
      AddAll(k) == FoldLeft(AddRule, Answer(<< >>, 0, k), k.rules[g])
      Decide(below) ==
        Answer(IF Pruned(g, FileTime(g, m), below.time, below.nodes, m) THEN << >>
               ELSE <<Node(g, HasCommands(below.m.rules[g]), m, below.nodes)>>,
               Later(FileTime(g, m), below.time), below.m)
  IN  Decide(AddAll(known))

(* No rule: an implicit one, or the file must be there.  The time of a     *)
(* file that nobody cares about does not count.                            *)
WithoutRules(g, err, Visit, depth, m) ==
  LET missing == FileTime(g, m) = 0 /\ g \notin makefile.phony
      Leaf(search) ==
        IF search.found THEN Visit[g, err, depth + 1, search.m]
        ELSE IF ~err THEN Answer(<< >>, 0, search.m)
        ELSE Answer(<< >>, FileTime(g, m), [search.m EXCEPT !.missingTarget = @ \/ missing])
  IN  Leaf(SearchImplicitRules[g, TRUE, 0, m])

Dependencies[g \in Goals, err \in BOOLEAN, depth \in Nat, m \in MakerType] ==
  IF m.exited THEN Answer(<< >>, 0, m)
  ELSE IF depth > NestingLimit THEN Answer(<< >>, 0, [m EXCEPT !.exited = TRUE])
  ELSE IF Mentioned(g, m) THEN WithRules(g, err, Dependencies, depth, m)
  ELSE WithoutRules(g, err, Dependencies, depth, m)

NewMaker(opts) ==
  [opts |-> opts, rules |-> makefile.rules, intermediate |-> makefile.intermediate,
   missingTarget |-> FALSE, exited |-> FALSE]

CreateDependencyTree(opts) ==
  FoldLeft(LAMBDA tree, g :
             LET a == Dependencies[g, TRUE, 1, tree.m]
             IN  Answer(tree.nodes \o a.nodes, 0, a.m),
           Answer(<< >>, 0, NewMaker(opts)), makefile.goals)

-----------------------------------------------------------------------------
(* Walks over the tree.                                                    *)

(* The goals whose commands the runner runs, in its order with -j 1: each  *)
(* goal once, after what is under it.                                      *)
RECURSIVE Schedule(_, _)
Schedule(nodes, start) ==
  FoldLeft(LAMBDA s, n :
             IF n.goal \in s.built THEN s
             ELSE LET under == Schedule(n.children, [s EXCEPT !.built = @ \cup {n.goal}])
                  IN  IF n.commands THEN [under EXCEPT !.run = Append(@, n.goal)]
                      ELSE under,
           start, nodes)

ToRun(nodes) == Schedule(nodes, [built |-> {}, run |-> << >>]).run

(* Faulty: only the top of the tree.                                       *)
ToDeleteOnTop(nodes) == {nodes[i].goal : i \in {j \in DOMAIN nodes : nodes[j].toDelete}}

(* Runner::DeleteOne's files.                                              *)
RECURSIVE ToDelete(_)
ToDelete(nodes) ==
  UNION {ToDeleteOnTop(<<nodes[i]>>) \cup ToDelete(nodes[i].children) :
           i \in DOMAIN nodes}

(* The prerequisites of a goal that its makefile cares about.              *)
Prereqs(g, m) ==
  UNION {ToSet(m.rules[g][i].prereqs) :
           i \in {j \in DOMAIN m.rules[g] : ~m.rules[g][j].dontCare}}

-----------------------------------------------------------------------------
Init ==
  /\ makefile \in Makefiles
  /\ files = [g \in Goals |-> 0]
  /\ clock = 0
  /\ maker = NewMaker([rebuildAll |-> FALSE, newFiles |-> {}])
  /\ depends = << >>
  /\ todo = << >>
  /\ status = "idle"
  /\ from = [g \in Goals |-> {}]
  /\ stale = {}
  /\ before = files
  /\ disturbed = FALSE

Running == status \in {"running", "failed"}

(* make is started: the tree is built, and nothing is run if it failed.    *)
(* -W names files that are there.                                          *)
Start(tree) ==
  LET fine == ~tree.m.exited /\ ~tree.m.missingTarget
  IN  /\ maker' = tree.m
      /\ depends' = IF fine THEN tree.nodes ELSE << >>
      /\ todo' = ToRun(depends')
      /\ status' = IF fine THEN "running" ELSE "refused"

Invoke(opts) ==
  /\ ~Running
  /\ \A g \in opts.newFiles : files[g] # 0
  /\ clock < MaxClock
  /\ clock' = clock + 1
  /\ Start(CreateDependencyTree(opts))
  /\ before' = files
  /\ disturbed' = FALSE
  /\ UNCHANGED <<makefile, files, from, stale>>

(* The commands of the next goal run.  Those of a phony one make no file.  *)
RunOne ==
  /\ status = "running"
  /\ todo # << >>
  /\ LET g == Head(todo)
     IN  /\ files' = IF g \in makefile.phony THEN files ELSE [files EXCEPT ![g] = clock]
         /\ from' = [from EXCEPT ![g] = Prereqs(g, maker)]
         /\ stale' = IF Prereqs(g, maker) \cap stale = {} THEN stale \ {g}
                     ELSE stale \cup {g}
  /\ todo' = Tail(todo)
  /\ UNCHANGED <<makefile, clock, maker, depends, status, before, disturbed>>

(* Faulty: the make returns at once.                                       *)
CommandsFailAtOnce ==
  /\ status = "running"
  /\ todo # << >>
  /\ files' = [files EXCEPT ![Head(todo)] = 0]
  /\ status' = "stopped"
  /\ UNCHANGED <<makefile, clock, maker, depends, todo, history>>

(* They fail, and may have written a part of the file, which is removed    *)
(* under .DELETE_ON_ERROR.                                                 *)
CommandsFail ==
  /\ status = "running"
  /\ todo # << >>
  /\ \/ /\ makefile.deleteOnError
        /\ files' = [files EXCEPT ![Head(todo)] = 0]
        /\ UNCHANGED stale
     \/ /\ ~makefile.deleteOnError
        /\ UNCHANGED <<files, stale>>
     \/ /\ ~makefile.deleteOnError
        /\ Head(todo) \notin makefile.phony
        /\ files' = [files EXCEPT ![Head(todo)] = clock]
        /\ stale' = stale \cup {Head(todo)}
  /\ status' = "failed"
  /\ UNCHANGED <<makefile, clock, maker, depends, todo, from, before, disturbed>>

(* RunCommands is through, or stopped: the intermediate files go.          *)
DeleteOne ==
  /\ status = "failed" \/ (status = "running" /\ todo = << >>)
  /\ files' = [g \in Goals |-> IF g \in ToDelete(depends) THEN 0 ELSE files[g]]
  /\ todo' = << >>
  /\ status' = IF status = "failed" THEN "stopped" ELSE "done"
  /\ UNCHANGED <<makefile, clock, maker, depends, history>>

(* The make is killed between two commands.                                *)
Killed ==
  /\ Running
  /\ todo' = << >>
  /\ status' = "idle"
  /\ UNCHANGED <<makefile, directory, maker, depends, history>>

(* The user.  A file without rules may be edited, also under a running     *)
(* make as long as nothing in the makefile can be intermediate (the edit   *)
(* would be lost with the file that was made before it and then deleted);  *)
(* a file that is made may be removed between makes.                       *)
IsSource(g) == makefile.rules[g] = << >> /\ makefile.candidates[g] = << >>

MayHaveIntermediates ==
  \/ makefile.intermediate \cup makefile.secondary # {}
  \/ \E g \in Goals : makefile.candidates[g] # << >>

RECURSIVE MadeFrom(_)
MadeFrom(changed) ==
  LET users == {g \in Goals : from[g] \cap changed # {}}
  IN  IF users \subseteq changed THEN changed ELSE MadeFrom(changed \cup users)

AfterChange == IF Running THEN status ELSE "idle"

Edit(g) ==
  /\ IsSource(g)
  /\ Running => ~MayHaveIntermediates
  /\ clock < MaxClock
  /\ clock' = clock + 1
  /\ files' = [files EXCEPT ![g] = clock + 1]
  /\ stale' = stale \cup (MadeFrom({g}) \ {g})
  /\ disturbed' = (disturbed \/ Running)
  /\ status' = AfterChange
  /\ UNCHANGED <<makefile, maker, depends, todo, from, before>>

Unlink(g) ==
  /\ ~Running
  /\ ~IsSource(g)
  /\ files[g] # 0
  /\ files' = [files EXCEPT ![g] = 0]
  /\ status' = "idle"
  /\ UNCHANGED <<makefile, clock, maker, depends, todo, history>>

Next ==
  \/ \E opts \in Invocations : Invoke(opts)
  \/ RunOne
  \/ CommandsFail
  \/ DeleteOne
  \/ Killed
  \/ \E g \in Goals : Edit(g) \/ Unlink(g)

Spec == Init /\ [][Next]_vars

-----------------------------------------------------------------------------
(* The goals that a make has to see to: the top ones, and the              *)
(* prerequisites of those that are not intermediate or secondary.          *)
Passable(m) == Goals \ (m.intermediate \cup makefile.secondary)

RECURSIVE Under(_, _, _)
Under(reached, through, m) ==
  LET more == UNION {Prereqs(g, m) : g \in reached} \cap through
  IN  IF more \subseteq reached THEN reached ELSE Under(reached \cup more, through, m)

Needed(m) == Under(ToSet(makefile.goals), Passable(m), m)

MakesFile(g, m) ==
  g \notin makefile.phony /\ (m.rules[g] = << >> \/ HasCommands(m.rules[g]))

(* Nobody edits files under the make, and the makefile has                 *)
(* .DELETE_ON_ERROR: without it a half written file passes for a new one.  *)
Orderly == ~disturbed /\ makefile.deleteOnError

(* Every variable has its type.                                            *)
TypeOK ==
  /\ makefile \in Makefiles
  /\ files \in [Goals -> 0..MaxClock]
  /\ clock \in 0..MaxClock
  /\ maker \in MakerType
  /\ \A i \in DOMAIN depends : depends[i].goal \in Goals
  /\ todo \in Seq(Goals)
  /\ Running \/ todo = << >>
  /\ status \in {"idle", "running", "failed", "stopped", "refused", "done"}
  /\ from \in [Goals -> SUBSET Goals]
  /\ stale \subseteq Goals
  /\ before \in [Goals -> 0..MaxClock]
  /\ disturbed \in BOOLEAN

(* When a make has ended well, each file it had to see to is there and was *)
(* made from what its sources are now, whatever was edited, removed,       *)
(* killed or failed before: the decision is taken from time stamps alone.  *)
Consistent ==
  (status = "done" /\ Orderly) =>
    \A g \in Needed(maker) \ maker.opts.newFiles :
      MakesFile(g, maker) => files[g] # 0 /\ g \notin stale

(* Commands run when every prerequisite that is a file is there and is up  *)
(* to date: Dependencies leaves out nothing that a command needs, the      *)
(* intermediate files of earlier makes that were deleted included.  A file *)
(* that -W says is new is taken at the user's word.                        *)
BuiltFromCurrent ==
  [][(RunOne /\ Orderly) =>
       \A p \in Prereqs(Head(todo), maker) \ maker.opts.newFiles :
         MakesFile(p, maker) => files[p] # 0 /\ p \notin stale]_vars

(* A plain make right after one that ended well has no commands to run,    *)
(* unless a target is phony: intermediate files that were deleted, times   *)
(* that are equal and targets without a file do not make it run again.     *)
NothingTwice ==
  [][(/\ status = "done" /\ ~disturbed
      /\ \E opts \in Invocations : Invoke(opts)
      /\ ~maker'.opts.rebuildAll /\ maker'.opts.newFiles = {}
      /\ makefile.phony = {}) => todo' = << >>]_vars

(* An intermediate file that was not there before a make is not there      *)
(* after it, whether the make ended well or failed.                        *)
IntermediatesRemoved ==
  [][DeleteOne =>
       \A g \in maker.intermediate \ (makefile.precious \cup makefile.secondary) :
         before[g] = 0 => files'[g] = 0]_vars

(* -B runs the commands of all goals, and -W f of those that are made from *)
(* f, also where there are intermediate files on the way.                  *)
ForcedAreRun ==
  [][(status' = "running" /\ ~Running) =>
       \A g \in Needed(maker') :
         LET below == Under({g}, Goals, maker') \ {g}
         IN  (/\ HasCommands(maker'.rules[g])
              /\ maker'.opts.rebuildAll \/ maker'.opts.newFiles \cap below # {})
             => g \in ToSet(todo')]_vars

(* A file that the makefile names, and does not list as intermediate, is   *)
(* not removed by a make that ends well.                                   *)
Named(g) ==
  \/ g \in ToSet(makefile.goals)
  \/ makefile.rules[g] # << >>
  \/ \E h \in Goals : \E i \in DOMAIN makefile.rules[h] :
       g \in ToSet(makefile.rules[h][i].prereqs \o makefile.rules[h][i].order)

NamedFilesKept ==
  [][(DeleteOne /\ status = "running") =>
       \A g \in Goals \ makefile.intermediate :
         Named(g) /\ files[g] # 0 => files'[g] # 0]_vars
=============================================================================
