--------------------------- MODULE MCDependencies ---------------------------
(* Makefiles and invocations for Dependencies.                             *)
EXTENDS Dependencies, TLC

CONSTANTS all, prog, obj, lib, src

MCGoals == {all, prog, obj, lib, src}

NoRules == [g \in MCGoals |-> << >>]

Rule(prereqs, commands) ==
  [prereqs |-> prereqs, order |-> << >>, commands |-> commands, dontCare |-> FALSE]

(* all: deps, without commands, and the given rules and patterns.          *)
MakefileOf(deps, rules, candidates) ==
  [goals |-> <<all>>,
   rules |-> rules @@ (all :> <<Rule(deps, FALSE)>>) @@ NoRules,
   candidates |-> candidates @@ NoRules,
   phony |-> {}, intermediate |-> {}, secondary |-> {}, precious |-> {},
   hasDefault |-> FALSE, deleteOnError |-> TRUE]

Recipe(prereqs) == <<Rule(prereqs, TRUE)>>

(* prog and lib both need obj.                                             *)
Diamond ==
  MakefileOf(<<prog, lib>>,
             (prog :> Recipe(<<obj>>)) @@ (lib :> Recipe(<<obj>>)) @@ (obj :> Recipe(<<src>>)),
             << >>)

(* prog needs obj and lib, which are intermediate and secondary.           *)
Intermediates ==
  [MakefileOf(<<prog>>,
              (prog :> Recipe(<<obj, lib>>)) @@ (obj :> Recipe(<<src>>))
                @@ (lib :> Recipe(<<src>>)),
              << >>)
   EXCEPT !.intermediate = {obj}, !.secondary = {lib}]

(* A chain of patterns; obj is made from lib if there is one.              *)
Chain ==
  MakefileOf(<<prog>>, << >>, (prog :> <<<<obj>>>>) @@ (obj :> <<<<lib>>, <<src>>>>))

(* prog from obj and lib, or from obj; obj from src.  Without lib the      *)
(* first pattern fails when the rule of obj has been entered.              *)
TwoPatterns ==
  MakefileOf(<<prog>>, << >>,
             (prog :> <<<<obj, lib>>, <<obj>>>>) @@ (obj :> <<<<src>>>>))

(* all is phony and has commands; no .DELETE_ON_ERROR.                     *)
Phony ==
  [MakefileOf(<<prog>>,
              (all :> Recipe(<<prog>>)) @@ (prog :> Recipe(<<obj>>)) @@ (obj :> Recipe(<<src>>)),
              << >>)
   EXCEPT !.phony = {all}, !.deleteOnError = FALSE]

(* .DEFAULT makes what nothing else makes.                                 *)
Default ==
  [MakefileOf(<<prog>>, (prog :> Recipe(<<obj, src>>)), << >>) EXCEPT !.hasDefault = TRUE]

(* prog: obj; prog: .DONTCARE lib; obj: src | all.                         *)
Optional ==
  [MakefileOf(<< >>,
              (prog :> <<Rule(<<obj>>, TRUE),
                         [Rule(<<lib>>, FALSE) EXCEPT !.dontCare = TRUE]>>)
                @@ (obj :> <<[Rule(<<src>>, TRUE) EXCEPT !.order = <<all>>]>>)
                @@ (all :> Recipe(<< >>)),
              << >>)
   EXCEPT !.goals = <<prog>>]

(* Circles: of rules, and of patterns.                                     *)
Circle ==
  MakefileOf(<<prog>>, (prog :> Recipe(<<obj>>)) @@ (obj :> Recipe(<<prog>>)), << >>)
PatternCircle == MakefileOf(<<prog>>, << >>, (prog :> <<<<obj>>>>) @@ (obj :> <<<<prog>>>>))

SomeMakefiles ==
  {Diamond, Intermediates, Chain, TwoPatterns, Phony, Default, Optional, Circle,
   PatternCircle}

(* all needs prog, which a chain makes by way of obj, and obj itself.      *)
NamedInChain == MakefileOf(<<prog, obj>>, << >>, (prog :> <<<<obj>>>>) @@ (obj :> <<<<src>>>>))

OnlyNamedInChain == {NamedInChain}

PlainMake == [rebuildAll |-> FALSE, newFiles |-> {}]

SomeInvocations ==
  {PlainMake, [PlainMake EXCEPT !.rebuildAll = TRUE],
   [PlainMake EXCEPT !.newFiles = {src}]}
=============================================================================
