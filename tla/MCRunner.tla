------------------------------ MODULE MCRunner ------------------------------
(* A small dependency tree for Runner.                                     *)
(*                                                                         *)
(* The diamond: all needs a, b and d; a and b need c, which is two nodes.   *)
EXTENDS Runner, TLC

CONSTANTS all, a, b, c, d

DiamondNodes == {"all", "a", "b", "c1", "c2", "d"}
DiamondGoals == {all, a, b, c, d}
DiamondGoalOf ==
  [n \in DiamondNodes |->
     CASE n = "all" -> all [] n = "a" -> a [] n = "b" -> b [] n = "d" -> d [] OTHER -> c]
DiamondChildren ==
  [n \in DiamondNodes \cup {"main"} |->
     CASE n = "main" -> <<"all">>
       [] n = "all"  -> <<"a", "b", "d">>
       [] n = "a"    -> <<"c1">>
       [] n = "b"    -> <<"c2">>
       [] OTHER      -> << >>]
LinesOf == [g \in DiamondGoals |-> CASE g = all -> 0 [] g = a -> 2 [] OTHER -> 1]

SecondIgnored == {<<a, 2>>}
Exits         == {0, 1}

Option(oneJob, keepGoing, posix) ==
  [oneJob |-> oneJob, keepGoing |-> keepGoing, posix |-> posix]

(* -j 1; -j with more; the same with -k and .POSIX.  -j 1 -k is apart.      *)
MostOptions == {Option(TRUE, FALSE, FALSE), Option(FALSE, FALSE, FALSE),
                Option(FALSE, TRUE, TRUE)}
KeepGoingOneJob == {Option(TRUE, TRUE, TRUE)}
=============================================================================
