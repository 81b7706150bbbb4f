-------------------------- MODULE MCCodeGenerator --------------------------
(* Functions of three variables each, in code for 16, 32 and 64 bits, and   *)
(* the statements over them.                                                *)
EXTENDS CodeGenerator

Declared(scope, name, specs) ==
  [scope |-> scope, name |-> name, specs |-> specs, pointer |-> FALSE, nested |-> FALSE]
Function(bits, x, y, z) ==
  [bits |-> bits, returns |-> <<"int">>,
   vars |-> <<Declared("global", "x", x), Declared("param", "y", y), Declared("local", "z", z)>>]

(* The last two: an x in a block hides the x of the function and y is a      *)
(* pointer; all variables are global and the function has no frame.          *)
Functions ==
  << Function(64, <<"unsigned", "int">>, <<"char">>, <<"long long">>),
     Function(64, <<"bool">>, <<"unsigned", "short">>, <<"int">>),
     Function(32, <<"unsigned", "char">>, <<"int">>, <<"long long">>),
     Function(32, <<"short">>, <<"unsigned", "int">>, <<"unsigned", "long long">>),
     Function(16, <<"int">>, <<"unsigned", "char">>, <<"long">>),
     Function(16, <<"char">>, <<"int">>, <<"long", "int">>),
     [bits |-> 32, returns |-> <<"char">>,
      vars |-> <<Declared("global", "x", <<"int">>),
                 [Declared("param", "y", <<"char">>) EXCEPT !.pointer = TRUE],
                 [Declared("local", "x", <<"char">>) EXCEPT !.nested = TRUE],
                 Declared("local", "z", <<"int">>)>>],
     [bits |-> 64, returns |-> <<"short">>,
      vars |-> <<Declared("global", "x", <<"int">>), Declared("global", "y", <<"char">>),
                 Declared("global", "z", <<"short">>)>>] >>

Patterns == {1, 3, 27, 91, 65530}

V(name)     == [kind |-> "var", name |-> name]
N(v)        == [kind |-> "const", v |-> v]
O(l, op, r) == [kind |-> "op", op |-> op, l |-> l, r |-> r]
x == V("x")
y == V("y")
z == V("z")
Member == [kind |-> "member", name |-> "y"]
Minus  == [kind |-> "token", e |-> x]
Other  == [kind |-> "other"]
Real   == [kind |-> "float"]

Simple == {O(z, "=", O(x, op, y)) : op \in Arithmetic} \cup {O(x, op, y) : op \in Assignments}
          \cup {O(z, op, x) : op \in Assignments} \cup {O(y, op, N(2)) : op \in Assignments}
Nested == {O(z, "=", O(x, "-", O(y, "-", O(x, "*", y)))),
           O(O(x, "=", y), ",", O(z, "=", O(x, "/", y))),
           O(x, "=", O(z, "=", O(y, "%", N(3)))),
           O(x, "=", O(O(z, "+", N(1)), "*", O(z, "-", y))), O(z, "=", N(6))}
Broken == {O(z, "=", O(x, "+", O(y, "<", z))), O(x, "+=", Other), O(x, "=", Member),
           O(z, "=", Minus), O(O(x, "=", N(1)), ",", O(y, "-", Real)), O(Other, "=", x)}
Returns == {x, z, N(1), O(x, "-", y), O(z, "/", y), O(x, "-=", Other), O(y, "-", Other), Member}

BodyStatements ==
  {[kind |-> "expression", e |-> e] : e \in Simple \cup Nested \cup Broken} \cup
  {[kind |-> "return", e |-> e] : e \in Returns} \cup
  {[kind |-> "call"], [kind |-> "dropped"], [kind |-> "bare return"]}
=============================================================================
