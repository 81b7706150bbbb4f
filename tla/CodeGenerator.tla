---------------------------- MODULE CodeGenerator ----------------------------
(* MasmCodeGenerator of JWccLib: the code it emits for the statements of a  *)
(* function, run on a machine with the registers that code uses, beside     *)
(* what the C program means.                                                *)
(*                                                                         *)
(* A byte has ByteBits bits, so that every width (char to long long, 16 to  *)
(* 64 bit registers) stays within TLC's integers and wraps within a few     *)
(* steps.  An expression is a tree of records, as the grammar builds it:    *)
(*   const   an integer constant      float   any other constant            *)
(*   var     an identifier (token3)   member  s.x or p->x, named by x        *)
(*   op      a binary operator        token   a node that keeps its operator *)
(*                                            in token3: unary, ++ and --    *)
(*   other   calls, indexing, casts, sizeof, ?:                              *)
EXTENDS Integers, Sequences, SequencesExt, FiniteSets, Bitwise

CONSTANTS
  ByteBits,       \* bits of a byte
  Environments,   \* sequence of functions: bits, declared variables, type returned
  Starts,         \* patterns the variables may start from
  Statements,     \* statements a body is made of
  MaxStatements,  \* bound: statements run
  Leftover        \* what registers hold when the function is entered

ASSUME CodeAssumption ==
  /\ ByteBits \in Nat \ {0}
  /\ MaxStatements \in Nat
  /\ \A i \in DOMAIN Environments : Environments[i].bits \in {16, 32, 64}

VARIABLES
  k,         \* the function that is compiled and run, with its variables
  cpu,       \* memory, registers and stack of the machine
  pc,        \* "body", then how the code was left
  n,         \* statements run
  start,     \* the memory the function began with
  assigned,  \* names that a statement assigned
  want,      \* the memory as C defines it
  value,     \* the value returned, as C defines it, or what a caller finds
  exact,     \* every value so far was defined by C and fitted the register
  ring,      \* only + - * & | ^ and assignments so far
  whole      \* every expression so far was emitted to its end

vars == <<k, cpu, pc, n, start, assigned, want, value, exact, ring, whole>>

-----------------------------------------------------------------------------
(* Numbers of a given count of bytes: patterns and their readings.          *)

Width(bytes)   == 2 ^ (ByteBits * bytes)
Pattern(v, bytes) == v % Width(bytes)
Signed(p, bytes)  == IF 2 * p >= Width(bytes) THEN p - Width(bytes) ELSE p
Reading(p, bytes, unsign) == IF unsign THEN p ELSE Signed(p, bytes)
Least(a, b)    == IF a < b THEN a ELSE b
Truncated(a, b) ==
  LET size(x) == IF x < 0 THEN -x ELSE x
      q == size(a) \div size(b)
  IN  IF (a < 0) = (b < 0) THEN q ELSE -q

-----------------------------------------------------------------------------
(* Declarations, as ProgramData collects them.                              *)

ArchitectureBytes(f) == f.bits \div 8

(* The last specifier that is not signed or unsigned names the type.        *)
BaseSpecifiers(specs) == SelectSeq(specs, LAMBDA s : s \notin {"signed", "unsigned"})
SpecifiersType(scope, specs) ==
  IF BaseSpecifiers(specs) # << >> THEN Last(BaseSpecifiers(specs))
  ELSE IF scope = "global" THEN "unknown" ELSE "int"

VariableBytes(f, v) ==
  IF v.pointer THEN ArchitectureBytes(f)
  ELSE CASE v.type \in {"char", "bool"} -> 1
         [] v.type = "short" -> 2
         [] v.type = "int" -> IF f.bits = 16 THEN 2 ELSE 4
         [] v.type \in {"long", "float"} -> 4
         [] v.type \in {"long long", "double"} -> 8
         [] v.type = "long double" -> 10
         [] OTHER -> ArchitectureBytes(f)

(* What PROC and LOCAL reserve, nothing for a type without a name; and .data,*)
(* where an int has four bytes always.                                       *)
StorageBytes(f, v) == IF v.type = "unknown" /\ ~v.pointer THEN 0 ELSE VariableBytes(f, v)
GlobalBytes(f, v)  == IF v.type = "int" /\ ~v.pointer THEN 4 ELSE StorageBytes(f, v)

Collected(f, d) ==
  LET v == [scope |-> d.scope, name |-> d.name, pointer |-> d.pointer, nested |-> d.nested,
            type |-> SpecifiersType(d.scope, d.specs), unsign |-> Contains(d.specs, "unsigned")]
  IN  v @@ [bytes |-> VariableBytes(f, v),
            storage |-> IF d.scope = "global" THEN GlobalBytes(f, v) ELSE StorageBytes(f, v)]

-----------------------------------------------------------------------------
(* What C says of the same declarations.                                    *)

CBase(specs) ==
  LET named == {"char", "short", "bool", "long", "long long", "float", "double"} \cap
               {specs[i] : i \in DOMAIN specs}
  IN  IF named = {} THEN "int" ELSE CHOOSE t \in named : TRUE

IntBytes(f) == IF f.bits = 16 THEN 2 ELSE 4

CType(f, specs) ==
  LET t == CBase(specs)
  IN  [size |-> CASE t \in {"char", "bool"} -> 1 [] t = "short" -> 2 [] t = "int" -> IntBytes(f)
                  [] t = "long" -> 4 [] OTHER -> 8,
       rank |-> CASE t = "bool" -> 0 [] t = "char" -> 1 [] t = "short" -> 2 [] t = "int" -> 3
                  [] t = "long" -> 4 [] OTHER -> 5,
       unsign |-> t = "bool" \/ Contains(specs, "unsigned")]

(* A variable whose declaration was collected as C means it: an integer      *)
(* whose type name was not lost, as the long of "long int" is.               *)
Plain(d) ==
  /\ ~d.pointer
  /\ CBase(d.specs) \notin {"float", "double"}
  /\ SpecifiersType(d.scope, d.specs) = CBase(d.specs)

(* asmFindVariable: locals, of whatever block, then parameters, then globals.*)
Unknown == 0
Rank(scope) == CASE scope = "local" -> 1 [] scope = "param" -> 2 [] OTHER -> 3
Nearest(table, objects) ==
  IF objects = {} THEN Unknown
  ELSE CHOOSE o \in objects : \A p \in objects :
         \/ Rank(table[o].scope) < Rank(table[p].scope)
         \/ Rank(table[o].scope) = Rank(table[p].scope) /\ o <= p
Found(table, name) == Nearest(table, {o \in DOMAIN table : table[o].name = name})
FindVariable(f, name) == IF name \in DOMAIN f.found THEN f.found[name] ELSE Unknown

(* The variable C means at the top of the body.                              *)
CFound(table, name) ==
  Nearest(table, {o \in DOMAIN table : table[o].name = name /\ ~table[o].nested})

(* A function with its table, what each name leads to in it, and the names   *)
(* that lead to a plain variable, the one C means.                           *)
WithNames(f, table, names) ==
  [table |-> table,
   found |-> [name \in names |-> Found(table, name)],
   known |-> {name \in names : LET o == Found(table, name)
                                IN  o = CFound(table, name) /\ table[o].plain}] @@ f
Compiled(f) ==
  WithNames(f,
    [o \in DOMAIN f.vars |->
       Collected(f, f.vars[o]) @@ [plain |-> Plain(f.vars[o]), ctype |-> CType(f, f.vars[o].specs)]],
    {f.vars[o].name : o \in DOMAIN f.vars})

-----------------------------------------------------------------------------
(* The instructions.  Values load and store say how wide they are and, for  *)
(* a load, how the rest of the register is filled.                          *)

Imm(v)            == [op |-> "imm", v |-> v]
Load(o, b, fill)  == [op |-> "load", var |-> o, bytes |-> b, fill |-> fill]
Store(o, at, b, r) == [op |-> "store", var |-> o, at |-> at, bytes |-> b, from |-> r]
Extend(unsign)    == [op |-> IF unsign THEN "xor high" ELSE "sign extend"]
Do(op)            == [op |-> op]

(* Faulty: a narrow variable is always sign extended.                        *)
SignedLoad(f, o) ==
  IF o = Unknown \/ f.table[o].bytes >= ArchitectureBytes(f)
  THEN <<Load(o, ArchitectureBytes(f), "none")>>
  ELSE <<Load(o, f.table[o].bytes, "sign")>>

(* Faulty: a variable wider than the register is loaded whole.               *)
WideLoad(f, o) ==
  IF o = Unknown THEN <<Load(o, ArchitectureBytes(f), "none")>>
  ELSE <<Load(o, f.table[o].bytes,
              IF f.table[o].unsign \/ f.table[o].bytes >= ArchitectureBytes(f) THEN "zero" ELSE "sign")>>

LoadVariable(f, o) ==
  IF o = Unknown \/ f.table[o].bytes >= ArchitectureBytes(f)
  THEN <<Load(o, ArchitectureBytes(f), "none")>>
  ELSE <<Load(o, f.table[o].bytes, IF f.table[o].unsign THEN "zero" ELSE "sign")>>

(* Faulty: the whole register is stored.                                     *)
RegisterStore(f, o) == <<Store(o, 0, ArchitectureBytes(f), "acc")>>

(* A destination wider than the register gets the accumulator, then copies   *)
(* of its sign, or zeros, in pieces no wider than the register.              *)
StoreVariable(f, o) ==
  LET reg == ArchitectureBytes(f)
      bytes == IF o = Unknown THEN reg ELSE f.table[o].bytes
      upper == [i \in 1 .. (bytes - 1) \div reg |->
                  Store(o, i * reg, Least(reg, bytes - i * reg), "high")]
  IN  IF bytes <= reg THEN <<Store(o, 0, bytes, "acc")>>
      ELSE <<Store(o, 0, reg, "acc"), Extend(f.table[o].unsign)>> \o upper

Assignments == {"=", "+=", "-=", "*=", "/=", "%=", "&=", "|=", "^=", "<<=", ">>="}
Shifts      == {"<<=", ">>="}
Arithmetic  == {"+", "-", "*", "/", "%", "&", "|", "^"}
Plainly(op) ==
  CASE op = "+=" -> "+" [] op = "-=" -> "-" [] op = "*=" -> "*" [] op = "/=" -> "/"
    [] op = "%=" -> "%" [] op = "&=" -> "&" [] op = "|=" -> "|" [] op = "^=" -> "^" [] OTHER -> op

(* Faulty: the left operand of a shift stays on the stack.                   *)
OperandsUnpopped(op) == IF op \in Shifts THEN <<Do("mov cl")>> ELSE <<Do("mov second"), Do("pop")>>

(* The right operand is in the accumulator, the left one on the stack.       *)
Operands(op) == <<Do(IF op \in Shifts THEN "mov cl" ELSE "mov second"), Do("pop")>>

(* Faulty: the dividend is not extended.                                     *)
OperationUnextended(op) ==
  CASE op = "/" -> <<Do("idiv")>>
    [] op = "%" -> <<Do("idiv"), Do("mov high")>>
    [] OTHER    -> <<Do(op)>>

Operation(op) ==
  CASE op = "/" -> <<Extend(FALSE), Do("idiv")>>
    [] op = "%" -> <<Extend(FALSE), Do("idiv"), Do("mov high")>>
    [] OTHER    -> <<Do(op)>>

Combine(op) == Operands(op) \o Operation(op)

Emitted(code) == [code |-> code, ok |-> TRUE]
Refused       == [code |-> << >>, ok |-> FALSE]

(* What was written before an early return false stays in the output.        *)
Then(first, next) ==
  IF first.ok THEN [code |-> first.code \o next.code, ok |-> next.ok] ELSE first

IsName(e)  == e.kind \in {"var", "member", "token"}
Name(e)    == IF e.kind = "token" THEN "" ELSE e.name
Object(f, e) == FindVariable(f, Name(e))

(* emitMasmExpression.  The operator of a unary, ++ or -- is taken for an    *)
(* identifier without a name, which is loaded: the branch for NT_UNARY is    *)
(* not reached.                                                              *)
RECURSIVE EmitExpression(_, _)
EmitAssignment(f, op, o, right) ==
  IF op = "=" THEN Then(right, Emitted(StoreVariable(f, o) \o LoadVariable(f, o)))
  ELSE Then(Emitted(LoadVariable(f, o) \o <<Do("push")>>),
            Then(right, Emitted(Combine(Plainly(op)) \o StoreVariable(f, o) \o LoadVariable(f, o))))

EmitExpression(f, e) ==
  CASE e.kind = "const" -> Emitted(<<Imm(e.v)>>)
    [] IsName(e) -> Emitted(LoadVariable(f, Object(f, e)))
    [] e.kind = "op" /\ e.op \in Assignments ->
         IF IsName(e.l) THEN EmitAssignment(f, e.op, Object(f, e.l), EmitExpression(f, e.r))
         ELSE Refused
    [] e.kind = "op" /\ e.op = "," -> Then(EmitExpression(f, e.l), EmitExpression(f, e.r))
    [] e.kind = "op" /\ e.op \in Arithmetic ->
         Then(EmitExpression(f, e.l),
              Then(Emitted(<<Do("push")>>),
                   Then(EmitExpression(f, e.r), Emitted(Combine(e.op)))))
    [] OTHER -> Refused

(* The assembler knows every name the code uses.                             *)
Assembles(code) ==
  \A i \in DOMAIN code : code[i].op \in {"load", "store"} => code[i].var # Unknown

-----------------------------------------------------------------------------
(* The machine.                                                              *)

Filled(p, bytes, reg, fill) ==
  IF fill = "sign" THEN Pattern(Signed(p, bytes), reg) ELSE p

Result(op, a, b, reg) ==
  CASE op = "+" -> Pattern(a + b, reg)
    [] op = "-" -> Pattern(a - b, reg)
    [] op = "*" -> Pattern(Signed(a, reg) * Signed(b, reg), reg)
    [] op = "&" -> a & b
    [] op = "|" -> a | b
    [] OTHER    -> a ^^ b

(* The processor masks a count: by the width, by 32 bits for a 16 bit one.   *)
(* A scaled byte is too small for the counts, so cl holds the register.      *)
Count(c, reg) == c % (ByteBits * (IF reg = 8 THEN 8 ELSE 4))
Shifted(op, a, c, reg) ==
  IF op = "<<=" THEN Pattern(a * 2 ^ Count(c, reg), reg)
  ELSE Pattern(Signed(a, reg) \div 2 ^ Count(c, reg), reg)

(* A division whose quotient does not fit the register is a fault; one with  *)
(* a high half that is neither zeros nor a sign is one as well.              *)
Divided(m, reg) ==
  LET a == Signed(m.high, reg) * Width(reg) + m.acc
      b == Signed(m.second, reg)
  IN  IF Signed(m.high, reg) \notin {-1, 0} \/ b = 0 \/
         Truncated(a, b) \notin -(Width(reg) \div 2) .. Width(reg) \div 2 - 1
      THEN [m EXCEPT !.fault = TRUE]
      ELSE [m EXCEPT !.acc = Pattern(Truncated(a, b), reg),
                     !.high = Pattern(a - b * Truncated(a, b), reg)]

Replaced(p, v, at, bytes) ==
  p - ((p \div Width(at)) % Width(bytes)) * Width(at) + Pattern(v, bytes) * Width(at)

Stored(f, m, i) ==
  LET v == IF i.from = "acc" THEN m.acc ELSE m.high
  IN  IF i.at + i.bytes > f.table[i.var].storage THEN [m EXCEPT !.wild = TRUE]
      ELSE [m EXCEPT !.mem[i.var] = Replaced(@, v, i.at, i.bytes)]

Exec(f, m, i) ==
  LET reg == ArchitectureBytes(f)
  IN  CASE m.fault -> m
        [] i.op = "imm"         -> [m EXCEPT !.acc = Pattern(i.v, reg)]
        [] i.op = "load"        -> [m EXCEPT !.acc =
                                      Filled(Pattern(m.mem[i.var], i.bytes), i.bytes, reg, i.fill)]
        [] i.op = "store"       -> Stored(f, m, i)
        [] i.op = "sign extend" -> [m EXCEPT !.high = IF Signed(m.acc, reg) < 0 THEN Width(reg) - 1 ELSE 0]
        [] i.op = "xor high"    -> [m EXCEPT !.high = 0]
        [] i.op = "push"        -> [m EXCEPT !.stack = Append(@, m.acc)]
        [] i.op = "pop"         -> IF m.stack = << >> THEN [m EXCEPT !.fault = TRUE]
                                   ELSE [m EXCEPT !.acc = Last(m.stack), !.stack = Front(@)]
        [] i.op = "mov second"  -> [m EXCEPT !.second = m.acc]
        [] i.op = "mov cl"      -> [m EXCEPT !.cl = m.acc]
        [] i.op = "mov high"    -> [m EXCEPT !.acc = m.high]
        [] i.op = "idiv"        -> Divided(m, reg)
        [] i.op \in Shifts      -> [m EXCEPT !.acc = Shifted(i.op, @, m.cl, reg)]
        [] OTHER                -> [m EXCEPT !.acc = Result(i.op, @, m.second, reg)]

RECURSIVE Run(_, _, _)
Run(f, m, code) == IF code = << >> THEN m ELSE Run(f, Exec(f, m, Head(code)), Tail(code))

-----------------------------------------------------------------------------
(* What C says: the value of an expression, its type, the memory after it,  *)
(* and whether every value on the way was defined, of a plain variable and  *)
(* within both its type and the register read as a signed number.           *)

Within(v, t) ==
  IF t.unsign THEN v \in 0 .. Width(t.size) - 1
  ELSE v \in -(Width(t.size) \div 2) .. Width(t.size) \div 2 - 1
Fits(f, v) == Within(v, [size |-> ArchitectureBytes(f), unsign |-> FALSE])

Converted(v, t) ==
  IF t.rank = 0 THEN (IF v = 0 THEN 0 ELSE 1)
  ELSE Reading(Pattern(v, t.size), t.size, t.unsign)

Promoted(f, t) ==
  IF t.rank >= 3 THEN t
  ELSE [size |-> IntBytes(f), rank |-> 3, unsign |-> t.unsign /\ t.size = IntBytes(f)]

Usual(a, b) ==
  LET high == IF a.rank >= b.rank THEN a ELSE b
      low  == IF a.rank >= b.rank THEN b ELSE a
  IN  [high EXCEPT !.unsign = @ \/ (low.unsign /\ low.size = high.size)]

CResult(op, a, b, t) ==
  CASE op = "+" -> a + b
    [] op = "-" -> a - b
    [] op = "*" -> Signed(Pattern(a, t.size), t.size) * Signed(Pattern(b, t.size), t.size)
    [] op = "/" -> IF b = 0 THEN 0 ELSE Truncated(a, b)
    [] op = "%" -> IF b = 0 THEN 0 ELSE a - b * Truncated(a, b)
    [] op = "&" -> Converted(Pattern(a, t.size) & Pattern(b, t.size), t)
    [] op = "|" -> Converted(Pattern(a, t.size) | Pattern(b, t.size), t)
    [] op = "^" -> Converted(Pattern(a, t.size) ^^ Pattern(b, t.size), t)
    [] op = "<<=" -> IF b \in 0 .. ByteBits * t.size - 1 THEN a * 2 ^ b ELSE 0
    [] OTHER    -> IF b \in 0 .. ByteBits * t.size - 1 THEN a \div 2 ^ b ELSE 0

Defined(op, a, b, t) ==
  CASE op \in {"/", "%"} -> b # 0 /\ Within(Truncated(a, b), t)
    [] op = "<<="        -> a >= 0 /\ b \in 0 .. ByteBits * t.size - 1
    [] op = ">>="        -> b \in 0 .. ByteBits * t.size - 1
    [] OTHER             -> TRUE

RECURSIVE Names(_)
Names(e) ==
  CASE e.kind \in {"var", "member"} -> {e.name}
    [] e.kind = "op" -> Names(e.l) \cup Names(e.r)
    [] OTHER -> {}
RECURSIVE Targets(_)
Targets(e) ==
  IF e.kind # "op" THEN {}
  ELSE Targets(e.l) \cup Targets(e.r) \cup
       (IF e.op \in Assignments /\ IsName(e.l) THEN {Name(e.l)} ELSE {})

(* C leaves the order of the two operands open: no side may assign what the  *)
(* other uses.                                                               *)
Sequenced(e) ==
  e.op = "," \/ (/\ Targets(e.l) \cap Names(e.r) = {} /\ Targets(e.r) \cap Names(e.l) = {})

Known(f, e) == e.kind = "var" /\ e.name \in f.known
TypeOf(f, e)   == f.table[FindVariable(f, e.name)].ctype
ValueOf(f, mem, e) ==
  Reading(Pattern(mem[FindVariable(f, e.name)], TypeOf(f, e).size), TypeOf(f, e).size, TypeOf(f, e).unsign)

Evaluated(v, t, mem, ok) == [v |-> v, t |-> t, mem |-> mem, exact |-> ok]

(* The value of r is assigned to the variable e.                             *)
Written(f, o, t, r, w, ok) ==
  Evaluated(w, t, [r.mem EXCEPT ![o] = Replaced(@, w, 0, t.size)],
    /\ ok /\ r.exact
    /\ t.rank = 0 => r.v \in {0, 1}
    /\ t.size > ArchitectureBytes(f) => Within(r.v, t)
    /\ Fits(f, w))
Assigned(f, e, r, ok) ==
  Written(f, FindVariable(f, e.name), TypeOf(f, e), r, Converted(r.v, TypeOf(f, e)), ok)

(* l op r in type t: both operands converted, the result not yet.            *)
OfType(f, op, t, l, r, a, b, v) ==
  Evaluated(Converted(v, t), t, r.mem,
    /\ l.exact /\ r.exact
    /\ a = l.v /\ b = r.v
    /\ Defined(op, a, b, t) /\ Within(v, t) /\ Fits(f, v))
OnConverted(f, op, t, l, r, a, b) == OfType(f, op, t, l, r, a, b, CResult(op, a, b, t))
Operated(f, op, t, l, r) ==
  OnConverted(f, op, t, l, r, Converted(l.v, t), IF op \in Shifts THEN r.v ELSE Converted(r.v, t))

Common(f, op, l, r) ==
  IF op \in Shifts THEN Promoted(f, l) ELSE Usual(Promoted(f, l), Promoted(f, r))

(* e, whose operands have the values l and r.                                *)
Combined(f, e, l, r) ==
  CASE e.op = "," -> [r EXCEPT !.exact = @ /\ l.exact]
    [] e.op = "=" -> Assigned(f, e.l, r, Sequenced(e))
    [] e.op \in Arithmetic ->
         [Operated(f, e.op, Common(f, e.op, l.t, r.t), l, r) EXCEPT !.exact = @ /\ Sequenced(e)]
    [] OTHER ->
         Assigned(f, e.l, Operated(f, Plainly(e.op), Common(f, Plainly(e.op), l.t, r.t), l, r),
                  Sequenced(e))

IntType(f) == [size |-> IntBytes(f), rank |-> 3, unsign |-> FALSE]

Understood == Arithmetic \cup Assignments \cup {","}

RECURSIVE CEvaluate(_, _, _)
CRight(f, e, l) == Combined(f, e, l, CEvaluate(f, l.mem, e.r))
CEvaluate(f, mem, e) ==
  CASE e.kind = "const" -> Evaluated(e.v, IntType(f), mem, TRUE)
    [] e.kind = "var" /\ Known(f, e) ->
         Evaluated(ValueOf(f, mem, e), TypeOf(f, e), mem, Fits(f, ValueOf(f, mem, e)))
    [] e.kind = "op" /\ e.op \in Understood /\ (e.op \in Assignments => Known(f, e.l)) ->
         CRight(f, e, CEvaluate(f, mem, e.l))
    [] OTHER -> Evaluated(0, IntType(f), mem, FALSE)

(* Expressions whose low bits depend on nothing but low bits.                *)
RECURSIVE Ring(_, _)
Ring(f, e) ==
  CASE e.kind = "const" -> TRUE
    [] e.kind = "var" -> Known(f, e)
    [] e.kind = "op" /\ e.op \in {"=", "+=", "-=", "*=", "&=", "|=", "^="} ->
         Known(f, e.l) /\ TypeOf(f, e.l).rank > 0 /\ Ring(f, e.r) /\ Sequenced(e)
    [] e.kind = "op" /\ e.op \in {"+", "-", "*", "&", "|", "^", ","} ->
         Ring(f, e.l) /\ Ring(f, e.r) /\ Sequenced(e)
    [] OTHER -> FALSE

-----------------------------------------------------------------------------
(* What the analyzer infers of a returned expression.  It knows parameters   *)
(* alone, sees members but no identifiers, and reads no operator.            *)

Parameters(f, name) ==
  {i \in DOMAIN f.vars :
     f.vars[i].name = name /\ f.vars[i].scope = "param"}
InferredParameter(d) == IF d.pointer THEN "pointer" ELSE Head(d.specs)

RECURSIVE Inferred(_, _)
Inferred(f, e) ==
  CASE e.kind \in {"const", "float"} -> "constant"
    [] e.kind = "member" ->
         IF Parameters(f, e.name) = {} THEN "undefined"
         ELSE InferredParameter(f.vars[CHOOSE i \in Parameters(f, e.name) : TRUE])
    [] e.kind = "op" ->
         LET l == Inferred(f, e.l)
             r == Inferred(f, e.r)
         IN  IF "undefined" \in {l, r} THEN "undefined" ELSE IF l = "none" THEN r ELSE l
    [] OTHER -> "none"

(* A return whose type is inferred and is not the function's is an error.    *)
Accepted(f, s) ==
  s.kind = "return" => Inferred(f, s.e) \in {"none", Head(f.returns)}

(* With an error nothing is generated.                                       *)
Generated(f, s) == Accepted(f, s)

-----------------------------------------------------------------------------
(* The function runs, one statement of its body after the other.             *)

(* LOCAL and PROC reserve room for every variable, and name none twice.      *)
Declarable(f) ==
  /\ \A o \in DOMAIN f.table : f.table[o].storage > 0
  /\ \A o, p \in DOMAIN f.table :
       o # p /\ f.table[o].name = f.table[p].name =>
         (f.table[o].scope = "global") # (f.table[p].scope = "global")

(* PROC saves and restores the stack pointer of a function that has          *)
(* parameters or locals; without them ret takes what is on top.              *)
Framed(f) == \E o \in DOMAIN f.table : f.table[o].scope # "global"

Registers == [acc |-> Leftover, second |-> Leftover, high |-> Leftover, cl |-> Leftover]

Init ==
  /\ k \in {f \in {Compiled(Environments[i]) : i \in DOMAIN Environments} : Declarable(f)}
  /\ start \in {[o \in DOMAIN k.table |->
                  IF CBase(k.vars[o].specs) = "bool" THEN p % 2
                  ELSE p % Width(k.table[o].storage)] : p \in Starts}
  /\ cpu = [mem |-> start, stack |-> << >>, fault |-> FALSE, wild |-> FALSE] @@ Registers
  /\ pc = "body"
  /\ n = 0
  /\ assigned = {}
  /\ want = start
  /\ value = 0
  /\ exact = TRUE
  /\ ring = TRUE
  /\ whole = TRUE

(* C and the machine part where C's value was not followed.                  *)
Followed(mem, c, r) ==
  /\ exact' = (exact /\ c.exact)
  /\ ring' = (ring /\ r)
  /\ want' = IF exact' \/ ring' THEN c.mem ELSE mem

(* The code of an expression is run as far as it was emitted.                *)
Evaluate(e, emitted, m) ==
  /\ Assembles(emitted.code)
  /\ whole' = (whole /\ emitted.ok)
  /\ assigned' = assigned \cup Targets(e)
  /\ cpu' = m

ExpressionStatement(s, emitted, c) ==
  /\ Evaluate(s.e, emitted, Run(k, cpu, emitted.code))
  /\ pc' = IF cpu'.fault THEN "fault" ELSE "body"
  /\ Followed(cpu'.mem, c, Ring(k, s.e))
  /\ UNCHANGED value

(* invoke with constant arguments: the callee leaves the variables as they   *)
(* are and any value in the registers it may use.                            *)
CallStatement ==
  /\ cpu' = Registers @@ cpu
  /\ UNCHANGED <<pc, assigned, want, value, exact, ring, whole>>

(* A statement that is neither an expression nor a jump emits nothing.       *)
DroppedStatement ==
  /\ exact' = FALSE
  /\ ring' = FALSE
  /\ want' = cpu.mem
  /\ UNCHANGED <<cpu, pc, assigned, value, whole>>

Ret(m) ==
  CASE m.fault -> "fault"
    [] m.stack # << >> /\ ~Framed(k) -> "lost"
    [] OTHER -> "returned"

ReturnType(f) == CType(f, f.returns)
Returned(f, c) ==
  LET t == ReturnType(f)
  IN  Evaluated(Converted(c.v, t), t, c.mem,
        /\ c.exact
        /\ t.rank = 0 => c.v \in {0, 1}
        /\ t.size <= ArchitectureBytes(f))

ReturnStatement(s, emitted, c) ==
  /\ Evaluate(s.e, emitted, Run(k, cpu, emitted.code))
  /\ pc' = Ret(cpu')
  /\ value' = c.v
  /\ Followed(cpu'.mem, c, Ring(k, s.e))

(* return; is a ret alone: the caller finds what the accumulator holds.       *)
ReturnNothing ==
  /\ pc' = Ret(cpu)
  /\ value' = cpu.acc
  /\ UNCHANGED <<cpu, assigned, want, exact, ring, whole>>

Statement(s) ==
  /\ pc = "body"
  /\ n < MaxStatements
  /\ Generated(k, s)
  /\ n' = n + 1
  /\ UNCHANGED <<k, start>>
  /\ \/ /\ s.kind = "expression"
        /\ ExpressionStatement(s, EmitExpression(k, s.e), CEvaluate(k, want, s.e))
     \/ s.kind = "call" /\ CallStatement
     \/ s.kind = "dropped" /\ DroppedStatement
     \/ /\ s.kind = "return"
        /\ ReturnStatement(s, EmitExpression(k, s.e), Returned(k, CEvaluate(k, want, s.e)))
     \/ s.kind = "bare return" /\ ReturnNothing

(* No ret is written at the end of the body.                                 *)
FallThrough ==
  /\ pc = "body"
  /\ pc' = "next procedure"
  /\ UNCHANGED <<k, cpu, n, start, assigned, want, value, exact, ring, whole>>

Next == (\E s \in Statements : Statement(s)) \/ FallThrough

Spec == Init /\ [][Next]_vars

-----------------------------------------------------------------------------
(* Types: registers and memory hold patterns of their width.                 *)
TypeOK ==
  LET reg == 0 .. Width(ArchitectureBytes(k)) - 1
  IN  /\ \A o \in DOMAIN k.table : cpu.mem[o] \in 0 .. Width(k.table[o].storage) - 1
      /\ {cpu.acc, cpu.second, cpu.high, cpu.cl} \subseteq reg
      /\ \A i \in DOMAIN cpu.stack : cpu.stack[i] \in reg
      /\ pc \in {"body", "returned", "lost", "fault", "next procedure"}

(* Where C defines every value and each fits the register, the code leaves   *)
(* every variable as C does, whatever its width and sign, and returns C's    *)
(* value: asmLoadVariable, asmStoreVariable and emitMasmExpression together. *)
MeansTheSame ==
  exact => /\ cpu.mem = want
           /\ pc # "fault"
           /\ pc = "returned" => Pattern(cpu.acc, ReturnType(k).size) = Pattern(value, ReturnType(k).size)

(* Sums, products and bit operations are right in the low bytes even where   *)
(* they overflow and where a variable is wider than the register: the low    *)
(* bytes of every variable, as many as an int has, are those of C.           *)
LowBytesRight ==
  ring => \A o \in DOMAIN k.table :
            LET low == Least(k.table[o].bytes, IntBytes(k))
            IN  k.table[o].plain => Pattern(cpu.mem[o], low) = Pattern(want[o], low)

(* A statement, even one whose code breaks off, writes no variable that it   *)
(* does not name as a target, and nothing beside a variable.                 *)
OnlyAssigned ==
  /\ ~cpu.wild
  /\ \A o \in DOMAIN k.table : k.table[o].name \notin assigned => cpu.mem[o] = start[o]

(* Each pushed operand is popped: the stack is as the function found it      *)
(* after every expression emitted to its end, and ret finds its address.     *)
Balanced == whole => cpu.stack = << >> /\ pc # "lost"
=============================================================================
