-------------------------------- MODULE Tools -------------------------------
(***************************************************************************)
(* The tool registry of an agent run (shirita-core/src/tools.rs) and the   *)
(* calculator it offers.  Numbers are rationals <<n, d>> with d > 0; an    *)
(* expression is a sequence of numbers and signs, blanks left out.         *)
(***************************************************************************)
EXTENDS Integers, SequencesExt, Maps

CONSTANT MaxMathDepth   \* MAX_MATH_PARSE_DEPTH: open brackets

NoNumber == <<"none">>

-----------------------------------------------------------------------------
(* The registry: a function from names to specs.  A name is a sequence of  *)
(* characters; what the program may call is fixed when a run begins.       *)

(* valid_name: parts between dots, at least two, none empty. *)
ValidName(name) ==
  /\ \E i \in DOMAIN name : name[i] = "."
  /\ Head(name) # "." /\ Last(name) # "."
  /\ \A i \in 1..(Len(name) - 1) : ~(name[i] = "." /\ name[i + 1] = ".")

(* register_owned: no name twice. *)
MayRegister(registry, name) == ValidName(name) /\ name \notin DOMAIN registry

Register(registry, name, spec) ==
  IF MayRegister(registry, name) THEN Inserted(registry, name, spec) ELSE registry

(* builtin_tool_registry_builder: four that control the run, three to      *)
(* choose from; shirita is spelled by one letter.                          *)
Builtin == LET Spelled(names) == {<<"s", ".", n>> : n \in names}
               control == Spelled({"status", "finish", "replace", "patch"})
           IN  [name \in control \cup Spelled({"number", "choose", "math"}) |->
                  [source |-> "builtin", required |-> name \in control, selected |-> FALSE, ask |-> FALSE]]

(* ToolRegistry::execute, what it refuses before it asks a handler; the   *)
(* size limits of arguments and results are left out.                      *)
Callable(registry, name, enabled) ==
  name \in DOMAIN registry /\ (registry[name].required \/ registry[name].selected \/ name \in enabled)

-----------------------------------------------------------------------------
(* The calculator, eval_math: a recursive descent that gives up without a  *)
(* value.  A rule reads from a place on, or goes on from what was read on  *)
(* its level, and tells the value and where it stopped.                    *)

Neg(x) == <<-x[1], x[2]>>
Plus(x, y) == <<x[1] * y[2] + y[1] * x[2], x[2] * y[2]>>
Times(x, y) == <<x[1] * y[1], x[2] * y[2]>>
Over(x, y) == IF y[1] > 0 THEN <<x[1] * y[2], x[2] * y[1]>> ELSE <<-x[1] * y[2], -(x[2] * y[1])>>
(* f64's %: the sign of the dividend. *)
Rem(x, y) ==
  LET q == Over(x, y)
      whole == IF q[1] >= 0 THEN q[1] \div q[2] ELSE -((-q[1]) \div q[2])
  IN  Plus(x, Neg(Times(<<whole, 1>>, y)))
(* Only natural exponents have a value here. *)
Power(x, y) == FoldLeft(LAMBDA p, i : Times(p, x), <<1, 1>>, [i \in 1..(y[1] \div y[2]) |-> i])
Combined(op, x, y) ==
  CASE op = "+" -> Plus(x, y) [] op = "-" -> Plus(x, Neg(y)) [] op = "*" -> Times(x, y)
    [] op \in {"/", "%"} /\ y[1] = 0 -> NoNumber
    [] op = "/" -> Over(x, y) [] op = "%" -> Rem(x, y) [] op = "^" -> Power(x, y)

Gone(r) == r.v = NoNumber
Sees(e, i, signs) == i <= Len(e) /\ e[i] \in signs
Numerals == [n \in {"0", "1", "2", "3"} |-> CHOOSE i \in 0..3 : ToString(i) = n]

Rules == {"expr", "more terms", "term", "more factors", "power", "unary", "atom"}
Readings == [v : {NoNumber} \cup (Int \X Int), i : Nat]

(* Of a sum and of a product the operands are taken from left to right.    *)
Parse(e) ==
  LET read[t \in Rules \X Readings \X Nat] ==
        LET rule == t[1]
            r == t[2]
            depth == t[3]
            From(name, i) == read[<<name, [v |-> NoNumber, i |-> i], depth>>]
            inner == read[<<"expr", [v |-> NoNumber, i |-> r.i + 1], depth + 1>>]
            closed == depth < MaxMathDepth /\ ~Gone(inner) /\ Sees(e, inner.i, {")"})
            signs == IF rule = "more terms" THEN {"+", "-"} ELSE {"*", "/", "%"}
            next == From(IF rule = "more terms" THEN "term" ELSE "power", r.i + 1)
            base == From("unary", r.i)
            exponent == From("power", base.i + 1)
            signed == From("unary", r.i + 1)
        IN  CASE rule = "expr" -> read[<<"more terms", From("term", r.i), depth>>]
              [] rule = "term" -> read[<<"more factors", From("power", r.i), depth>>]
              [] rule \in {"more terms", "more factors"} ->
                   IF Gone(r) \/ ~Sees(e, r.i, signs) THEN r
                   ELSE IF Gone(next) THEN next
                   ELSE read[<<rule, [v |-> Combined(e[r.i], r.v, next.v), i |-> next.i], depth>>]
              [] rule = "power" ->
                   IF Gone(base) \/ ~Sees(e, base.i, {"^"}) THEN base
                   ELSE IF Gone(exponent) THEN exponent
                   ELSE [exponent EXCEPT !.v = Combined("^", base.v, @)]
              [] rule = "unary" ->
                   IF Sees(e, r.i, {"+"}) THEN signed
                   ELSE IF Sees(e, r.i, {"-"})
                   THEN [signed EXCEPT !.v = IF Gone(signed) THEN @ ELSE Neg(@)]
                   ELSE From("atom", r.i)
              [] rule = "atom" ->
                   IF Sees(e, r.i, {"("})
                   THEN [v |-> IF closed THEN inner.v ELSE NoNumber, i |-> inner.i + 1]
                   ELSE [v |-> IF Sees(e, r.i, DOMAIN Numerals) THEN <<Numerals[e[r.i]], 1>> ELSE NoNumber,
                         i |-> r.i + 1]
  IN  read[<<"expr", [v |-> NoNumber, i |-> 1], 0>>]

(* The whole of the expression is one. *)
Calculate(e) == LET r == Parse(e) IN IF r.i = Len(e) + 1 THEN r.v ELSE NoNumber
=============================================================================
