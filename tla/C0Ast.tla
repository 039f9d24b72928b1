------------------------------- MODULE C0Ast -------------------------------
(***************************************************************************)
(* The abstract syntax tree that Parser hands to QuadGenerator, reduced to *)
(* what code generation looks at, and the constant values that the node    *)
(* constructors of ast.h compute while the tree is built.                  *)
(*                                                                         *)
(* Positions, tokens and linkage are left out.  A type is a flag: char or  *)
(* int.  Identifiers are resolved by name, a local before a global.        *)
(***************************************************************************)
EXTENDS Integers, Sequences

(***************************************************************************)
(* Expressions                                                             *)
(***************************************************************************)

IntegerLiteral(v)      == [node |-> "literal", val |-> v, ch |-> FALSE]
CharLiteral(v)         == [node |-> "literal", val |-> v, ch |-> TRUE]
Identifier(n)          == [node |-> "ident", name |-> n]
ArraySubscript(n, e)   == [node |-> "subscript", name |-> n, rhs |-> e]
BinaryOp(o, l, r)      == [node |-> "binary", op |-> o, lhs |-> l, rhs |-> r]
UnaryOp(o, e)          == [node |-> "unary", op |-> o, operand |-> e]
CallExpr(n, args)      == [node |-> "call", name |-> n, args |-> args]

\* A condition with one expression holds when that is not zero.
Condition(o, l, r)     == [lhs |-> l, op |-> o, rhs |-> r]
Nonzero(e)             == Condition("none", e, e)

(***************************************************************************)
(* Statements                                                              *)
(***************************************************************************)

NoExpr                 == [node |-> "none"]
NoStr                  == 0      \* string literals are numbered from 1
Assign(l, r)           == [stmt |-> "assign", lhs |-> l, rhs |-> r]
IfStmt(c, t)           == [stmt |-> "if", cond |-> c, then |-> t]
IfElse(c, t, e)        == [stmt |-> "ifelse", cond |-> c, then |-> t, else |-> e]
WhileStmt(c, b)        == [stmt |-> "while", cond |-> c, body |-> b]
DoStmt(b, c)           == [stmt |-> "do", cond |-> c, body |-> b]
\* for (i = e; c; l = r + inc) b
ForStmt(i, e, c, l, r, inc, b) ==
  [stmt |-> "for", ident |-> i, init |-> e, cond |-> c,
   lhs |-> l, rhs |-> r, inc |-> inc, body |-> b]
CallStmt(n, args)      == [stmt |-> "call", expr |-> CallExpr(n, args)]
PrintStmt(s, e)        == [stmt |-> "print", str |-> s, expr |-> e]
ScanfStmt(ns)          == [stmt |-> "scanf", names |-> ns]
ReturnStmt(e)          == [stmt |-> "return", expr |-> e]
CompoundStmt(ss)       == [stmt |-> "compound", stmts |-> ss]
NullStmt               == [stmt |-> "null"]

(***************************************************************************)
(* Declarations.  A variable has num words; a constant has its value.      *)
(***************************************************************************)

Var(n)                 == [name |-> n, ch |-> FALSE, num |-> 1, const |-> FALSE, val |-> 0]
CharVar(n)             == [Var(n) EXCEPT !.ch = TRUE]
Array(n, len)          == [Var(n) EXCEPT !.num = len]
Const(n, v)            == [Var(n) EXCEPT !.const = TRUE, !.val = v]
Width(d)               == 4 * d.num

FunctionDecl(n, ret, params, decls, body) ==
  [name |-> n, ret |-> ret, params |-> params, decls |-> decls, body |-> body]
\* The functions of a unit in source order; main is the last.
TranslationUnit(vars, funcs) == [vars |-> vars, funcs |-> funcs]

FuncNamed(unit, n) ==
  unit.funcs[CHOOSE i \in DOMAIN unit.funcs : unit.funcs[i].name = n]

(***************************************************************************)
(* Arithmetic, on values far from the ends of the int range                *)
(***************************************************************************)

Abs(i) == IF i < 0 THEN -i ELSE i

\* Division rounds towards zero, in the compiler as in the code it makes.
Quotient(a, b) ==
  IF (a < 0) = (b < 0) THEN Abs(a) \div Abs(b) ELSE -(Abs(a) \div Abs(b))

Apply(op, a, b) ==
  CASE op = "+" -> a + b
    [] op = "-" -> a - b
    [] op = "*" -> a * b
    [] op = "/" -> Quotient(a, b)

Holds(op, a, b) ==
  CASE op = "none" -> a # 0
    [] op = "<"  -> a < b
    [] op = "<=" -> a <= b
    [] op = ">"  -> a > b
    [] op = ">=" -> a >= b
    [] op = "==" -> a = b
    [] op = "!=" -> a # b

(***************************************************************************)
(* CONST_PROPAGATION: m_isconst and m_val, as the constructors set them.   *)
(* An identifier is never constant, even one declared const.               *)
(***************************************************************************)

RECURSIVE IsConst(_), ConstVal(_)

IsConst(e) ==
  \/ e.node = "literal"
  \/ e.node = "unary" /\ IsConst(e.operand)
  \/ e.node = "binary" /\ IsConst(e.lhs) /\ IsConst(e.rhs)

ConstVal(e) ==
  CASE e.node = "literal" -> e.val
    [] e.node = "unary" -> IF e.op = "-" THEN -ConstVal(e.operand)
                                         ELSE ConstVal(e.operand)
    [] e.node = "binary" -> Apply(e.op, ConstVal(e.lhs), ConstVal(e.rhs))
=============================================================================
