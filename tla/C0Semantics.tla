---------------------------- MODULE C0Semantics ----------------------------
(***************************************************************************)
(* What a C0 program means, stated on its tree and without a compiler: the *)
(* reference against which the generated code is compared.                 *)
(*                                                                         *)
(* As in C, the operands of an operator and the arguments of a call are    *)
(* evaluated one after the other in an order that is not specified, so     *)
(* evaluation yields a set of results: Outcomes is everything a correct    *)
(* compiler may make of a program.                                         *)
(*                                                                         *)
(* A state s has the variables of the unit and of the current function     *)
(* (each a sequence of words), what is left of the input, the output so    *)
(* far, and whether the function has returned, with which value.           *)
(***************************************************************************)
EXTENDS C0Ast

CONSTANT Undef      \* the value of a word that nothing has been stored in

\* What a program prints is a sequence of these.
Item(k, v) == [kind |-> k, val |-> v]
NewLine == Item("nl", 0)

Words(d) == [i \in 1 .. d.num |-> IF d.const THEN d.val ELSE Undef]
DeclNamed(ds, n) == ds[CHOOSE i \in DOMAIN ds : ds[i].name = n]
Names(ds) == {ds[i].name : i \in DOMAIN ds}

Initial(unit, input) ==
  [unit |-> unit, func |-> "main", in |-> input, out |-> << >>,
   glob |-> [n \in Names(unit.vars) |->
               LET d == DeclNamed(unit.vars, n)
               IN  [i \in 1 .. d.num |-> d.val]],
   env |-> << >>, done |-> FALSE, val |-> Undef]

IsLocal(s, n) == n \in DOMAIN s.env
ReadVar(s, n, i) == IF IsLocal(s, n) THEN s.env[n][i + 1] ELSE s.glob[n][i + 1]
WriteVar(s, n, i, v) ==
  IF IsLocal(s, n) THEN [s EXCEPT !.env[n][i + 1] = v]
                   ELSE [s EXCEPT !.glob[n][i + 1] = v]

\* Declared with type char, in the function or else in the unit.
DeclaredChar(s, n) ==
  LET f  == FuncNamed(s.unit, s.func)
      ds == f.params \o f.decls
  IN  IF n \in Names(ds) THEN DeclNamed(ds, n).ch ELSE DeclNamed(s.unit.vars, n).ch

IsChar(s, e) ==
  CASE e.node = "literal" -> e.ch
    [] e.node \in {"ident", "subscript"} -> DeclaredChar(s, e.name)
    [] e.node = "call" -> FuncNamed(s.unit, e.name).ret = "char"
    [] OTHER -> FALSE

RECURSIVE Eval(_, _), EvalAll(_, _, _), Exec(_, _), ExecSeq(_, _)

\* All the ways to evaluate the expressions es whose index is in todo.
EvalAll(s, es, todo) ==
  IF todo = {} THEN {[vs |-> [i \in DOMAIN es |-> Undef], s |-> s]}
  ELSE UNION {UNION {{[vs |-> [r.vs EXCEPT ![i] = q.v], s |-> r.s] :
                        r \in EvalAll(q.s, es, todo \ {i})} : q \in Eval(s, es[i])}
              : i \in todo}

EvalBoth(s, e1, e2) == EvalAll(s, << e1, e2 >>, {1, 2})

Call(s, e) ==
  LET f == FuncNamed(s.unit, e.name)
      Enter(r) ==
        [r.s EXCEPT !.func = f.name, !.done = FALSE, !.val = Undef,
           !.env = [n \in Names(f.params) \union Names(f.decls) |->
                      IF n \in Names(f.params)
                        THEN << r.vs[CHOOSE i \in DOMAIN f.params : f.params[i].name = n] >>
                        ELSE Words(DeclNamed(f.decls, n))]]
      Leave(t) == [t EXCEPT !.func = s.func, !.env = s.env, !.done = s.done, !.val = s.val]
  IN  UNION {{[v |-> t.val, s |-> Leave(t)] : t \in ExecSeq(Enter(r), f.body)}
             : r \in EvalAll(s, e.args, DOMAIN e.args)}

Eval(s, e) ==
  CASE e.node = "literal"   -> {[v |-> e.val, s |-> s]}
    [] e.node = "ident"     -> {[v |-> ReadVar(s, e.name, 0), s |-> s]}
    [] e.node = "subscript" -> {[v |-> ReadVar(r.s, e.name, r.v), s |-> r.s] : r \in Eval(s, e.rhs)}
    [] e.node = "unary"     -> {[v |-> IF e.op = "-" THEN -r.v ELSE r.v, s |-> r.s] :
                                  r \in Eval(s, e.operand)}
    [] e.node = "binary"    -> {[v |-> Apply(e.op, r.vs[1], r.vs[2]), s |-> r.s] :
                                  r \in EvalBoth(s, e.lhs, e.rhs)}
    [] e.node = "call"      -> Call(s, e)

\* The states in which a condition has been found true, and false.
Test(s, c) ==
  LET rs == EvalBoth(s, c.lhs, IF c.op = "none" THEN IntegerLiteral(0) ELSE c.rhs)
  IN  [yes |-> {r.s : r \in {q \in rs : Holds(c.op, q.vs[1], q.vs[2])}},
       no  |-> {r.s : r \in {q \in rs : ~Holds(c.op, q.vs[1], q.vs[2])}}]

\* An assignment evaluates its right side and its index in either order.
ExecAssign(s, x) ==
  IF x.lhs.node = "ident"
    THEN {WriteVar(r.s, x.lhs.name, 0, r.v) : r \in Eval(s, x.rhs)}
    ELSE {WriteVar(r.s, x.lhs.name, r.vs[1], r.vs[2]) : r \in EvalBoth(s, x.lhs.rhs, x.rhs)}

ExecPrint(s, x) ==
  LET str == IF x.str = NoStr THEN << >> ELSE << Item("str", x.str) >>
      kind == IF IsChar(s, x.expr) THEN "char" ELSE "int"
  IN  IF x.expr = NoExpr THEN {[s EXCEPT !.out = @ \o str \o << NewLine >>]}
      ELSE {[r.s EXCEPT !.out = @ \o str \o << Item(kind, r.v), NewLine >>] :
              r \in Eval(s, x.expr)}

ExecScanf(s, n) == [WriteVar(s, n, 0, Head(s.in)) EXCEPT !.in = Tail(@)]

ExecReturn(s, x) ==
  IF x.expr = NoExpr THEN {[s EXCEPT !.done = TRUE]}
  ELSE {[r.s EXCEPT !.done = TRUE, !.val = r.v] : r \in Eval(s, x.expr)}

\* One turn of a loop, and the rest of it.
ExecWhile(s, x) ==
  LET t == Test(s, x.cond)
  IN  t.no \union UNION {ExecSeq(q, << x.body, x >>) : q \in t.yes}

ExecFor(s, x) ==
  LET inc == Assign(Identifier(x.lhs),
                    BinaryOp("+", Identifier(x.rhs), IntegerLiteral(x.inc)))
  IN  ExecSeq(s, << Assign(Identifier(x.ident), x.init),
                    WhileStmt(x.cond, CompoundStmt(<< x.body, inc >>)) >>)

ExecDo(s, x) == ExecSeq(s, << x.body, WhileStmt(x.cond, x.body) >>)

ExecIf(s, x) ==
  LET t == Test(s, x.cond)
  IN  UNION {Exec(q, x.then) : q \in t.yes} \union
      IF x.stmt = "if" THEN t.no ELSE UNION {Exec(q, x.else) : q \in t.no}

Exec(s, x) ==
  CASE x.stmt = "assign" -> ExecAssign(s, x)
    [] x.stmt \in {"if", "ifelse"} -> ExecIf(s, x)
    [] x.stmt = "while"  -> ExecWhile(s, x)
    [] x.stmt = "for"    -> ExecFor(s, x)
    [] x.stmt = "do"     -> ExecDo(s, x)
    [] x.stmt = "call"   -> {r.s : r \in Call(s, x.expr)}
    [] x.stmt = "print"  -> ExecPrint(s, x)
    [] x.stmt = "scanf"  -> IF x.names = << >> THEN {s}
                            ELSE Exec(ExecScanf(s, Head(x.names)), ScanfStmt(Tail(x.names)))
    [] x.stmt = "return" -> ExecReturn(s, x)
    [] x.stmt = "compound" -> ExecSeq(s, x.stmts)
    [] x.stmt = "null"   -> {s}

\* Nothing runs after a return.
ExecSeq(s, ss) ==
  IF s.done \/ ss = << >> THEN {s}
  ELSE UNION {ExecSeq(t, Tail(ss)) : t \in Exec(s, Head(ss))}

\* What the program may have printed when it has read all of input.
Outcomes(unit, input) ==
  {r.s.out : r \in {q \in Call(Initial(unit, input), CallExpr("main", << >>)) :
                      q.s.in = << >>}}
=============================================================================
