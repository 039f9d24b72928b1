----------------------------- MODULE C0Programs -----------------------------
(***************************************************************************)
(* The programs that the compilation pipeline is checked on: one for every *)
(* expression, condition and statement of a few families, each small, and  *)
(* all of them within the rules of C0 (declared, initialized, in bounds).  *)
(***************************************************************************)
EXTENDS C0Ast, SequencesExt

I(v) == IntegerLiteral(v)
V(n) == Identifier(n)

(***************************************************************************)
(* The functions that programs call                                        *)
(***************************************************************************)

\* int f(int a, int b) { int t; t = a - b; return t * 2; }
F == FunctionDecl("f", "int", << Var("a"), Var("b") >>, << Var("t") >>,
       << Assign(V("t"), BinaryOp("-", V("a"), V("b"))),
          ReturnStmt(BinaryOp("*", V("t"), I(2))) >>)

\* void put(int n) { g = g + n; }, and  void nop() { ga[1] = 9; }  without a frame
PutF == FunctionDecl("put", "void", << Var("n") >>, << >>,
       << Assign(V("g"), BinaryOp("+", V("g"), V("n"))), ReturnStmt(NoExpr) >>)
NopF == FunctionDecl("nop", "void", << >>, << >>, << Assign(ArraySubscript("ga", I(1)), I(9)) >>)

\* int sum(int n) { if (n < 1) return 0; return n + sum(n - 1); }
SumF == FunctionDecl("sum", "int", << Var("n") >>, << >>,
       << IfStmt(Condition("<", V("n"), I(1)), ReturnStmt(I(0))),
          ReturnStmt(BinaryOp("+", V("n"),
            CallExpr("sum", << BinaryOp("-", V("n"), I(1)) >>))) >>)

\* char up(char c, int k) { char w[2]; w[k] = c; put(k); return w[k]; }
UpF == FunctionDecl("up", "char", << CharVar("c"), Var("k") >>,
       << [Array("w", 2) EXCEPT !.ch = TRUE] >>,
       << Assign(ArraySubscript("w", V("k")), V("c")),
          CallStmt("put", << V("k") >>),
          ReturnStmt(ArraySubscript("w", V("k"))) >>)

\* int find(int n) { const int two = 2; int i; int g;  -- hides the global
\*   for (i = 0; i < 4; i = i + 1) { g = f(i, n); if (g >= 0) return i * two; }
\*   n = -1; return n; }
FindF == FunctionDecl("find", "int", << Var("n") >>, << Const("two", 2), Var("i"), Var("g") >>,
       << ForStmt("i", I(0), Condition("<", V("i"), I(4)), "i", "i", 1,
            CompoundStmt(<< Assign(V("g"), CallExpr("f", << V("i"), V("n") >>)),
                            IfStmt(Condition(">=", V("g"), I(0)),
                                   ReturnStmt(BinaryOp("*", V("i"), V("two")))) >>)),
          Assign(V("n"), UnaryOp("-", I(1))), ReturnStmt(V("n")) >>)

\* main has x and k2, an array a, a char d and a constant k; the unit has g, ga and gc.
Globals == << Const("gk", 7), Var("g"), Array("ga", 2), CharVar("gc") >>
Locals  == << Const("k", 3), Var("x"), Var("k2"), Array("a", 2), CharVar("d") >>
Setup   == << Assign(V("x"), I(2)), Assign(V("g"), I(5)),
              Assign(ArraySubscript("a", I(0)), I(4)),
              Assign(ArraySubscript("a", I(1)), V("k")),
              Assign(ArraySubscript("ga", I(0)), I(1)),
              Assign(ArraySubscript("ga", I(1)), V("x")),
              Assign(V("d"), CharLiteral(65)) >>

Main(stmts) == FunctionDecl("main", "void", << >>, Locals, Setup \o stmts)
Program(stmts) == TranslationUnit(Globals, << F, PutF, NopF, SumF, UpF, FindF, Main(stmts) >>)

(***************************************************************************)
(* Expressions and conditions, none of them zero on the right of "/"       *)
(***************************************************************************)

Pairs(xs, ys) ==
  [i \in 1 .. Len(xs) * Len(ys) |->
     << xs[(i - 1) \div Len(ys) + 1], ys[((i - 1) % Len(ys)) + 1] >>]

\* TLC computes the elements of what \o gives once and for all.
Map(Op(_), xs) == [i \in DOMAIN xs |-> Op(xs[i])] \o << >>

Atoms == << I(6), V("x"), V("g"), V("gk"), ArraySubscript("a", I(1)),
            ArraySubscript("ga", BinaryOp("-", V("x"), I(1))),
            UnaryOp("-", V("x")), UnaryOp("+", CharLiteral(66)),
            CallExpr("f", << V("g"), V("x") >>),
            CallExpr("up", << CharLiteral(67), I(1) >>),
            CallExpr("sum", << V("x") >>) >>

Combined(op) == LET Op(p) == BinaryOp(op, p[1], p[2]) IN Map(Op, Pairs(Atoms, Atoms))

Special ==
  << V("d"), V("gc"), CharLiteral(68), UnaryOp("-", I(4)), UnaryOp("+", V("x")),
     BinaryOp("/", UnaryOp("-", I(7)), I(2)), BinaryOp("*", I(2), BinaryOp("+", I(1), I(1))),
     BinaryOp("-", BinaryOp("/", V("x"), UnaryOp("-", V("g"))), BinaryOp("*", V("k"), V("g"))),
     CallExpr("f", << CallExpr("f", << I(1), V("x") >>), CallExpr("sum", << V("k") >>) >>),
     CallExpr("f", << V("g"), BinaryOp("-", CallExpr("up", << V("d"), I(0) >>), V("d")) >>),
     ArraySubscript("a", ArraySubscript("ga", I(0))) >>

Exprs == Atoms \o Special \o Combined("+") \o Combined("-") \o Combined("*") \o Combined("/")

Conditions ==
  LET Op(p) == Condition(p[2], p[1][1], p[1][2])
      sides == Pairs(<< V("x"), I(2) >>, << V("k"), V("x"), I(1) >>)
  IN  Map(Op, Pairs(sides, << "<", "<=", ">", ">=", "==", "!=" >>)) \o
      Map(Nonzero, << V("x"), I(0), BinaryOp("-", V("x"), I(2)), CallExpr("sum", << I(0) >>) >>)

(***************************************************************************)
(* Statements                                                              *)
(***************************************************************************)

Show(e)   == PrintStmt(1, e)
Say(s)    == PrintStmt(s, NoExpr)
Add(n, i) == Assign(V(n), BinaryOp("+", V(n), I(i)))
Loop(i, inc, body) ==
  ForStmt(i, I(0), Condition("<", V(i), I(3)), i, i, inc, body)

Printing ==
  LET Just(e) == << Show(e) >> IN Map(Just, Exprs)

\* Elements are written: p is an index and a value.
Storing ==
  LET Store(p) == << Assign(ArraySubscript("a", p[1]), p[2]), Show(ArraySubscript("a", I(0))),
                     Assign(ArraySubscript("ga", p[1]), p[2]), Show(ArraySubscript("ga", I(0))) >>
  IN  Map(Store, Pairs(<< I(0), BinaryOp("-", V("x"), I(2)),
                          BinaryOp("-", CallExpr("sum", << V("x") >>), V("k")) >>,
                       << I(8), V("g"), CallExpr("f", << V("x"), I(1) >>) >>))

Branching ==
  LET Choose(c) == << IfElse(c, Say(2), CompoundStmt(<< Say(3), Add("x", 1) >>)), Show(V("x")) >>
      Stop(e) == << IfStmt(Nonzero(e), ReturnStmt(NoExpr)), Say(2) >>
  IN  Map(Choose, Conditions) \o Map(Stop, << I(0), V("g") >>) \o
      << << IfElse(Condition(">", V("x"), V("g")), Say(2), NullStmt),
            IfElse(Condition("<", V("x"), V("g")), NullStmt, Say(3)) >> >>

Looping ==
  LET While(n) == << WhileStmt(Condition("<", V("x"), I(n)), Add("x", 2)), Show(V("x")) >>
      Do(n) == << DoStmt(Add("x", 2), Condition("!=", V("x"), I(n))), Show(V("x")) >>
      For(i) == << Loop("x", i, CompoundStmt(<< Show(V("x")), Add("g", i) >>)), Show(V("g")) >>
  IN  Map(While, << 1, 3, 6 >>) \o Map(Do, << 4, 6 >>) \o Map(For, << 1, 2 >>) \o
      << << Loop("x", 1, Loop("k2", 1, CallStmt("put", << V("k2") >>))), Show(V("g")) >>,
         << DoStmt(CompoundStmt(<< Add("g", 1), WhileStmt(Condition("<", V("x"), V("g")), Add("x", 3)) >>),
                   Condition("<=", V("g"), I(7))), Show(V("x")) >>,
         << WhileStmt(Nonzero(V("x")), Assign(V("x"), I(0))), Show(V("x")) >>,
         << WhileStmt(Nonzero(V("x")),
              IfElse(Condition(">", V("x"), I(1)), Add("x", -1), Assign(V("x"), I(0)))),
            Show(V("x")) >> >>

Reading ==
  LET Read(ns) == << ScanfStmt(ns), Show(V("x")), Show(V("gc")), Show(BinaryOp("+", V("x"), V("g"))) >>
  IN  Map(Read, << << "x" >>, << "x", "g" >>, << "gc", "x" >> >>) \o
      << << ScanfStmt(<< "x" >>),
            IfElse(Condition(">=", V("x"), I(0)), Show(CallExpr("sum", << V("x") >>)), Say(3)) >> >>

Calling ==
  << << CallStmt("nop", << >>), CallStmt("put", << ArraySubscript("ga", I(1)) >>),
        Show(V("g")), PrintStmt(NoStr, CallExpr("up", << V("d"), I(1) >>)) >>,
     << Show(CallExpr("find", << V("x") >>)), Show(CallExpr("find", << I(9) >>)), Show(V("g")) >>,
     << CallStmt("f", << I(1), I(2) >>),
        Show(BinaryOp("*", CallExpr("f", << V("x"), V("k") >>), CallExpr("sum", << I(2) >>))) >> >>

\* The programs that are compiled correctly.
MCPrograms ==
  Map(Program, Printing \o Storing \o Branching \o Looping \o Reading \o Calling)

\* Loops that count in a global, in main and in
\* void count() { for (g = 0; g < 2; g = g + 1) put(1); }
CountF == FunctionDecl("count", "void", << >>, << >>,
       << ForStmt("g", I(0), Condition("<", V("g"), I(2)), "g", "g", 1,
                  CallStmt("put", << I(1) >>)) >>)

GlobalLoops ==
  << TranslationUnit(Globals, << PutF, CountF, Main(<< CallStmt("count", << >>) >>) >>),
     TranslationUnit(Globals, << PutF, Main(<< Loop("g", 1, Show(V("g"))) >>) >>) >>
=============================================================================
