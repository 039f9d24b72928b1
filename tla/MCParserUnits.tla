--------------------------- MODULE MCParserUnits ---------------------------
(***************************************************************************)
(* Texts of programs: those that code generation is checked on, many       *)
(* statements in one main, and all expressions of a few small shapes.      *)
(***************************************************************************)
EXTENDS C0Text, C0Programs

\* Every run of n bodies in one.
Together(bodies, n) ==
  [i \in 1 .. (Len(bodies) + n - 1) \div n |->
     FlattenSeq(SubSeq(bodies, (i - 1) * n + 1, IF i * n < Len(bodies) THEN i * n ELSE Len(bodies)))]

Generated == Map(Program, Together(Printing \o Storing \o Branching \o Looping \o Reading \o Calling, 24))

\* Expressions of up to two operators in a row on each side of a third.
Leaves  == << V("x"), ArraySubscript("a", I(1)) >>
Grown(es) ==
  LET minus(p) == BinaryOp("-", p[1], p[2])
      over(p)  == BinaryOp("/", p[1], p[2])
      neg(e)   == UnaryOp("-", e)
  IN  Map(minus, Pairs(es, es)) \o Map(over, Pairs(es, es)) \o Map(neg, es)
Shapes  == Leaves \o Grown(Leaves) \o Grown(Leaves \o Grown(Leaves))

Shaped ==
  LET assign(e) == << Assign(V("x"), e) >>
      main(body) == TranslationUnit(<< >>,
        << FunctionDecl("main", "void", << >>, << Var("x"), Array("a", 2) >>, body) >>)
  IN  Map(main, Together(Map(assign, Shapes), 32))

\* Declarations in lists, empty statements, constants below zero, and a function before any variable.
Listed ==
  << TranslationUnit(<< >>,
       << FunctionDecl("f", "char", << Var("n"), CharVar("c") >>, << >>,
            << IfElse(Condition("<", V("n"), UnaryOp("-", I(2))), NullStmt, CompoundStmt(<< NullStmt >>)), ReturnStmt(V("c")) >>),
          FunctionDecl("main", "void", << >>, << >>, << >>) >>),
     TranslationUnit(<< Const("a", -1), Const("b", 2), [Const("c", 67) EXCEPT !.ch = TRUE],
                        [Const("d", 68) EXCEPT !.ch = TRUE], Const("e", 3) >>,
       << FunctionDecl("main", "void", << >>, << Const("a", 4), Var("b"), Array("c", 2), CharVar("i"),
                                                 [Array("j", 3) EXCEPT !.ch = TRUE], Var("k") >>,
            << Assign(ArraySubscript("j", V("a")), V("c")), WhileStmt(Nonzero(V("e")), NullStmt) >>) >>) >>

Units == Generated \o Shaped \o Listed
=============================================================================
