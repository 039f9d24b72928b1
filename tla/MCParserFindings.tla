-------------------------- MODULE MCParserFindings --------------------------
(***************************************************************************)
(* Texts on which the parser does not do what the comments beside it say.  *)
(***************************************************************************)
EXTENDS ParserRules

I(v) == IntegerLiteral(v)
V(n) == Identifier(n)

Fun(name, ret, params, body) == FunctionDecl(name, ret, params, << >>, body)
Program(decls, funcs, body) ==
  TranslationUnit(<< >>, Append(funcs, FunctionDecl("main", "void", << >>, decls, body)))

Adder == Fun("f", "int", << Var("a"), Var("b") >>, << ReturnStmt(BinaryOp("+", V("a"), V("b"))) >>)
Empty(name) == Fun(name, "void", << >>, << >>)

\* The first token of type t is gone.
Without(s, t) == RemoveAt(s, CHOOSE i \in DOMAIN s : s[i].type = t /\ \A j \in 1 .. i - 1 : s[j].type # t)

\* int x  x = 1;
LoneVariable ==
  << Without(UnitText(Program(<< Var("x") >>, << >>, << Assign(V("x"), I(1)) >>)), "SEMICN") >>

\* const int c = 1;  int x;
\* int f(int a, int b) ...  void p() { }  void p() { }
\* void main() { f(); scanf(c); x = p(); while 0) ; }
Unreported ==
  LET s == UnitText(Program(<< Const("c", 1), Var("x") >>, << Adder, Empty("p"), Empty("p") >>,
                      << CallStmt("f", << >>), ScanfStmt(<< "c" >>), Assign(V("x"), CallExpr("p", << >>)),
                         WhileStmt(Nonzero(I(0)), NullStmt) >>))
      at == CHOOSE i \in DOMAIN s : s[i].type = "WHILETK"
  IN  << RemoveAt(s, at + 1) >>

\* char up(char c) ...  up(1);
LiteralArgument ==
  << UnitText(Program(<< >>, << Fun("up", "char", << CharVar("c") >>, << ReturnStmt(V("c")) >>) >>,
                      << CallStmt("up", << I(1) >>) >>)) >>
=============================================================================
