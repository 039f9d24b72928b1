--------------------------- MODULE MCParserEdits ---------------------------
EXTENDS ParserRules

I(v) == IntegerLiteral(v)
V(n) == Identifier(n)

\* const int c = 1; int g, h[2];
\* int f(int a, char b) { if (a > c) return (a); g = a; return (g); }
\* void p() { char b; b = 'A'; h[g] = f(g, b); }
\* void main() { p(); }
CallingUnit ==
  TranslationUnit(<< Const("c", 1), Var("g"), Array("h", 2) >>,
    << FunctionDecl("f", "int", << Var("a"), CharVar("b") >>, << >>,
         << IfStmt(Condition(">", V("a"), V("c")), ReturnStmt(V("a"))),
            Assign(V("g"), V("a")), ReturnStmt(V("g")) >>),
       FunctionDecl("p", "void", << >>, << CharVar("b") >>,
         << Assign(V("b"), CharLiteral(65)),
            Assign(ArraySubscript("h", V("g")), CallExpr("f", << V("g"), V("b") >>)) >>),
       FunctionDecl("main", "void", << >>, << >>, << CallStmt("p", << >>) >>) >>)

\* int x;
\* void main() { const char c = 'A'; int i;
\*   for (i = 1; i; i = i - 1) while (x < i) ;
\*   do { scanf(x); } while (x * 2);
\*   if (x) printf(1, -x); else return; }
StatingUnit ==
  TranslationUnit(<< Var("x") >>,
    << FunctionDecl("main", "void", << >>, << [Const("c", 65) EXCEPT !.ch = TRUE], Var("i") >>,
         << ForStmt("i", I(1), Nonzero(V("i")), "i", "i", -1,
                    WhileStmt(Condition("<", V("x"), V("i")), NullStmt)),
            DoStmt(CompoundStmt(<< ScanfStmt(<< "x" >>) >>), Nonzero(BinaryOp("*", V("x"), I(2)))),
            IfElse(Nonzero(V("x")), PrintStmt(1, UnaryOp("-", V("x"))), ReturnStmt(NoExpr)) >>) >>)

Pieces == FlattenSeq(<< Word("SEMICN"), Word("COMMA"), Word("LPARENT"), Word("RPARENT"),
                       Word("LBRACK"), Word("ASSIGN"), Word("PLUS"), Word("DIV"), Word("RBRACE"),
                       Word("INTTK"), Word("VOIDTK"), Word("WHILETK"), Ident("c"), Ident("f"),
                       Ident("p"), Ident("g"), Ident("b"), Ident("u"), Number(0), Character(65) >>)
Extra  == FlattenSeq(<< Word("SEMICN"), Word("LPARENT"), Word("RPARENT"), Word("INTTK"), Ident("c") >>)

\* One token of a text is deleted, or becomes another, or gets another before it.
EditsAt(s, i) ==
  << RemoveAt(s, i) >> \o
  [k \in DOMAIN Pieces |-> ReplaceAt(s, i, Pieces[k])] \o
  [k \in DOMAIN Extra |-> InsertAt(s, i, Extra[k])]

Edits(s) == << s >> \o FlattenSeq([i \in 1 .. Len(s) - 1 |-> EditsAt(s, i)])

MCTexts == Edits(UnitText(CallingUnit)) \o Edits(UnitText(StatingUnit))
=============================================================================
