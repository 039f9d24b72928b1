--------------------------- MODULE MCParserFaults ---------------------------
(***************************************************************************)
(* Programs with one fault each, the reports they should get and the tree  *)
(* that is left of them.                                                   *)
(***************************************************************************)
EXTENDS ParserRules, C0Programs

UpBriefly == FunctionDecl("up", "char", << CharVar("c"), Var("n") >>, << >>, << ReturnStmt(V("c")) >>)

With2(extra, stmts) ==
  TranslationUnit(Globals, << F, PutF, UpBriefly >> \o extra \o
    << FunctionDecl("main", "void", << >>, Locals, stmts \o << CallStmt("put", << V("x") >>) >>) >>)
Around(stmts)   == With2(<< >>, stmts)
Beside(f)       == With2(<< f >>, << >>)
Inside(decls)   == Beside(FunctionDecl("q", "void", << >>, decls, << >>))

(***************************************************************************)
(* A rule is broken near the number 99, the mark.  Of the text of unit a   *)
(* token off the mark may be another one; errs are the reports, with their *)
(* tokens counted from the mark; left is the tree that is made.            *)
(***************************************************************************)

N == I(99)
IsMark(t) == t.type = "INTCON" /\ t.val = 99
Mark(s) == CHOOSE i \in DOMAIN s : IsMark(s[i])

Fault(u, edit, errs, left) == [unit |-> u, edit |-> edit, errs |-> errs, left |-> left]
AsItIs == << >>
Instead(off, t) == << [off |-> off, token |-> Head(t)] >>

Broken(u, no, off, left) == Fault(u, AsItIs, Report(no, off), left)
Kept(u, no, off) == Broken(u, no, off, u)

\* Where the name u has no declaration, its statement is left out of the tree;
\* where that begins with u, the semicolon after it is a statement.
Undeclared ==
  LET fault(p) == Broken(Around(<< p[1] >>), "c", p[2], Around(p[3]))
      kept(p) == fault(<< p[1], p[2], << p[3] >> >>)
  IN  Map(fault, << << Assign(V("u"), N), -2, << NullStmt >> >>,
                    << CallStmt("u", << N >>), -2, << NullStmt >> >>,
                    << Assign(V("x"), BinaryOp("+", N, V("u"))), 2, << >> >>,
                    << Assign(V("x"), BinaryOp("+", CallExpr("u", << N >>), V("x"))), -2, << >> >> >>) \o
      Map(kept, << << CompoundStmt(<< Show(N), ScanfStmt(<< "u", "x" >>) >>), 5,
                      CompoundStmt(<< Show(N), ScanfStmt(<< "x" >>) >>) >>,
                   << CompoundStmt(<< Show(N), PrintStmt(2, V("u")) >>), 7,
                      CompoundStmt(<< Show(N), Say(2) >>) >>,
                   << IfStmt(Condition("<", V("u"), N), NullStmt), -2, IfStmt(Nil, NullStmt) >>,
                   << Assign(V("x"), CallExpr("f", << N, V("u") >>)), 2,
                      Assign(V("x"), CallExpr("f", << N >>)) >>,
                   << ForStmt("u", N, Nonzero(V("x")), "x", "x", 1, NullStmt), -2,
                      ForStmt("", N, Nonzero(V("x")), "x", "x", 1, NullStmt) >>,
                   << ForStmt("x", I(0), Nonzero(V("x")), "u", "x", 99, NullStmt), -4,
                      ForStmt("x", I(0), Nonzero(V("x")), "", "x", 99, NullStmt) >>,
                   << ForStmt("x", I(0), Nonzero(V("x")), "x", "u", 99, NullStmt), -2,
                      ForStmt("x", I(0), Nonzero(V("x")), "x", "", 99, NullStmt) >> >>)

\* Every name has its declaration in the tree, the second one too.
Redeclared ==
  << Kept(Inside(<< Const("x", 1), Const("x", 99) >>), "b", -2),
     Kept(Inside(<< CharVar("x"), Array("x", 99) >>), "b", -2),
     Kept(Inside(<< Array("x", 99), CharVar("x") >>), "b", 4),
     Kept(Inside(<< Array("q", 99) >>), "b", -2),
     Kept(Beside(FunctionDecl("q", "void", << Var("x") >>, << Array("x", 99) >>, << >>)), "b", -2),
     Kept(Inside(<< Const("x", 99), [Const("x", 65) EXCEPT !.ch = TRUE] >>), "b", 4) >>

Mismatched ==
  LET kept(p) == Kept(Around(<< p[1] >>), p[2], p[3])
      if(c) == IfStmt(c, Show(N))
  IN  Map(kept, << << CallStmt("put", << V("x"), N >>), "d", 0 >>,
                   << CallStmt("f", << N >>), "d", 0 >>,
                   << Assign(V("x"), CallExpr("f", << V("d"), N >>)), "e", -2 >>,
                   << Assign(V("x"), CallExpr("up", << BinaryOp("+", V("d"), N), V("x") >>)), "e", 0 >>,
                   << if(Condition("<", V("d"), N)), "f", -2 >>,
                   << if(Condition("<", N, V("d"))), "f", 1 >>,
                   << if(Nonzero(V("d"))), "f", -6 >>,
                   << ReturnStmt(N), "g", -1 >>,
                   << Assign(ArraySubscript("a", V("d")), N), "i", -3 >>,
                   << Assign(V("x"), BinaryOp("+", ArraySubscript("a", V("d")), N)), "i", -3 >>,
                   << Assign(V("k"), N), "j", -2 >>,
                   << ForStmt("gk", N, Nonzero(V("x")), "x", "x", 1, NullStmt), "j", -2 >>,
                   << ForStmt("x", I(0), Nonzero(V("x")), "k", "x", 99, NullStmt), "j", -4 >> >>)

\* A function whose only return is wrong gets a second report at its end.
Returning ==
  LET q(ret, stmts) == Beside(FunctionDecl("q", ret, << >>, << >>, stmts))
      twice(u, i, j) == Fault(u, AsItIs, Report("h", i) \o Report("h", j), u)
  IN  << Kept(q("int", << Show(N) >>), "h", 3), twice(q("char", << ReturnStmt(N) >>), 0, 3),
         twice(q("int", << Show(N), ReturnStmt(NoExpr) >>), 4, 5),
         Kept(q("int", << IfStmt(Condition("<", V("g"), I(0)), ReturnStmt(N)), ReturnStmt(NoExpr) >>), "h", 4) >>

\* Texts that no tree has: a leading zero, and a constant without its value.
Worded ==
  LET used  == Around(<< Show(N) >>)
      ints  == Inside(<< Const("y", 99), Const("x", 1) >>)
      chars == Inside(<< [Const("y", 65) EXCEPT !.ch = TRUE], Array("x", 99) >>)
      zero  == << [Head(Number(99)) EXCEPT !.form = "zero"] >>
  IN  << Fault(used, Instead(0, zero), Report("a", 0), used),
         Fault(ints, Instead(4, Ident("x")), Report("o", 4), Inside(<< Const("y", 99) >>)),
         Fault(chars, Instead(-5, Number(1)), Report("o", -5), Inside(<< Array("x", 99) >>)) >>

Faults == Undeclared \o Redeclared \o Mismatched \o Returning \o Worded

TextOf(f) ==
  LET s == UnitText(f.unit)
  IN  IF f.edit = AsItIs THEN s ELSE ReplaceAt(s, Mark(s) + f.edit[1].off, f.edit[1].token)

(***************************************************************************)
(* A token is missing: ";", ")" or "]", or the while of a do loop.  Of two *)
(* parentheses in a row the last one is taken away; a semicolon that is a  *)
(* statement, or all that follows the word return, stays, and so does that *)
(* of a lone variable (see MCLoneVariable) and what surrounds the          *)
(* condition of a do loop, which nothing asks for.                         *)
(***************************************************************************)

Busy == Around(<<
  Assign(V("x"), BinaryOp("*", I(2), BinaryOp("-", V("x"), V("k")))),
  Assign(ArraySubscript("a", I(0)), ArraySubscript("a", BinaryOp("+", V("x"), I(1)))),
  IfElse(Condition("<", V("x"), I(1)), PrintStmt(1, CallExpr("f", << V("x"), V("g") >>)), NullStmt),
  WhileStmt(Condition("==", V("x"), V("g")), CompoundStmt(<< Assign(V("x"), I(0)) >>)),
  Loop("x", -1, PrintStmt(NoStr, CallExpr("up", << V("d"), V("x") >>))),
  DoStmt(NullStmt, Condition("<", V("x"), N)),
  ScanfStmt(<< "x", "d" >>) >>)

Removable(s, i) ==
  LET is(k, ts) == s[k].type \in ts
  IN  \/ is(i, {"WHILETK"}) /\ is(i - 2, {"DOTK"})
      \/ is(i, {"RBRACK"})
      \/ is(i, {"RPARENT"}) /\ s[i + 1] # s[i] /\ ~ IsMark(s[i - 1])
      \/ /\ is(i, {"SEMICN"}) /\ ~ is(i - 1, {"ELSETK", "RETURNTK", "DOTK"})
         /\ ~ (is(i - 2, TypeTokens) /\ is(i - 3, {"LBRACE"}))

Removals ==
  LET s == UnitText(Busy)
      without(i) == RemoveAt(s, i)
      removable(i) == Removable(s, i)
  IN  Map(without, SelectSeq([i \in DOMAIN s |-> i], removable))

FaultTexts == Map(TextOf, Faults)
=============================================================================
