------------------------------- MODULE C0Text -------------------------------
(***************************************************************************)
(* C0 as its grammar has it: the tokens of a program, written down from    *)
(* its tree by the productions that the comments of parser.cpp give        *)
(* (@Grammar).  It is what the trees of Parser are compared with.          *)
(*                                                                         *)
(* Parentheses are written where the tree needs them and nowhere else.     *)
(***************************************************************************)
EXTENDS C0Ast, SequencesExt

(***************************************************************************)
(* Tokens: m_type and m_value, a number or a character as its value.       *)
(***************************************************************************)

Lexeme(t, v) == << [type |-> t, val |-> v, form |-> "plain"] >>
Word(t)      == Lexeme(t, t)
Ident(n)     == Lexeme("IDENFR", n)
Number(v)    == Lexeme("INTCON", v)
Character(v) == Lexeme("CHARCON", v)
MainWord     == Lexeme("MAINTK", "main")

TypeWord(ch) == Word(IF ch THEN "CHARTK" ELSE "INTTK")

Operator(op) ==
  Word(CASE op = "+" -> "PLUS" [] op = "-" -> "MINU" [] op = "*" -> "MULT" [] op = "/" -> "DIV"
         [] op = "<" -> "LSS" [] op = "<=" -> "LEQ" [] op = ">" -> "GRE" [] op = ">=" -> "GEQ"
         [] op = "==" -> "EQL" [] op = "!=" -> "NEQ")

Enclosed(text)  == Word("LPARENT") \o text \o Word("RPARENT")
Indexed(n, text) == Ident(n) \o Word("LBRACK") \o text \o Word("RBRACK")
Braced(text)    == Word("LBRACE") \o text \o Word("RBRACE")

\* The texts with a comma between them.
Separated(texts) ==
  FoldLeft(LAMBDA before, text : IF before = << >> THEN text ELSE before \o Word("COMMA") \o text,
           << >>, texts)

(***************************************************************************)
(* Expressions: expr, term and factor                                      *)
(***************************************************************************)

Additive(e)       == e.node = "binary" /\ e.op \in {"+", "-"}
Multiplicative(e) == e.node = "binary" /\ e.op \in {"*", "/"}

RECURSIVE ExprText(_)

Arguments(args) == Enclosed(Separated([i \in DOMAIN args |-> ExprText(args[i])]))

\* A number below zero is a factor; it cannot begin an expression.
FactorText(e) ==
  CASE e.node = "literal" -> IF e.ch THEN Character(e.val)
                             ELSE IF e.val < 0 THEN Word("MINU") \o Number(- e.val) ELSE Number(e.val)
    [] e.node = "ident" -> Ident(e.name)
    [] e.node = "subscript" -> Indexed(e.name, ExprText(e.rhs))
    [] e.node = "call" -> Ident(e.name) \o Arguments(e.args)
    [] e.node \in {"binary", "unary"} -> Enclosed(ExprText(e))
    [] OTHER -> << >>

RECURSIVE TermText(_)
TermText(e) ==
  IF Multiplicative(e) THEN TermText(e.lhs) \o Operator(e.op) \o FactorText(e.rhs) ELSE FactorText(e)

ExprText(e) ==
  CASE Additive(e) -> ExprText(e.lhs) \o Operator(e.op) \o TermText(e.rhs)
    [] e.node = "unary" -> Operator(e.op) \o TermText(e.operand)
    [] OTHER -> TermText(e)

ConditionText(c) ==
  IF c.op = "none" THEN ExprText(c.lhs) ELSE ExprText(c.lhs) \o Operator(c.op) \o ExprText(c.rhs)

(***************************************************************************)
(* Statements.  A then part that ends in an if has an else of its own.     *)
(***************************************************************************)

Semicolon == Word("SEMICN")

ForHeader(s) ==
  Ident(s.ident) \o Word("ASSIGN") \o ExprText(s.init) \o Semicolon \o
  ConditionText(s.cond) \o Semicolon \o
  Ident(s.lhs) \o Word("ASSIGN") \o Ident(s.rhs) \o
  Word(IF s.inc < 0 THEN "MINU" ELSE "PLUS") \o Number(Abs(s.inc))

Printed(s) ==
  Separated((IF s.str = NoStr THEN << >> ELSE << Lexeme("STRCON", s.str) >>) \o
            (IF s.expr = NoExpr THEN << >> ELSE << ExprText(s.expr) >>))

RECURSIVE StmtText(_)

StmtsText(ss) == FlattenSeq([i \in DOMAIN ss |-> StmtText(ss[i])])

StmtText(s) ==
  LET when(word, c) == Word(word) \o Enclosed(ConditionText(c))
  IN  CASE s.stmt = "assign" -> FactorText(s.lhs) \o Word("ASSIGN") \o ExprText(s.rhs) \o Semicolon
        [] s.stmt = "if" -> when("IFTK", s.cond) \o StmtText(s.then)
        [] s.stmt = "ifelse" -> when("IFTK", s.cond) \o StmtText(s.then) \o
                                Word("ELSETK") \o StmtText(s.else)
        [] s.stmt = "while" -> when("WHILETK", s.cond) \o StmtText(s.body)
        [] s.stmt = "do" -> Word("DOTK") \o StmtText(s.body) \o when("WHILETK", s.cond)
        [] s.stmt = "for" -> Word("FORTK") \o Enclosed(ForHeader(s)) \o StmtText(s.body)
        [] s.stmt = "call" -> ExprText(s.expr) \o Semicolon
        [] s.stmt = "print" -> Word("PRINTFTK") \o Enclosed(Printed(s)) \o Semicolon
        [] s.stmt = "scanf" -> Word("SCANFTK") \o
                               Enclosed(Separated([i \in DOMAIN s.names |-> Ident(s.names[i])])) \o
                               Semicolon
        [] s.stmt = "return" -> Word("RETURNTK") \o
                                (IF s.expr = NoExpr THEN << >> ELSE Enclosed(ExprText(s.expr))) \o
                                Semicolon
        [] s.stmt = "compound" -> Braced(StmtsText(s.stmts))
        [] s.stmt = "null" -> Semicolon

(***************************************************************************)
(* Declarations.  Neighbours of one type share a declaration.              *)
(***************************************************************************)

Declarator(d) ==
  CASE d.const -> Ident(d.name) \o Word("ASSIGN") \o
                  (IF d.ch THEN Character(d.val)
                   ELSE IF d.val < 0 THEN Word("MINU") \o Number(- d.val) ELSE Number(d.val))
    [] ~ d.const /\ d.num > 1 -> Indexed(d.name, Number(d.num))
    [] ~ d.const /\ d.num = 1 -> Ident(d.name)

DeclsText(ds) ==
  LET joins(i) == i > 1 /\ ds[i - 1].const = ds[i].const /\ ds[i - 1].ch = ds[i].ch
      ends(i)  == i = Len(ds) \/ ~ joins(i + 1)
      text(i)  == (IF joins(i) THEN Word("COMMA")
                   ELSE (IF ds[i].const THEN Word("CONSTTK") ELSE << >>) \o TypeWord(ds[i].ch))
                  \o Declarator(ds[i]) \o (IF ends(i) THEN Semicolon ELSE << >>)
  IN  FlattenSeq([i \in DOMAIN ds |-> text(i)])

FunctionText(f) ==
  LET param(d) == TypeWord(d.ch) \o Ident(d.name)
  IN  Word(CASE f.ret = "void" -> "VOIDTK" [] f.ret = "int" -> "INTTK" [] f.ret = "char" -> "CHARTK") \o
      (IF f.name = "main" THEN MainWord ELSE Ident(f.name)) \o
      Enclosed(Separated([i \in DOMAIN f.params |-> param(f.params[i])])) \o
      Braced(DeclsText(f.decls) \o StmtsText(f.body))

UnitText(u) ==
  DeclsText(u.vars) \o FlattenSeq([i \in DOMAIN u.funcs |-> FunctionText(u.funcs[i])]) \o Word("EOFTK")
=============================================================================
