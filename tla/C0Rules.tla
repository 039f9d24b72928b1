------------------------------ MODULE C0Rules ------------------------------
(***************************************************************************)
(* The rules that a C0 program keeps to, apart from its grammar: what the  *)
(* kinds of error that error.cpp names forbid.  They are stated on the     *)
(* tree of a unit, without a word of how Parser checks them.               *)
(***************************************************************************)
EXTENDS C0Ast, SequencesExt

(***************************************************************************)
(* The parts of expressions and statements                                 *)
(***************************************************************************)

RECURSIVE Parts(_)
Parts(e) ==
  {e} \union
  CASE e.node = "subscript" -> Parts(e.rhs)
    [] e.node = "unary"     -> Parts(e.operand)
    [] e.node = "binary"    -> Parts(e.lhs) \union Parts(e.rhs)
    [] e.node = "call"      -> UNION {Parts(e.args[i]) : i \in DOMAIN e.args}
    [] OTHER                -> {}

\* A statement or a condition that is missing has no fields to look at.
IsStatement(s) == "stmt" \in DOMAIN s
IsCondition(c) == "op" \in DOMAIN c

RECURSIVE Statements(_)
Statements(s) ==
  IF ~ IsStatement(s) THEN {} ELSE
    {s} \union
    CASE s.stmt = "if"       -> Statements(s.then)
      [] s.stmt = "ifelse"   -> Statements(s.then) \union Statements(s.else)
      [] s.stmt \in {"while", "do", "for"} -> Statements(s.body)
      [] s.stmt = "compound" -> UNION {Statements(s.stmts[i]) : i \in DOMAIN s.stmts}
      [] OTHER               -> {}

AllStatements(f) == UNION {Statements(f.body[i]) : i \in DOMAIN f.body}

Conditional(s) == s.stmt \in {"if", "ifelse", "while", "do", "for"}
ConditionOf(s) == IF Conditional(s) /\ IsCondition(s.cond) THEN {s.cond} ELSE {}

\* A condition with one expression has it on both sides.
Sides(c) == {c.lhs, c.rhs}

Roots(s) ==
  UNION {Sides(c) : c \in ConditionOf(s)} \union
  CASE s.stmt = "assign" -> {s.lhs, s.rhs}
    [] s.stmt = "for"    -> {s.init}
    [] s.stmt \in {"call", "print", "return"} -> {s.expr}
    [] OTHER             -> {}

ExprsOf(f) == UNION {UNION {Parts(e) : e \in Roots(s)} : s \in AllStatements(f)}

\* What is used for its value: all but the calls that are statements.
ValuesOf(f) ==
  UNION {UNION {Parts(e) : e \in Roots(s)} \ (IF s.stmt = "call" THEN {s.expr} ELSE {}) :
         s \in AllStatements(f)}

Calls(f)      == {e \in ExprsOf(f) : e.node = "call"}
Subscripts(f) == {e \in ExprsOf(f) : e.node = "subscript"}
ConditionsIn(f) == UNION {ConditionOf(s) : s \in AllStatements(f)}
Returns(f)    == {s \in AllStatements(f) : s.stmt = "return"}

\* Names that statements give values to, or only use.
Assigned(f) ==
  {s.lhs.name : s \in {t \in AllStatements(f) : t.stmt = "assign"}} \union
  UNION {{s.ident, s.lhs} : s \in {t \in AllStatements(f) : t.stmt = "for"}}
Read(f) ==
  UNION {ToSet(s.names) : s \in {t \in AllStatements(f) : t.stmt = "scanf"}}
Used(f) ==
  {e.name : e \in {x \in ExprsOf(f) : x.node \in {"ident", "subscript", "call"}}} \union
  Assigned(f) \union Read(f) \union
  {s.rhs : s \in {t \in AllStatements(f) : t.stmt = "for"}}

(***************************************************************************)
(* Names.  A function sees its own ones, then those of the unit: all       *)
(* variables, and the functions up to itself.                              *)
(***************************************************************************)

Own(f)  == f.params \o f.decls
Names(ds) == {ds[i].name : i \in DOMAIN ds}
DeclOf(ds, n) == ds[CHOOSE i \in DOMAIN ds : ds[i].name = n]

Visible(u, k) == Names(Own(u.funcs[k])) \union Names(u.vars) \union Names(SubSeq(u.funcs, 1, k))

IsFunction(u, k, n) ==
  /\ n \notin Names(Own(u.funcs[k]))
  /\ n = u.funcs[k].name \/ n \notin Names(u.vars)
FunctionNamed(u, n) == DeclOf(u.funcs, n)
DataNamed(u, k, n) ==
  IF n \in Names(Own(u.funcs[k])) THEN DeclOf(Own(u.funcs[k]), n) ELSE DeclOf(u.vars, n)

(***************************************************************************)
(* Types                                                                   *)
(***************************************************************************)

OfChar(ch) == IF ch THEN "char" ELSE "int"

NameType(u, k, n) ==
  IF IsFunction(u, k, n) THEN FunctionNamed(u, n).ret ELSE OfChar(DataNamed(u, k, n).ch)

RECURSIVE TypeIn(_, _, _)
TypeIn(u, k, e) ==
  CASE e.node = "literal" -> OfChar(e.ch)
    [] e.node = "unary"   -> TypeIn(u, k, e.operand)
    [] e.node = "binary"  -> "int"
    [] e.node \in {"ident", "subscript", "call"} -> NameType(u, k, e.name)
    [] OTHER              -> "none"

(***************************************************************************)
(* The rules.  k is a function of the unit u that refers to names it sees. *)
(***************************************************************************)

\* b: the names of a scope differ.
DistinctNames(ds) == \A i, j \in DOMAIN ds : ds[i].name = ds[j].name => i = j
\* c
NamesAreDeclared(u, k) == Used(u.funcs[k]) \subseteq Visible(u, k)
\* d
CountsMatch(u, k) ==
  \A c \in Calls(u.funcs[k]) : Len(c.args) = Len(FunctionNamed(u, c.name).params)
NotTooMany(u, k) ==
  \A c \in Calls(u.funcs[k]) :
    Len(c.args) <= Len(FunctionNamed(u, c.name).params)
\* e
TypesMatch(u, k) ==
  \A c \in Calls(u.funcs[k]) :
    LET params == FunctionNamed(u, c.name).params
    IN  \A i \in DOMAIN c.args \intersect DOMAIN params :
          TypeIn(u, k, c.args[i]) = OfChar(params[i].ch)
CallsHaveValues(u, k) ==
  \A e \in ValuesOf(u.funcs[k]) : e.node = "call" => FunctionNamed(u, e.name).ret # "void"
\* f
ConditionsAreInts(u, k) ==
  \A c \in ConditionsIn(u.funcs[k]) : \A e \in Sides(c) : TypeIn(u, k, e) = "int"
\* g and h: a function with a result returns one of its type somewhere, and no other.
ReturnsMatch(u, k) ==
  LET f == u.funcs[k]
  IN  IF f.ret = "void" THEN \A s \in Returns(f) : s.expr = NoExpr
      ELSE /\ Returns(f) # {}
           /\ \A s \in Returns(f) : s.expr # NoExpr /\ TypeIn(u, k, s.expr) = f.ret
\* i
SubscriptsAreInts(u, k) ==
  \A e \in Subscripts(u.funcs[k]) : TypeIn(u, k, e.rhs) = "int"
\* j
IsConstant(u, k, n) == ~ IsFunction(u, k, n) /\ DataNamed(u, k, n).const
ConstantsAreKept(u, k) == \A n \in Assigned(u.funcs[k]) : ~ IsConstant(u, k, n)
ConstantsAreNotRead(u, k) == \A n \in Read(u.funcs[k]) : ~ IsConstant(u, k, n)

(***************************************************************************)
(* Trees with nothing missing                                              *)
(***************************************************************************)

WholeStatement(s) ==
  /\ Conditional(s) => IsCondition(s.cond)
  /\ s.stmt = "for" => "" \notin {s.ident, s.lhs, s.rhs}
  /\ s.stmt \in {"while", "do", "for"} => IsStatement(s.body)
  /\ s.stmt \in {"if", "ifelse"} => IsStatement(s.then)

\* An expression may be left out of a printf with a string and of a return.
MayLack(s) == s.stmt \in {"print", "return"}

IsComplete(u) ==
  \A k \in DOMAIN u.funcs :
    /\ "body" \in DOMAIN u.funcs[k]
    /\ \A s \in AllStatements(u.funcs[k]) :
         /\ WholeStatement(s)
         /\ \A e \in Roots(s) :
              IF e = NoExpr THEN MayLack(s) ELSE NoExpr \notin Parts(e)
=============================================================================
