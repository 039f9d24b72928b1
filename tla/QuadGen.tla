------------------------------ MODULE QuadGen ------------------------------
(***************************************************************************)
(* QuadGenerator: the walk over the tree that turns every function into a  *)
(* list of quadruples with a frame.                                        *)
(*                                                                         *)
(* The generator's state g is threaded through the visitors, which are     *)
(* operators; g.cur is m_curqa, through which a visitor hands its operand  *)
(* (and VisitCondition is handed its label).  A QuadAddr is a record.      *)
(***************************************************************************)
EXTENDS C0Ast, Functions

(***************************************************************************)
(* QuadAddr                                                                *)
(***************************************************************************)

NullAddr           == [at |-> "null"]
Lit(v, ch)         == [at |-> "literal", val |-> v, ch |-> ch]
\* AT_STR: a numbered string, and whether "\n" has been appended to it.
Str(s, nl)         == [at |-> "str", val |-> s, nl |-> nl]
Label(n)           == [at |-> "label", label |-> n]
Callee(n)          == [at |-> "callee", name |-> n]
ArgSlot(o)         == [at |-> "offset", off |-> o]
\* A variable; only for globals does it matter that it has been resolved.
Variable(n, ch, glb, o) == [at |-> "ident", name |-> n, ch |-> ch, glb |-> glb,
                            off |-> o, resolved |-> FALSE]
Temp(i, ch, o)     == [at |-> "tmp", id |-> i, ch |-> ch, off |-> o]
Element(v, minion) == [at |-> "array", name |-> v.name, ch |-> v.ch,
                       glb |-> v.glb, off |-> v.off, minion |-> minion]

Quad(op, dst, arg1, arg2) == [op |-> op, dst |-> dst, arg1 |-> arg1, arg2 |-> arg2]

(***************************************************************************)
(* The generator's state                                                   *)
(***************************************************************************)

\* m_glb_identtab: every global by name.
GlobalTab(unit) ==
  [n \in {unit.vars[i].name : i \in DOMAIN unit.vars} |->
     LET d == unit.vars[CHOOSE i \in DOMAIN unit.vars : unit.vars[i].name = n]
     IN  Variable(n, d.ch, TRUE, 0)]

InitialGenerator(unit) ==
  [unit |-> unit, glb |-> GlobalTab(unit), qamap |-> << >>, quads |-> << >>,
   offset |-> 0, size |-> 0, saves |-> FALSE, argbuildsz |-> 0,
   tempid |-> 0, tag |-> 0, cur |-> NullAddr, func |-> "", funcs |-> << >>]

NewQuad(g, op, dst, arg1, arg2) ==
  [g EXCEPT !.quads = Append(@, Quad(op, dst, arg1, arg2))]

\* A label, or a jump to it.
NewMark(g, op, label) == NewQuad(g, op, label, NullAddr, NullAddr)

NewTemp(g, ch) ==
  [g EXCEPT !.offset = @ + 4, !.tempid = @ + 1,
            !.cur = Temp(g.tempid + 1, ch, g.offset + 4)]

\* A quadruple whose destination is a new temporary.
QuadToTemp(g, ch, op, arg1, arg2) ==
  LET h == NewTemp(g, ch) IN NewQuad(h, op, h.cur, arg1, arg2)

NewLabel(g) == [g EXCEPT !.tag = @ + 1, !.cur = Label(g.tag + 1)]

\* QuadGenerator::Find: the function's own variables, then the globals.
Find(g, n) == IF n \in DOMAIN g.qamap THEN g.qamap[n] ELSE g.glb[n]

(***************************************************************************)
(* Expressions                                                             *)
(***************************************************************************)

QuadOf(op) ==
  CASE op = "+" -> "PLUS" [] op = "-" -> "MINU" [] op = "*" -> "MULT" [] op = "/" -> "DIV"

RECURSIVE Visit(_, _), VisitArgs(_, _, _)

\* The element is read into a temporary at once.
VisitArraySubscriptExpr(g, e) ==
  LET lhs     == Find(g, e.name)
      Read(h) == QuadToTemp(h, lhs.ch, "ASSIGN", Element(lhs, h.cur), NullAddr)
  IN  Read(Visit(g, e.rhs))

Folded(g, e) == [g EXCEPT !.cur = Lit(ConstVal(e), FALSE)]

\* Mutation: the operands are taken in the order they are visited in.
VisitBinaryOpSwapped(g, e) ==
  LET Both(h, rhs) == QuadToTemp(h, FALSE, QuadOf(e.op), rhs, h.cur)
      Left(h)      == Both(Visit(h, e.lhs), h.cur)
  IN  IF IsConst(e) THEN Folded(g, e) ELSE Left(Visit(g, e.rhs))

\* The right operand is visited first.
VisitBinaryOp(g, e) ==
  LET Both(h, rhs) == QuadToTemp(h, FALSE, QuadOf(e.op), h.cur, rhs)
      Left(h)      == Both(Visit(h, e.lhs), h.cur)
  IN  IF IsConst(e) THEN Folded(g, e) ELSE Left(Visit(g, e.rhs))

\* Mutation: the operand of "+" is a new temporary too.
VisitUnaryOpTemp(g, e) ==
  LET Negate(h) == QuadToTemp(h, FALSE, "MINU", Lit(0, FALSE), h.cur)
  IN  CASE IsConst(e) -> Folded(g, e)
        [] ~IsConst(e) /\ e.op = "-" -> Negate(Visit(g, e.operand))
        [] ~IsConst(e) /\ e.op = "+" -> NewTemp(Visit(g, e.operand), FALSE)

VisitUnaryOp(g, e) ==
  LET Negate(h) == QuadToTemp(h, FALSE, "MINU", Lit(0, FALSE), h.cur)
  IN  CASE IsConst(e) -> Folded(g, e)
        [] ~IsConst(e) /\ e.op = "-" -> Negate(Visit(g, e.operand))
        [] ~IsConst(e) /\ e.op = "+" -> Visit(g, e.operand)

\* The arguments' operands, in g.args, and the code that computes them.
VisitArgs(g, args, done) ==
  LET Rest(h) == VisitArgs(h, Tail(args), Append(done, h.cur))
  IN  IF args = << >> THEN [g |-> g, args |-> done] ELSE Rest(Visit(g, Head(args)))

\* The function is no leaf; every call in it makes its frame larger by a word.
EnterCall(g) == [g EXCEPT !.saves = TRUE, !.size = @ + 4]

\* The n arguments have been pushed.
FinishCall(g, e, n) ==
  QuadToTemp([g EXCEPT !.argbuildsz = IF 4 * n > @ THEN 4 * n ELSE @],
             FuncNamed(g.unit, e.name).ret = "char", "CALL", Callee(e.name), NullAddr)

\* Mutation: every argument is pushed as soon as it has been computed.
RECURSIVE VisitAndPush(_, _, _)
VisitAndPush(g, args, n) ==
  LET Rest(h) == VisitAndPush(NewQuad(h, "PUSH", h.cur, ArgSlot(4 * n), NullAddr), Tail(args), n + 1)
  IN  IF args = << >> THEN g ELSE Rest(Visit(g, Head(args)))

VisitCallExprEager(g, e) ==
  FinishCall(VisitAndPush(EnterCall(g), e.args, 0), e, Len(e.args))

\* The arguments are pushed together once all of them have been computed.
VisitCallExpr(g, e) ==
  LET PushAll(r) ==
        [r.g EXCEPT !.quads = @ \o
           [i \in DOMAIN r.args |-> Quad("PUSH", r.args[i], ArgSlot(4 * (i - 1)), NullAddr)]]
  IN  FinishCall(PushAll(VisitArgs(EnterCall(g), e.args, << >>)), e, Len(e.args))

Visit(g, e) ==
  CASE e.node = "literal"   -> [g EXCEPT !.cur = Lit(e.val, e.ch)]
    [] e.node = "ident"     -> [g EXCEPT !.cur = Find(g, e.name)]
    [] e.node = "subscript" -> VisitArraySubscriptExpr(g, e)
    [] e.node = "binary"    -> VisitBinaryOp(g, e)
    [] e.node = "unary"     -> VisitUnaryOp(g, e)
    [] e.node = "call"      -> VisitCallExpr(g, e)

(***************************************************************************)
(* Conditions: a jump to the label in g.cur when the condition is false.   *)
(***************************************************************************)

\* Mutation: BZ is its own opposite.
OppositeNotOfZero ==
  [BEQ |-> "BNE", BNE |-> "BEQ", BGE |-> "BLT", BLT |-> "BGE",
   BGT |-> "BLE", BLE |-> "BGT", BZ |-> "BZ", BNZ |-> "BZ"]

\* QuadOp numbers a jump and the opposite jump n and -n.
Opposite ==
  [BEQ |-> "BNE", BNE |-> "BEQ", BGE |-> "BLT", BLT |-> "BGE",
   BGT |-> "BLE", BLE |-> "BGT", BZ |-> "BNZ", BNZ |-> "BZ"]

JumpUnless(op) ==
  CASE op = ">=" -> "BLT" [] op = "<=" -> "BGT" [] op = "==" -> "BNE"
    [] op = "!=" -> "BEQ" [] op = ">" -> "BLE"  [] op = "<" -> "BGE"

VisitCondition(g, c) ==
  LET label == g.cur
      JumpIf(op, h, lhs, rhs) == [NewQuad(h, op, label, lhs, rhs) EXCEPT !.cur = label]
      Both(h, lhs) == JumpIf(JumpUnless(c.op), h, lhs, h.cur)
      Right(h) == IF c.op = "none" THEN JumpIf("BZ", h, h.cur, NullAddr)
                                   ELSE Both(Visit(h, c.rhs), h.cur)
  IN  Right(Visit(g, c.lhs))

\* The jump just made, with its condition reversed.
ReverseLast(g) == [g EXCEPT !.quads[Len(g.quads)].op = Opposite[@]]

(***************************************************************************)
(* Statements                                                              *)
(***************************************************************************)

RECURSIVE VisitStmt(_, _), VisitStmts(_, _), VisitScanf(_, _)

\* The right side is visited first.  An element on the left is not read: its
\* operand is the destination.
VisitAssign(g, s) ==
  LET var == Find(g, s.lhs.name)
      AssignElement(h, rhs) == NewQuad(h, "ASSIGN", Element(var, h.cur), rhs, NullAddr)
      Left(h) == IF s.lhs.node = "subscript" THEN AssignElement(Visit(h, s.lhs.rhs), h.cur)
                 ELSE NewQuad(h, "ASSIGN", var, h.cur, NullAddr)
  IN  Left(Visit(g, s.rhs))

VisitIfStmt(g, s) ==
  LET Else(h, else) ==
        NewMark(VisitStmt(NewMark(NewMark(h, "GOTO", h.cur), "LABEL", else), s.else),
                "LABEL", h.cur)
      Rest(h, else) == IF s.stmt = "if" THEN NewMark(h, "LABEL", else)
                                        ELSE Else(NewLabel(h), else)
      Then(h) == Rest(VisitStmt(h, s.then), h.cur)
  IN  Then(VisitCondition(NewLabel(g), s.cond))

\* What a while and a for statement have in common: the condition is tested
\* once before the loop and again, reversed, after the quadruples of step at
\* its end.
VisitLoop(g, cond, body, step) ==
  LET Place(h)     == NewMark(h, "LABEL", h.cur)
      Again(h, l)  == ReverseLast(VisitCondition([h EXCEPT !.cur = l, !.quads = @ \o step], cond))
      Body(h, end) == NewMark(Again(VisitStmt(Place(h), body), h.cur), "LABEL", end)
      Enter(h)     == Body(NewLabel(h), h.cur)
  IN  Enter(VisitCondition(NewLabel(Place(NewLabel(g))), cond))

VisitWhileStmt(g, s) == VisitLoop(g, s.cond, s.body, << >>)

VisitForStmt(g, s) ==
  LET Set(h) == NewQuad(h, "ASSIGN", Find(h, s.ident), h.cur, NullAddr)
      increment == Quad("PLUS", Find(g, s.lhs), Find(g, s.rhs), Lit(s.inc, FALSE))
  IN  VisitLoop(Set(Visit(g, s.init)), s.cond, s.body, << increment >>)

VisitDoStmt(g, s) ==
  LET Again(h, l) == ReverseLast(VisitCondition([h EXCEPT !.cur = l], s.cond))
      Body(h)     == Again(VisitStmt(NewMark(h, "LABEL", h.cur), s.body), h.cur)
  IN  Body(NewLabel(g))

\* The expression is computed before the string is printed.
VisitPrintStmt(g, s) ==
  LET String(h) == IF s.str = NoStr THEN h
                   ELSE NewMark(h, "PRINT", Str(s.str, s.expr = NoExpr))
      Value(h)  == NewMark(NewMark(String(h), "PRINT", h.cur), "PRINT", Str(NoStr, TRUE))
  IN  IF s.expr = NoExpr THEN String(g) ELSE Value(Visit(g, s.expr))

VisitScanf(g, names) ==
  IF names = << >> THEN g
  ELSE VisitScanf(NewMark(g, "SCAN", Find(g, Head(names))), Tail(names))

VisitReturnStmt(g, s) ==
  LET Return(h) == NewMark(h, "RETURN", h.cur)
  IN  IF s.expr = NoExpr THEN NewMark(g, "RETURN", NullAddr) ELSE Return(Visit(g, s.expr))

VisitStmt(g, s) ==
  CASE s.stmt = "assign"   -> VisitAssign(g, s)
    [] s.stmt \in {"if", "ifelse"} -> VisitIfStmt(g, s)
    [] s.stmt = "while"    -> VisitWhileStmt(g, s)
    [] s.stmt = "for"      -> VisitForStmt(g, s)
    [] s.stmt = "do"       -> VisitDoStmt(g, s)
    [] s.stmt = "call"     -> VisitCallExpr(g, s.expr)
    [] s.stmt = "print"    -> VisitPrintStmt(g, s)
    [] s.stmt = "scanf"    -> VisitScanf(g, s.names)
    [] s.stmt = "return"   -> VisitReturnStmt(g, s)
    [] s.stmt = "compound" -> VisitStmts(g, s.stmts)
    [] s.stmt = "null"     -> g

\* Forced is true.  It has TLC compute the record g before it goes on.
Forced(g) == DOMAIN g # {}

VisitStmts(g, ss) ==
  IF ~Forced(g) \/ ss = << >> THEN g ELSE VisitStmts(VisitStmt(g, Head(ss)), Tail(ss))

(***************************************************************************)
(* Declarations, and the resolution of offsets (see FrameLayout)           *)
(***************************************************************************)

Bind(g, n, qa) ==
  [g EXCEPT !.qamap = [m \in DOMAIN @ \union {n} |-> IF m = n THEN qa ELSE @[m]]]

RECURSIVE VisitParams(_, _), VisitDecls(_, _), VisitFunctions(_, _)

VisitParams(g, ps) ==
  LET Param(qa) == [NewMark(Bind(g, qa.name, qa), "PARAM", qa) EXCEPT !.offset = @ + 4]
  IN  IF ps = << >> THEN g
      ELSE VisitParams(Param(Variable(Head(ps).name, Head(ps).ch, FALSE, g.offset)), Tail(ps))

\* The variable qa of declaration d.
DeclareVar(g, d, qa) ==
  LET h == [Bind(g, d.name, qa) EXCEPT !.offset = @ + Width(d)]
  IN  IF d.const THEN NewQuad(h, "ASSIGN", qa, Lit(d.val, d.ch), NullAddr) ELSE h

\* Mutation: the offset is taken before the width is added.
VisitVarDeclEarly(g, d) == DeclareVar(g, d, Variable(d.name, d.ch, FALSE, g.offset))

VisitVarDecl(g, d) == DeclareVar(g, d, Variable(d.name, d.ch, FALSE, g.offset + Width(d)))

VisitDecls(g, ds) ==
  IF ds = << >> THEN g ELSE VisitDecls(VisitVarDecl(g, Head(ds)), Tail(ds))

FrameSize(g) == g.size + g.offset + g.argbuildsz

IsParam(g, qa) ==
  \E i \in DOMAIN g.quads : g.quads[i].op = "PARAM" /\ g.quads[i].dst = qa

\* A global keeps the offset that the first function using it has left in
\* it; the offsets of literals, strings and labels are not used.
RECURSIVE Resolved(_, _)
Resolved(g, qa) ==
  CASE qa.at = "tmp"   -> [qa EXCEPT !.off = FrameSize(g) - g.size - @]
    [] qa.at = "array" -> [qa EXCEPT !.off = FrameSize(g) - g.size - @,
                                     !.minion = Resolved(g, @)]
    [] qa.at = "ident" ->
         IF qa.resolved THEN qa
         ELSE [qa EXCEPT !.resolved = TRUE,
                         !.off = IF IsParam(g, qa) THEN FrameSize(g) + @
                                 ELSE FrameSize(g) - g.size - @]
    [] OTHER -> qa

ResolvedQuad(g, q) ==
  [q EXCEPT !.dst = Resolved(g, @), !.arg1 = Resolved(g, @), !.arg2 = Resolved(g, @)]

\* The globals among the operands of g's quadruples, resolved.
ResolvedGlobals(g) ==
  LET usedIn(q) == {q.dst, q.arg1, q.arg2}
      used == UNION {usedIn(g.quads[i]) : i \in DOMAIN g.quads}
      minions == {qa.minion : qa \in {u \in used : u.at = "array"}}
  IN  [n \in DOMAIN g.glb |-> IF g.glb[n] \in used \union minions
                              THEN Resolved(g, g.glb[n]) ELSE g.glb[n]]

TempNumbered(g, i) ==
  (CHOOSE q \in Range(g.quads) : q.dst.at = "tmp" /\ q.dst.id = i).dst

\* Where variable n of f is, and how many words it takes.
VarPlace(g, f, n) ==
  LET ds == {i \in DOMAIN f.decls : f.decls[i].name = n}
  IN  [off |-> Resolved(g, g.qamap[n]).off,
       num |-> IF ds = {} THEN 1 ELSE f.decls[CHOOSE i \in ds : TRUE].num]

\* f with its frame and its resolved quadruples; temps is where each
\* temporary is, vars where each variable of m_qamap.
FinishFunction(g, f) ==
  LET fi == [name |-> f.name, ret |-> f.ret, params |-> Len(f.params),
             size |-> FrameSize(g), saves |-> g.saves, args |-> g.argbuildsz,
             quads |-> [i \in DOMAIN g.quads |-> ResolvedQuad(g, g.quads[i])],
             temps |-> [i \in 1 .. g.tempid |-> Resolved(g, TempNumbered(g, i)).off],
             vars |-> [n \in DOMAIN g.qamap |-> VarPlace(g, f, n)]]
  IN  [g EXCEPT !.funcs = Append(@, fi), !.glb = ResolvedGlobals(g)]

VisitFunctionDecl(g, f) ==
  LET start == [g EXCEPT !.qamap = << >>, !.quads = << >>, !.offset = 0, !.size = 0,
                         !.saves = FALSE, !.argbuildsz = 0, !.tempid = 0, !.func = f.name]
  IN  FinishFunction(VisitStmts(VisitDecls(VisitParams(start, f.params), f.decls), f.body), f)

VisitFunctions(g, fs) ==
  IF fs = << >> THEN g ELSE VisitFunctions(VisitFunctionDecl(g, Head(fs)), Tail(fs))

\* m_data_entries: the words of each global; only a const has an initial value.
DataEntries(unit) ==
  [n \in {unit.vars[i].name : i \in DOMAIN unit.vars} |->
     LET d == unit.vars[CHOOSE i \in DOMAIN unit.vars : unit.vars[i].name = n]
     IN  [i \in 1 .. d.num |-> d.val]]

\* What is generated for a translation unit: m_funcs and m_data_entries.
Compile(unit) ==
  [funcs |-> VisitFunctions(InitialGenerator(unit), unit.funcs).funcs,
   data  |-> DataEntries(unit)]

FuncInfo(funcs, n) == funcs[CHOOSE i \in DOMAIN funcs : funcs[i].name = n]
=============================================================================
