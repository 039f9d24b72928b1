------------------------------- MODULE Parser -------------------------------
(***************************************************************************)
(* Parser: recursive descent over the tokens of one text, with the checks  *)
(* of names and types and the recovery from errors that its functions do.  *)
(*                                                                         *)
(* The call stack of the program is ctl: what is left to do, first things  *)
(* first, in items that are a function or a part of one after a call.  A   *)
(* function leaves its result on vals, where its caller takes it from.     *)
(* The token stream is its cursor (TokenCursor): pos tokens are popped and *)
(* the last of them is prev().  DEBUG_PARSER output is left out.           *)
(***************************************************************************)
EXTENDS C0Ast, Scope

CONSTANT Texts        \* a sequence of token sequences, each ended by EOFTK

VARIABLES prog,       \* the text that is compiled, an index of Texts
          source,     \* its tokens, as the lexer gives them
          pos,        \* tokens popped from m_ts
          ctl,        \* what is left to do
          vals,       \* results of functions that have returned
          scopes,     \* m_curscope and its parents
          unit,       \* m_unit; its last function is m_curfunc
          errors,     \* what error.txt lists; error_flag is whether it does
          status      \* "run", "done", "crash", or "undefined"

vars == << prog, source, pos, ctl, vals, scopes, unit, errors, status >>

(***************************************************************************)
(* Tokens                                                                  *)
(***************************************************************************)

Type(n)    == source[pos + n + 1].type      \* m_ts.GetType(n)
Name(n)    == source[pos + n + 1].val       \* m_ts.GetName(n)
FrontType  == Type(0)
HasTokens  == pos < Len(source)

TypeTokens == {"INTTK", "CHARTK"}
PlusMinus  == {"PLUS", "MINU"}
MultDiv    == {"MULT", "DIV"}
CmpOps     == {"LSS", "LEQ", "GRE", "GEQ", "EQL", "NEQ"}
Symbol(t)  ==
  CASE t = "PLUS" -> "+" [] t = "MINU" -> "-" [] t = "MULT" -> "*" [] t = "DIV" -> "/"
    [] t = "LSS" -> "<" [] t = "LEQ" -> "<=" [] t = "GRE" -> ">" [] t = "GEQ" -> ">="
    [] t = "EQL" -> "==" [] t = "NEQ" -> "!="
TypeOf(t)  == IF t = "INTTK" THEN "int" ELSE "char"

(***************************************************************************)
(* Results.  An expression is its tree and its type; a function's name has *)
(* the type of its result.  Nil is a null pointer.                         *)
(***************************************************************************)

Expr(tree, type) == [tree |-> tree, type |-> type]
Nil              == Expr(NoExpr, "none")
Object(t, c)     == [kind |-> "object", type |-> t, const |-> c]
Function(t, i)   == [kind |-> "function", type |-> t, const |-> FALSE, fn |-> i]
IsInt(x)         == x.type = "int"
IsChar(x)        == x.type = "char"
ElemType(ident)  == IF IsInt(ident) THEN "int" ELSE "char"

\* Expr::Tok() is null: literals with a sign and calls are made without a token.
HasToken(x) == x.tree.node \notin {"call"} /\ ~ (x.tree.node = "literal" /\ ~ x.tree.ch)

\* Lists that grow: statements, names read, arguments.
List(xs)  == [list |-> xs]
Result(k) == vals[Len(vals) - k + 1]
Drop(k)   == SubSeq(vals, 1, Len(vals) - k)
Push(x)   == Append(vals, x)
Reduce(k, x) == Append(Drop(k), x)

(***************************************************************************)
(* Steps                                                                   *)
(***************************************************************************)

With(f, x) == [do |-> f, arg |-> x]
Call(f)    == With(f, 0)
Token(t)   == With("AssertFront", t)
Skip(ts)   == With("FlushTo", ts)
ToSemicolon == Skip({"SEMICN"})
Arg        == Head(ctl).arg

Report(no, at) == << [no |-> no, at |-> at] >>
None           == << >>

Runs(f) == /\ status = "run" /\ HasTokens
           /\ ctl # << >> /\ Head(ctl).do = f

\* n tokens are popped, the items are to be done next.
Move(n, items, vs, errs) ==
  /\ pos' = pos + n
  /\ ctl' = items \o Tail(ctl)
  /\ vals' = vs
  /\ errors' = errors \o errs
  /\ UNCHANGED << prog, source, status >>

Step(n, items, vs, errs) == Move(n, items, vs, errs) /\ UNCHANGED << scopes, unit >>

\* A null pointer is dereferenced, an exception or a signal ends the compiler.
Crash == status' = "crash" /\ UNCHANGED << prog, source, pos, ctl, vals, scopes, unit, errors >>

\* What GetToken gives after the end token comes from beyond the text.
ReadBeyond ==
  /\ status = "run" /\ ~ HasTokens
  /\ status' = "undefined"
  /\ UNCHANGED << prog, source, pos, ctl, vals, scopes, unit, errors >>

\* Mutation: a missing semicolon is reported like the others, at the token found.
MissingHere(n, t) ==
  CASE t = "SEMICN"  -> Report("k", pos + n + 1)
    [] t = "WHILETK" -> Report("n", pos + n + 1)
    [] t = "RPARENT" -> Report("l", pos + n + 1)
    [] t = "RBRACK"  -> Report("m", pos + n + 1)
    [] OTHER         -> None

\* Error() in Assert(n, t); the token before offset n is prev() when n is 0.
Missing(n, t) ==
  CASE t = "SEMICN"  -> Report("k", pos + n)
    [] t = "WHILETK" -> Report("n", pos + n + 1)
    [] t = "RPARENT" -> Report("l", pos + n + 1)
    [] t = "RBRACK"  -> Report("m", pos + n + 1)
    [] OTHER         -> None


AssertFront ==
  /\ Runs("AssertFront")
  /\ \/ FrontType = Arg /\ Step(1, << >>, vals, None)
     \/ FrontType # Arg /\ Step(0, << >>, vals, Missing(0, Arg))

\* Mutation: the token that ends the loop is flushed too.
FlushPast ==
  /\ Runs("FlushTo")
  /\ \/ FrontType \in Arg /\ Step(1, << >>, vals, None)
     \/ FrontType \notin Arg /\ Step(1, << Head(ctl) >>, vals, None)

\* while (front is none of the tokens) FlushFront()
FlushTo ==
  /\ Runs("FlushTo")
  /\ \/ FrontType \in Arg /\ Step(0, << >>, vals, None)
     \/ FrontType \notin Arg /\ Step(1, << Head(ctl) >>, vals, None)

(***************************************************************************)
(* Declarations                                                            *)
(***************************************************************************)

Redefined(n, at) == IF FindInCurScope(scopes, n) # NullIdent THEN Report("b", at) ELSE None

\* Mutation: the scope of a function is taken for that of the file.
IsGlobalInside == Len(scopes) <= 2

IsGlobal == Len(scopes) = 1

AddVarDecl(d) ==
  unit' = IF IsGlobal THEN [unit EXCEPT !.vars = Append(@, d)]
          ELSE [unit EXCEPT !.funcs[Len(unit.funcs)].decls = Append(@, d)]

Typed(d, t) == [d EXCEPT !.ch = (t = "char")]

\* do { const <definition>; } while (const)
ParseConstVarDecl ==
  /\ Runs("ParseConstVarDecl")
  /\ Step(0, << Token("CONSTTK"), Call("ParseConstVarDef"), Token("SEMICN"), Call("MoreConsts") >>,
          vals, None)

MoreConsts ==
  /\ Runs("MoreConsts")
  /\ Step(0, IF FrontType = "CONSTTK" THEN << Call("ParseConstVarDecl") >> ELSE << >>, vals, None)

ParseConstVarDef ==
  /\ Runs("ParseConstVarDef")
  /\ Step(0, CASE FrontType = "CHARTK" -> << Call("ParseConstCharDef") >>
               [] FrontType = "INTTK"  -> << Call("ParseConstIntDef") >>
               [] OTHER                -> << >>, vals, None)

\* The front is the type or a comma.
ParseConstCharDef ==
  /\ Runs("ParseConstCharDef")
  /\ \/ Type(1) # "IDENFR" /\ Crash
     \/ /\ Type(1) = "IDENFR"
        /\ scopes' = Insert(scopes, Name(1), Object("char", TRUE))
        /\ Move(2, << Token("ASSIGN"), With("ConstCharValue", Name(1)) >>, vals,
                Redefined(Name(1), pos + 2))
        /\ UNCHANGED unit

ConstCharValue ==
  /\ Runs("ConstCharValue")
  /\ \/ FrontType # "CHARCON" /\ Step(0, << ToSemicolon >>, vals, Report("o", pos + 1))
     \/ /\ FrontType = "CHARCON"
        /\ AddVarDecl([Const(Arg, Name(0)) EXCEPT !.ch = TRUE])
        /\ Move(1, IF Type(1) = "COMMA" THEN << Call("ParseConstCharDef") >> ELSE << >>, vals, None)
        /\ UNCHANGED scopes

\* Without an identifier, the token before it gives the name.
ParseConstIntDef ==
  /\ Runs("ParseConstIntDef")
  /\ LET n == IF Type(1) = "IDENFR" THEN 2 ELSE 1
         name == Name(n - 1)
     IN  /\ scopes' = Insert(scopes, name, Object("int", TRUE))
         /\ Move(n, << Token("ASSIGN"), With("ConstIntValue", name) >>, vals,
                 Redefined(name, pos + n))
  /\ UNCHANGED unit

ConstIntValue ==
  /\ Runs("ConstIntValue")
  /\ IF FrontType \in PlusMinus \union {"INTCON"}
     THEN Step(0, << Call("ParseIntegerLiteral"), With("AddIntConst", Arg) >>, vals, None)
     ELSE Step(0, << ToSemicolon >>, vals, Report("o", pos + 1))

AddIntConst ==
  /\ Runs("AddIntConst")
  /\ AddVarDecl(Const(Arg, Result(1).tree.val))
  /\ Move(0, IF FrontType = "COMMA" THEN << Call("ParseConstIntDef") >> ELSE << >>, Drop(1), None)
  /\ UNCHANGED scopes

ParseVarDecl ==
  /\ Runs("ParseVarDecl")
  /\ Step(0, << With("ParseVarDef", TypeOf(FrontType)), Token("SEMICN"), Call("MoreVars") >>, vals, None)

MoreVars ==
  /\ Runs("MoreVars")
  /\ LET isFunction == Type(1) = "IDENFR" /\ Type(2) = "LPARENT"
     IN  Step(0, IF FrontType \in TypeTokens /\ ~ isFunction THEN << Call("ParseVarDecl") >> ELSE << >>,
              vals, None)

ParseVarDef ==
  /\ Runs("ParseVarDef")
  /\ LET add(n) == With("AddVar", Typed(Var(n), Arg))
     IN  \/ Type(1) # "IDENFR" /\ Crash
         \/ /\ Type(1) = "IDENFR" /\ Type(2) # "LBRACK"
            /\ Step(2, << add(Name(1)) >>, Push(Nil), Redefined(Name(1), pos + 2))
         \/ /\ Type(1) = "IDENFR" /\ Type(2) = "LBRACK"
            /\ Step(3, << Call("ParseUnsignedIntegerLiteral"), Token("RBRACK"), add(Name(1)) >>,
                    vals, Redefined(Name(1), pos + 2))

\* The result is the length of the array, if it is one.
AddVar ==
  /\ Runs("AddVar")
  /\ LET type == IF Arg.ch THEN "char" ELSE "int"
         len  == Result(1).tree
     IN  /\ scopes' = Insert(scopes, Arg.name, Object(type, FALSE))
         /\ AddVarDecl(IF len = NoExpr THEN Arg ELSE [Arg EXCEPT !.num = len.val])
         /\ Move(0, IF FrontType = "COMMA" THEN << With("ParseVarDef", type) >> ELSE << >>,
                 Drop(1), None)

(***************************************************************************)
(* Functions                                                               *)
(***************************************************************************)

\* The name is inserted in the scope of the file and in that of the function.
DeclareFunction(name, ret, scopeType) ==
  LET ident == Function(ret, Len(unit.funcs) + 1)
  IN  /\ scopes' = Insert(NewScope(Insert(scopes, name, ident), scopeType), name, ident)
      /\ unit' = [unit EXCEPT !.funcs = Append(@, FunctionDecl(name, ret, << >>, << >>, << >>))]

FunctionRest == << Token("LPARENT"), Call("ParseFunctionParamList"), Token("RPARENT"),
                   Token("LBRACE"), Call("ParseCompoundStmt"), Token("RBRACE"), Call("EndFunction") >>

\* The front is void; without a name, a null pointer is added to the unit.
ParseVoidFunctionDecl ==
  /\ Runs("ParseVoidFunctionDecl")
  /\ \/ /\ Type(1) = "IDENFR"
        /\ DeclareFunction(Name(1), "void", "S_VOID_FUNC")
        /\ Move(2, FunctionRest, vals, None)
     \/ /\ Type(1) # "IDENFR"
        /\ unit' = [unit EXCEPT !.funcs = Append(@, Nil)]
        /\ Move(1, << >>, vals, None)
        /\ UNCHANGED scopes

\* The front is int or char.
ParseNonvoidFunctionDecl ==
  /\ Runs("ParseNonvoidFunctionDecl")
  /\ \/ Type(1) # "IDENFR" /\ Crash
     \/ /\ Type(1) = "IDENFR"
        /\ DeclareFunction(Name(1), TypeOf(FrontType),
                           IF FrontType = "CHARTK" THEN "S_CHAR_FUNC" ELSE "S_INT_FUNC")
        /\ Move(2, FunctionRest, vals, None)

\* Mutation: m_curscope stays that of the function.
EndFunctionInside ==
  /\ Runs("EndFunction")
  /\ Move(0, << >>, vals,
          IF Last(scopes).type # "S_VOID_FUNC" /\ ~ Last(scopes).ret THEN Report("h", pos) ELSE None)
  /\ UNCHANGED << scopes, unit >>

EndFunction ==
  /\ Runs("EndFunction")
  /\ scopes' = SubSeq(scopes, 1, Len(scopes) - 1)
  /\ Move(0, << >>, vals,
          IF Last(scopes).type # "S_VOID_FUNC" /\ ~ Last(scopes).ret THEN Report("h", pos) ELSE None)
  /\ UNCHANGED unit

AddParam(name, t) ==
  /\ scopes' = Insert(scopes, name, Object(t, FALSE))
  /\ unit' = [unit EXCEPT !.funcs[Len(unit.funcs)].params = Append(@, Typed(Var(name), t))]

\* A parameter without a type has a null type, which ParmVarDecl dereferences.
ParseFunctionParamList ==
  /\ Runs("ParseFunctionParamList")
  /\ LET k == IF FrontType \in TypeTokens THEN 1 ELSE 0
     IN  \/ FrontType = "RPARENT" /\ Step(0, << >>, vals, None)
         \/ /\ FrontType # "RPARENT" /\ Type(k) # "IDENFR"
            /\ Step(k, << Call("MoreParams") >>, vals, None)
         \/ k = 0 /\ FrontType = "IDENFR" /\ Crash
         \/ /\ k = 1 /\ Type(1) = "IDENFR"
            /\ AddParam(Name(1), TypeOf(FrontType))
            /\ Move(2, << Call("MoreParams") >>, vals, Redefined(Name(1), pos + 2))

MoreParams ==
  /\ Runs("MoreParams")
  /\ \/ FrontType # "COMMA" /\ Step(0, << >>, vals, None)
     \/ FrontType = "COMMA" /\ Step(1, << Call("ParseFunctionParamList") >>, vals, None)

\* Without the word main there is no identifier, and SetDecl is called on null.
ParseMain ==
  /\ Runs("ParseMain")
  /\ LET k == IF FrontType = "VOIDTK" THEN 1 ELSE 0
         ident == Function("void", Len(unit.funcs) + 1)
     IN  \/ Type(k) # "MAINTK" /\ Crash
         \/ /\ Type(k) = "MAINTK"
            /\ scopes' = NewScope(Insert(scopes, Name(k), ident), "S_VOID_FUNC")
            /\ unit' = [unit EXCEPT !.funcs =
                          Append(@, FunctionDecl("main", "void", << >>, << >>, << >>))]
            /\ Move(k + 1, << Token("LPARENT"), Token("RPARENT"), Token("LBRACE"),
                              Call("ParseCompoundStmt"), Token("RBRACE"), Call("EndFunction") >>,
                    vals, None)

\* [const] [var] {function} main
ParseTranslationUnitDecl ==
  /\ Runs("ParseTranslationUnitDecl")
  /\ Step(0, (IF FrontType = "CONSTTK" THEN << Call("ParseConstVarDecl") >> ELSE << >>)
             \o << Call("UnitVars"), Call("UnitFunctions") >>, vals, None)

UnitVars ==
  /\ Runs("UnitVars")
  /\ LET named == FrontType \in TypeTokens /\ Type(1) = "IDENFR"
     IN  Step(0, CASE named /\ Type(2) \in {"SEMICN", "COMMA", "LBRACK"} -> << Call("ParseVarDecl") >>
                   [] named /\ Type(2) = "LPARENT" -> << Call("ParseNonvoidFunctionDecl") >>
                   [] OTHER -> << >>, vals, None)

UnitFunctions ==
  /\ Runs("UnitFunctions")
  /\ Step(0, CASE FrontType = "VOIDTK" /\ Type(1) # "MAINTK" ->
                    << Call("ParseVoidFunctionDecl"), Call("UnitFunctions") >>
               [] FrontType \in TypeTokens ->
                    << Call("ParseNonvoidFunctionDecl"), Call("UnitFunctions") >>
               [] OTHER -> << Call("ParseMain") >>, vals, None)

\* [const] [var] statements.  When no semicolon follows the first variable and
\* another declaration does, that one is parsed and the first is dropped.
ParseCompoundStmt ==
  /\ Runs("ParseCompoundStmt")
  /\ Step(0, (IF FrontType = "CONSTTK" THEN << Call("ParseConstVarDecl") >> ELSE << >>)
             \o << Call("LocalVars"), Call("ParseStmtList"), Call("SetBody") >>, vals, None)

LocalVars ==
  /\ Runs("LocalVars")
  /\ LET named == FrontType \in TypeTokens /\ Type(1) = "IDENFR"
         decl  == << Call("ParseVarDecl") >>
     IN  \/ ~ named /\ Step(0, << >>, vals, None)
         \/ named /\ Type(2) \in {"SEMICN", "COMMA", "LBRACK"} /\ Step(0, decl, vals, None)
         \/ named /\ Type(2) \in TypeTokens /\ Step(2, decl, vals, Missing(2, "SEMICN"))
         \/ /\ named /\ Type(2) \notin TypeTokens \union {"SEMICN", "COMMA", "LBRACK"}
            /\ Step(0, << >>, vals, Missing(2, "SEMICN"))

SetBody ==
  /\ Runs("SetBody")
  /\ unit' = [unit EXCEPT !.funcs[Len(unit.funcs)].body = Result(1).list]
  /\ Move(0, << >>, Drop(1), None)
  /\ UNCHANGED scopes

(***************************************************************************)
(* Statements                                                              *)
(***************************************************************************)

StmtFirst == {"IFTK", "WHILETK", "DOTK", "FORTK", "LBRACE", "IDENFR", "PRINTFTK", "SCANFTK",
              "RETURNTK", "SEMICN"}

ParseStmtList ==
  /\ Runs("ParseStmtList")
  /\ Step(0, << Call("MoreStmts") >>, Push(List(<< >>)), None)

\* A token that is no first one of a statement is looked at again and again.
MoreStmts ==
  /\ Runs("MoreStmts")
  /\ \/ FrontType = "RBRACE" /\ Step(0, << >>, vals, None)
     \/ FrontType \in StmtFirst
        /\ Step(0, << Call("ParseStmt"), Call("AddStmt"), Call("MoreStmts") >>, vals, None)
     \/ FrontType \notin StmtFirst \union {"RBRACE"} /\ UNCHANGED vars

\* Mutation: a null pointer is put in the list.
AddStmtNull ==
  /\ Runs("AddStmt")
  /\ Step(0, << >>, Reduce(2, List(Append(Result(2).list, Result(1)))), None)

AddStmt ==
  /\ Runs("AddStmt")
  /\ Step(0, << >>, IF Result(1) = Nil THEN Drop(1)
                    ELSE Reduce(2, List(Append(Result(2).list, Result(1)))), None)

\* The name before a "(" is popped with it; the arguments come on a list.
CallItems(name, ident, isStmt) ==
  << With("ParseValueParamList", ident.fn), Token("RPARENT"),
     With("MakeCall", [name |-> name, type |-> ident.type, isStmt |-> isStmt]) >>

\* Where a name begins a statement, what follows it decides.  A name that
\* nothing fits to stays where it is.
ParseNamedStmt ==
  LET ident == Find(scopes, Name(0))
      found == ident # NullIdent
      next  == Type(1)
  IN  \/ ~ found /\ Step(0, << ToSemicolon >>, Push(Nil), Report("c", pos + 1))
      \/ /\ found /\ next \in {"ASSIGN", "LBRACK"}
         /\ Step(0, << Call("ParseAssignStmt"), Token("SEMICN") >>, vals, None)
      \/ found /\ next = "LPARENT" /\ ident.kind # "function" /\ Crash
      \/ /\ found /\ next = "LPARENT" /\ ident.kind = "function"
         /\ Step(2, CallItems(Name(0), ident, TRUE) \o << Token("SEMICN") >>, Push(List(<< >>)), None)
      \/ found /\ next \notin {"ASSIGN", "LBRACK", "LPARENT"} /\ Step(0, << >>, Push(Nil), None)

ParseStmt ==
  /\ Runs("ParseStmt")
  /\ LET begin(items) == Step(0, items, vals, None)
     IN  \/ FrontType = "IFTK" /\ begin(<< Call("ParseIfStmt") >>)
         \/ FrontType = "WHILETK" /\ begin(<< Call("ParseWhileStmt") >>)
         \/ FrontType = "DOTK" /\ begin(<< Call("ParseDoStmt") >>)
         \/ FrontType = "FORTK" /\ begin(<< Call("ParseForStmt") >>)
         \/ FrontType = "PRINTFTK" /\ begin(<< Call("ParsePrintStmt"), Token("SEMICN") >>)
         \/ FrontType = "SCANFTK" /\ begin(<< Call("ParseScanfStmt"), Token("SEMICN") >>)
         \/ FrontType = "RETURNTK" /\ begin(<< Call("ParseReturnStmt"), Token("SEMICN") >>)
         \/ /\ FrontType = "LBRACE"
            /\ Step(1, << Call("ParseStmtList"), With("Build", "compound"), Token("RBRACE") >>,
                    vals, None)
         \/ FrontType = "SEMICN" /\ Step(1, << >>, Push(NullStmt), None)
         \/ FrontType = "IDENFR" /\ ParseNamedStmt
         \/ FrontType \notin StmtFirst /\ Step(0, << >>, Push(Nil), None)

\* The node of a statement whose parts are the results of the last calls.
Build ==
  /\ Runs("Build")
  /\ LET c == Result(2)  s == Result(1)
         nameOf(k) == IF Result(k) = Nil THEN "" ELSE Result(k).tree.name
     IN  Step(0, << >>,
           CASE Arg = "compound" -> Reduce(1, CompoundStmt(s.list))
             [] Arg = "scanf"    -> Reduce(1, ScanfStmt(s.list))
             [] Arg = "if"       -> Reduce(2, IfStmt(c, s))
             [] Arg = "else"     -> Reduce(3, IF s = Nil THEN IfStmt(Result(3), c)
                                              ELSE IfElse(Result(3), c, s))
             [] Arg = "while"    -> Reduce(2, WhileStmt(c, s))
             [] Arg = "do"       -> Reduce(2, DoStmt(c, s))
             [] Arg = "for"      -> Reduce(7, ForStmt(nameOf(7), Result(6).tree, Result(5),
                                                      nameOf(4), nameOf(3), c.tree.val, s)),
           None)

ParseIfStmt ==
  /\ Runs("ParseIfStmt")
  /\ Step(0, << Token("IFTK"), Token("LPARENT"), Call("ParseCondition"), Token("RPARENT"),
                Call("ParseStmt"), Call("ElsePart") >>, vals, None)

ElsePart ==
  /\ Runs("ElsePart")
  /\ \/ FrontType = "ELSETK" /\ Step(1, << Call("ParseStmt"), With("Build", "else") >>, vals, None)
     \/ FrontType # "ELSETK" /\ Step(0, << With("Build", "if") >>, vals, None)

ParseWhileStmt ==
  /\ Runs("ParseWhileStmt")
  /\ Step(0, << Token("WHILETK"), Token("LPARENT"), Call("ParseCondition"), Token("RPARENT"),
                Call("ParseStmt"), With("Build", "while") >>, vals, None)

ParseDoStmt ==
  /\ Runs("ParseDoStmt")
  /\ Step(0, << Token("DOTK"), Call("ParseStmt"), Token("WHILETK"), Call("DoLeft"),
                Call("DoCondition"), Call("DoRight"), With("Build", "do") >>, vals, None)

\* Here a parenthesis may be missing unseen, before the condition and after it.
DoLeft ==
  /\ Runs("DoLeft")
  /\ Step(IF FrontType = "LPARENT" THEN 1 ELSE 0, << >>, vals, None)

DoCondition ==
  /\ Runs("DoCondition")
  /\ IF FrontType \in PlusMinus \union {"IDENFR", "INTCON", "CHARCON", "LPARENT"}
     THEN Step(0, << Call("ParseCondition"), Call("DoNoCondition") >>, vals, None)
     ELSE Step(0, << >>, Push(Nil), None)

DoNoCondition ==
  /\ Runs("DoNoCondition")
  /\ Step(IF Result(1) = Nil /\ FrontType = "RPARENT" THEN 1 ELSE 0, << >>, vals, None)

DoRight ==
  /\ Runs("DoRight")
  /\ Step(IF FrontType = "RPARENT" THEN 1 ELSE 0, << >>, vals, None)

ParseForStmt ==
  /\ Runs("ParseForStmt")
  /\ Step(0, << Token("FORTK"), Token("LPARENT"), With("ForName", "assigned"), Token("ASSIGN"),
                Call("ParseExpr"), Token("SEMICN"), Call("ParseCondition"), Token("SEMICN"),
                With("ForName", "assigned"), Token("ASSIGN"), With("ForName", "read"),
                Call("ForStep"), Token("RPARENT"), Call("ParseStmt"), With("Build", "for") >>,
          vals, None)

ForName ==
  /\ Runs("ForName")
  /\ LET ident == Find(scopes, Name(0))
     IN  \/ FrontType # "IDENFR" /\ Step(0, << >>, Push(Nil), None)
         \/ FrontType = "IDENFR" /\ ident = NullIdent /\ Step(1, << >>, Push(Nil), Report("c", pos + 1))
         \/ /\ FrontType = "IDENFR" /\ ident # NullIdent
            /\ Step(1, << >>, Push(Expr(Identifier(Name(0)), ident.type)),
                    IF Arg = "assigned" /\ ident.const THEN Report("j", pos + 1) ELSE None)

\* A missing sign is a plus.
ForStep ==
  /\ Runs("ForStep")
  /\ Step(IF FrontType \in PlusMinus THEN 1 ELSE 0,
          << Call("ParseUnsignedIntegerLiteral") >>
          \o (IF FrontType = "MINU" THEN << Call("Negate") >> ELSE << >>), vals, None)

Negate ==
  /\ Runs("Negate")
  /\ Step(0, << >>, Reduce(1, Expr(IntegerLiteral(- Result(1).tree.val), "int")), None)

ParsePrintStmt ==
  /\ Runs("ParsePrintStmt")
  /\ Step(0, << Token("PRINTFTK"), Token("LPARENT"), Call("PrintArgs") >>, vals, None)

PrintArgs ==
  /\ Runs("PrintArgs")
  /\ LET rest(s) == << Token("RPARENT"), With("MakePrint", s) >>
     IN  \/ FrontType # "STRCON" /\ Step(0, << Call("ParseExpr") >> \o rest(NoStr), vals, None)
         \/ /\ FrontType = "STRCON" /\ Type(1) = "COMMA"
            /\ Step(2, << Call("ParseExpr") >> \o rest(Name(0)), vals, None)
         \/ /\ FrontType = "STRCON" /\ Type(1) # "COMMA"
            /\ Step(1, rest(Name(0)), Push(Nil), None)

\* With nothing to print the null result stays, after a message on stderr.
MakePrint ==
  /\ Runs("MakePrint")
  /\ IF Arg = NoStr /\ Result(1) = Nil
     THEN Step(0, << ToSemicolon >>, vals, None)
     ELSE Step(0, << >>, Reduce(1, PrintStmt(Arg, Result(1).tree)), None)

ParseScanfStmt ==
  /\ Runs("ParseScanfStmt")
  /\ Step(0, << Token("SCANFTK"), Call("NextScanned") >>, Push(List(<< >>)), None)

\* Mutation: the comma between two names is not popped.
NextScannedUnread ==
  /\ Runs("NextScanned")
  /\ Step(IF FrontType = "COMMA" THEN 0 ELSE 1, << Call("Scanned") >>, vals, None)

\* The parenthesis or comma, or, the first time, whatever stands for it.
NextScanned ==
  /\ Runs("NextScanned")
  /\ Step(1, << Call("Scanned") >>, vals, None)

\* A constant may be among the names.
Scanned ==
  /\ Runs("Scanned")
  /\ LET isName == FrontType = "IDENFR"
         n      == IF isName THEN 1 ELSE 0
         found  == isName /\ Find(scopes, Name(0)) # NullIdent
     IN  Step(n, IF Type(n) = "COMMA" THEN << Call("NextScanned") >>
                 ELSE << Token("RPARENT"), With("Build", "scanf") >>,
              IF found THEN Reduce(1, List(Append(Result(1).list, Name(0)))) ELSE vals,
              IF isName /\ ~ found THEN Report("c", pos + 1) ELSE None)

ParseReturnStmt ==
  /\ Runs("ParseReturnStmt")
  /\ Step(0, << Token("RETURNTK"), Call("ReturnValue") >>, vals, None)

InVoid == Last(scopes).type = "S_VOID_FUNC"

ReturnValue ==
  /\ Runs("ReturnValue")
  /\ \/ /\ FrontType = "LPARENT"
        /\ Step(1, << Call("ParseExpr"), Call("MakeReturn"), Token("RPARENT") >>, vals,
                IF InVoid THEN Report("g", pos + 1) ELSE None)
     \/ /\ FrontType = "SEMICN"
        /\ Step(0, << >>, Push(ReturnStmt(NoExpr)), IF InVoid THEN None ELSE Report("h", pos + 1))
     \/ FrontType \notin {"LPARENT", "SEMICN"} /\ Step(0, << >>, Push(Nil), None)

MakeReturn ==
  /\ Runs("MakeReturn")
  /\ LET x     == Result(1)
         right == IF Last(scopes).type = "S_INT_FUNC" THEN IsInt(x) ELSE IsChar(x)
         move(errs) == Move(0, << >>, Reduce(1, ReturnStmt(x.tree)), errs) /\ UNCHANGED unit
     IN  \/ ~ InVoid /\ x = Nil /\ Crash
         \/ InVoid /\ move(None) /\ UNCHANGED scopes
         \/ ~ InVoid /\ x # Nil /\ right /\ move(None) /\ scopes' = SetRetFlag(scopes)
         \/ ~ InVoid /\ x # Nil /\ ~ right /\ move(Report("h", pos)) /\ UNCHANGED scopes

\* The name is known, ParseStmt has looked it up.
ParseAssignStmt ==
  /\ Runs("ParseAssignStmt")
  /\ LET ident == Find(scopes, Name(0))
         errs  == IF ident.const THEN Report("j", pos + 1) ELSE None
         elem  == [name |-> Name(0), type |-> ElemType(ident)]
     IN  \/ /\ Type(1) = "LBRACK"
            /\ Step(2, << Call("ParseExpr"), With("Element", elem), Call("AssignRest") >>, vals, errs)
         \/ /\ Type(1) # "LBRACK"
            /\ Step(1, << Call("AssignRest") >>, Push(Expr(Identifier(Name(0)), ident.type)), errs)

AssignRest ==
  /\ Runs("AssignRest")
  /\ LET has == FrontType = "ASSIGN"
     IN  Step(IF has THEN 1 ELSE 0, << Call("ParseExpr"), With("MakeAssign", has) >>, vals, None)

\* The node is made of the token of the "=".
MakeAssign ==
  /\ Runs("MakeAssign")
  /\ LET l == Result(2)  r == Result(1)
     IN  \/ r = Nil /\ Step(0, << ToSemicolon >>, Reduce(2, Nil), None)
         \/ r # Nil /\ ~ Arg /\ Crash
         \/ r # Nil /\ Arg /\ Step(0, << >>, Reduce(2, Assign(l.tree, r.tree)), None)

(***************************************************************************)
(* Expressions and conditions                                              *)
(***************************************************************************)

CondFollow == {"SEMICN", "RPARENT"}

ParseCondition ==
  /\ Runs("ParseCondition")
  /\ Step(0, << Call("ParseExpr"), Call("CondOperator") >>, vals, None)

CondOperator ==
  /\ Runs("CondOperator")
  /\ LET l == Result(1)
         errs == IF IsInt(l) THEN None ELSE Report("f", pos)
         op == [op |-> Symbol(FrontType), at |-> pos + 1]
     IN  \/ l = Nil /\ Step(0, << Skip(CondFollow) >>, vals, None)
         \/ /\ l # Nil /\ FrontType \in CmpOps
            /\ Step(1, << Call("ParseExpr"), With("MakeCondition", op) >>, vals, errs)
         \/ /\ l # Nil /\ FrontType \notin CmpOps
            /\ Step(0, << Skip(CondFollow) >>, Reduce(1, Nonzero(l.tree)), errs)

MakeCondition ==
  /\ Runs("MakeCondition")
  /\ LET l == Result(2)  r == Result(1)
     IN  \/ r = Nil /\ Step(0, << Skip(CondFollow) >>, Reduce(2, Nil), None)
         \/ r # Nil /\ Step(0, << >>, Reduce(2, Condition(Arg.op, l.tree, r.tree)),
                            IF IsInt(r) THEN None ELSE Report("f", Arg.at))

\* [+|-] term { (+|-) term }
ParseExpr ==
  /\ Runs("ParseExpr")
  /\ \/ /\ FrontType \in PlusMinus
        /\ Step(1, << Call("ParseTerm"), With("MakeUnary", Symbol(FrontType)), Call("MoreTerms") >>,
                vals, None)
     \/ /\ FrontType \notin PlusMinus
        /\ Step(0, << Call("ParseTerm"), Call("MoreTerms") >>, vals, None)

MakeUnary ==
  /\ Runs("MakeUnary")
  /\ LET x == Result(1)
     IN  \/ x = Nil /\ Crash
         \/ x # Nil /\ Step(0, << >>, Reduce(1, Expr(UnaryOp(Arg, x.tree), x.type)), None)

\* Mutation: the right operand is all of the expression that is left.
MoreTermsFromTheRight ==
  /\ Runs("MoreTerms")
  /\ \/ FrontType \notin PlusMinus /\ Step(0, << >>, vals, None)
     \/ /\ FrontType \in PlusMinus
        /\ Step(1, << Call("ParseExpr"), With("AddTerm", Symbol(FrontType)) >>, vals, None)

MoreTerms ==
  /\ Runs("MoreTerms")
  /\ \/ FrontType \notin PlusMinus /\ Step(0, << >>, vals, None)
     \/ /\ FrontType \in PlusMinus
        /\ Step(1, << Call("ParseTerm"), With("AddTerm", Symbol(FrontType)) >>, vals, None)

AddTerm ==
  /\ Runs("AddTerm")
  /\ LET l == Result(2)  r == Result(1)
     IN  \/ (l = Nil \/ r = Nil) /\ Step(0, << >>, Reduce(2, Nil), None)
         \/ /\ l # Nil /\ r # Nil
            /\ Step(0, << Call("MoreTerms") >>,
                    Reduce(2, Expr(BinaryOp(Arg, l.tree, r.tree), "int")), None)

\* factor { (*|/) factor }
ParseTerm ==
  /\ Runs("ParseTerm")
  /\ Step(0, << Call("ParseFactor"), Call("MoreFactors") >>, vals, None)

MoreFactors ==
  /\ Runs("MoreFactors")
  /\ \/ FrontType \notin MultDiv /\ Step(0, << >>, vals, None)
     \/ /\ FrontType \in MultDiv
        /\ Step(1, << Call("ParseFactor"), With("MulFactor", Symbol(FrontType)), Call("MoreFactors") >>,
                vals, None)

\* A missing factor becomes a null child; constants are folded here.
MulFactor ==
  /\ Runs("MulFactor")
  /\ LET l == Result(2).tree  r == Result(1).tree
         byZero == Arg = "/" /\ IsConst(l) /\ IsConst(r) /\ ConstVal(r) = 0
     IN  \/ byZero /\ Crash
         \/ ~ byZero /\ Step(0, << >>, Reduce(2, Expr(BinaryOp(Arg, l, r), "int")), None)

ParseFactor ==
  /\ Runs("ParseFactor")
  /\ LET ident  == Find(scopes, Name(0))
         isName == FrontType = "IDENFR" /\ Type(1) # "LPARENT"
         isCall == FrontType = "IDENFR" /\ Type(1) = "LPARENT"
         elem   == [name |-> Name(0), type |-> ElemType(ident)]
     IN  \/ /\ FrontType \in PlusMinus \union {"INTCON"}
            /\ Step(0, << Call("ParseIntegerLiteral") >>, vals, None)
         \/ FrontType = "CHARCON" /\ Step(1, << >>, Push(Expr(CharLiteral(Name(0)), "char")), None)
         \/ FrontType = "LPARENT" /\ Step(1, << Call("ParseExpr"), Token("RPARENT") >>, vals, None)
         \/ (isName \/ isCall) /\ ident = NullIdent /\ Step(1, << >>, Push(Nil), Report("c", pos + 1))
         \/ isCall /\ ident # NullIdent /\ ident.kind # "function" /\ Crash
         \/ /\ isCall /\ ident # NullIdent /\ ident.kind = "function"
            /\ Step(2, CallItems(Name(0), ident, FALSE), Push(List(<< >>)), None)
         \/ /\ isName /\ ident # NullIdent /\ Type(1) # "LBRACK"
            /\ Step(1, << >>, Push(Expr(Identifier(Name(0)), ident.type)), None)
         \/ /\ isName /\ ident # NullIdent /\ Type(1) = "LBRACK"
            /\ Step(2, << Call("ParseExpr"), With("Element", elem) >>, vals, None)
         \/ /\ FrontType \notin PlusMinus \union {"INTCON", "CHARCON", "LPARENT", "IDENFR"}
            /\ Step(0, << >>, Push(Nil), None)

\* Mutation: the type of a subscript is not looked at.
ElementUnchecked ==
  /\ Runs("Element")
  /\ LET index == Result(1)
     IN  \/ index = Nil /\ Crash
         \/ /\ index # Nil
            /\ Step(0, << Token("RBRACK") >>,
                    Reduce(1, Expr(ArraySubscript(Arg.name, index.tree), Arg.type)), None)

Element ==
  /\ Runs("Element")
  /\ LET index == Result(1)
     IN  \/ index = Nil /\ Crash
         \/ /\ index # Nil
            /\ Step(0, << Token("RBRACK") >>,
                    Reduce(1, Expr(ArraySubscript(Arg.name, index.tree), Arg.type)),
                    IF IsInt(index) THEN None ELSE Report("i", pos))

ParseIntegerLiteral ==
  /\ Runs("ParseIntegerLiteral")
  /\ Step(IF FrontType \in PlusMinus THEN 1 ELSE 0,
          << Call("ParseUnsignedIntegerLiteral") >>
          \o (IF FrontType = "MINU" THEN << Call("Negate") >> ELSE << >>), vals, None)

\* stoi of a token that is missing, or of a number beyond int.
ParseUnsignedIntegerLiteral ==
  /\ Runs("ParseUnsignedIntegerLiteral")
  /\ LET form == source[pos + 1].form
     IN  \/ (FrontType # "INTCON" \/ form = "huge") /\ Crash
         \/ /\ FrontType = "INTCON" /\ form # "huge"
            /\ Step(1, << >>, Push(Expr(IntegerLiteral(Name(0)), "int")),
                    IF form = "zero" THEN Report("a", pos + 1) ELSE None)

(***************************************************************************)
(* Calls.  Arg is the function's place in the unit.                        *)
(***************************************************************************)

\* Without an argument, the parameters are not looked at.
ParseValueParamList ==
  /\ Runs("ParseValueParamList")
  /\ \/ FrontType = "RPARENT" /\ Step(0, << >>, vals, None)
     \/ FrontType # "RPARENT" /\ Step(0, << Call("ParseExpr"), With("AddArg", Arg) >>, vals, None)

\* The report of a wrong type shows the token of the argument, if there is one.
AddArg ==
  /\ Runs("AddArg")
  /\ LET x      == Result(1)
         args   == Append(Result(2).list, x.tree)
         params == unit.funcs[Arg].params
         i      == Len(args)
         fits   == i \in DOMAIN params => IF params[i].ch THEN IsChar(x) ELSE IsInt(x)
         more   == FrontType = "COMMA"
         when(c, no) == IF c THEN Report(no, pos) ELSE None
     IN  \/ x = Nil /\ Step(0, << Skip({"RPARENT"}) >>, Drop(1), None)
         \/ x # Nil /\ ~ fits /\ ~ HasToken(x) /\ Crash
         \/ /\ x # Nil /\ (fits \/ HasToken(x))
            /\ Step(IF more THEN 1 ELSE 0,
                    IF more THEN << Call("ParseExpr"), With("AddArg", Arg) >> ELSE << >>,
                    Reduce(2, List(args)),
                    when(~ fits, "e") \o when(i > Len(params) \/ (~ more /\ i < Len(params)), "d"))

\* A call of a void function is an expression too.
MakeCall ==
  /\ Runs("MakeCall")
  /\ LET args == Result(1).list
     IN  Step(0, << >>, Reduce(1, IF Arg.isStmt THEN CallStmt(Arg.name, args)
                                  ELSE Expr(CallExpr(Arg.name, args), Arg.type)), None)

(***************************************************************************)
(* The specification                                                       *)
(***************************************************************************)

\* Analyse(), and the constructor of Parser before it.
Init ==
  /\ \E texts \in {Texts} : prog \in DOMAIN texts /\ source = texts[prog]
  /\ pos = 0
  /\ ctl = << Call("ParseTranslationUnitDecl") >>
  /\ vals = << >>
  /\ scopes = NewScope(<< >>, "S_FILE")
  /\ unit = TranslationUnit(<< >>, << >>)
  /\ errors = << >>
  /\ status = "run"

Finish ==
  /\ status = "run" /\ ctl = << >>
  /\ status' = "done"
  /\ UNCHANGED << prog, source, pos, ctl, vals, scopes, unit, errors >>

Declaring ==
  \/ ParseTranslationUnitDecl \/ UnitVars \/ UnitFunctions
  \/ ParseConstVarDecl \/ MoreConsts \/ ParseConstVarDef
  \/ ParseConstCharDef \/ ConstCharValue \/ ParseConstIntDef \/ ConstIntValue \/ AddIntConst
  \/ ParseVarDecl \/ MoreVars \/ ParseVarDef \/ AddVar
  \/ ParseVoidFunctionDecl \/ ParseNonvoidFunctionDecl \/ ParseMain \/ EndFunction
  \/ ParseFunctionParamList \/ MoreParams \/ ParseCompoundStmt \/ LocalVars \/ SetBody

Stating ==
  \/ ParseStmtList \/ MoreStmts \/ AddStmt \/ ParseStmt \/ Build
  \/ ParseIfStmt \/ ElsePart \/ ParseWhileStmt
  \/ ParseDoStmt \/ DoLeft \/ DoCondition \/ DoNoCondition \/ DoRight
  \/ ParseForStmt \/ ForName \/ ForStep
  \/ ParsePrintStmt \/ PrintArgs \/ MakePrint \/ ParseScanfStmt \/ NextScanned \/ Scanned
  \/ ParseReturnStmt \/ ReturnValue \/ MakeReturn \/ ParseAssignStmt \/ AssignRest \/ MakeAssign

Expressing ==
  \/ ParseCondition \/ CondOperator \/ MakeCondition
  \/ ParseExpr \/ MakeUnary \/ MoreTerms \/ AddTerm \/ ParseTerm \/ MoreFactors \/ MulFactor
  \/ ParseFactor \/ Element \/ ParseIntegerLiteral \/ ParseUnsignedIntegerLiteral \/ Negate
  \/ ParseValueParamList \/ AddArg \/ MakeCall

Stopped == status # "run" /\ UNCHANGED vars

Next ==
  \/ AssertFront \/ FlushTo \/ Declaring \/ Stating \/ Expressing \/ Finish \/ ReadBeyond \/ Stopped

\* The compiler is a single thread that goes on.
Spec == Init /\ [][Next]_vars /\ WF_vars(Next)
=============================================================================
