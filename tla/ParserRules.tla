---------------------------- MODULE ParserRules ----------------------------
(***************************************************************************)
(* What Parser promises to the stages after it, which run when no error    *)
(* was reported: a tree that keeps the rules of C0, whose names are in the *)
(* scopes they were found in, and which says all that the text says.       *)
(***************************************************************************)
EXTENDS Parser, C0Text, C0Rules

Accepted == status = "done" /\ errors = << >>
Translated == Accepted /\ IsComplete(unit)

Everywhere(Rule(_, _)) == \A k \in DOMAIN unit.funcs : Rule(unit, k)

(***************************************************************************)
(* Types: the cursor is in the text, each report has a token of the text   *)
(* (prev() is never null), and there is a scope for the function that is   *)
(* being parsed and for no other.                                          *)
(***************************************************************************)

InFunction == \E i \in DOMAIN ctl : ctl[i].do = "EndFunction"

TypeOK ==
  /\ prog \in Nat
  /\ pos \in 0 .. Len(source)
  /\ status \in {"run", "done", "crash", "undefined"}
  /\ \A i \in DOMAIN errors : errors[i].at \in 1 .. Len(source)
  /\ Len(scopes) = IF InFunction THEN 2 ELSE 1

(***************************************************************************)
(* While statements are parsed, the names in m_curscope and its parent are *)
(* those of the declarations that the tree has: code generation lays out   *)
(* and looks up the latter.                                                *)
(***************************************************************************)

Declares(ds, n, ident) ==
  \E i \in DOMAIN ds :
    /\ ds[i].name = n
    /\ ds[i].const = ident.const
    /\ OfChar(ds[i].ch) = ident.type

HoldsOnly(map, ds) ==
  \A n \in DOMAIN map :
    LET ident == map[n]
    IN  IF ident.kind = "function"
        THEN /\ ident.fn \in DOMAIN unit.funcs
             /\ unit.funcs[ident.fn].name = n /\ unit.funcs[ident.fn].ret = ident.type
        ELSE Declares(ds, n, ident)

ScopesHoldTheUnit ==
  Runs("ParseStmt") /\ errors = << >> =>
    LET own == Own(Last(unit.funcs))
    IN  /\ HoldsOnly(scopes[1].map, unit.vars) /\ HoldsOnly(scopes[2].map, own)
        /\ Names(own) \subseteq DOMAIN scopes[2].map


(***************************************************************************)
(* The rules that are kept by every tree without an error                  *)
(***************************************************************************)

\* Kinds b, c, e, f, g, h, i and j of error.cpp, and too many arguments of kind d:
\* no tree that breaks one of these rules gets by without a report.
AcceptedFollowsTheRules ==
  Translated =>
    /\ DistinctNames(unit.vars) /\ \A k \in DOMAIN unit.funcs : DistinctNames(Own(unit.funcs[k]))
    /\ Everywhere(NamesAreDeclared) /\ Everywhere(NotTooMany) /\ Everywhere(TypesMatch)
    /\ Everywhere(ConditionsAreInts) /\ Everywhere(ReturnsMatch)
    /\ Everywhere(SubscriptsAreInts) /\ Everywhere(ConstantsAreKept)

(***************************************************************************)
(* Promises of the comments that are not kept                              *)
(***************************************************************************)

\* error.cpp, d: the arguments of a call are as many as the parameters.
ArgumentsAreCounted == Translated => Everywhere(CountsMatch)

\* error.cpp, j: no statement changes a constant, scanf included.
ConstantsAreNotScanned == Translated => Everywhere(ConstantsAreNotRead)

\* The assertion in ParseNonvoidFunctionCall: a call in an expression has a value.
ValuesAreNotVoid == Translated => Everywhere(CallsHaveValues)

\* error.cpp, b: functions differ in their names.
FunctionsAreDistinct == Translated => DistinctNames(unit.funcs)

\* The @Grammar comments: a text without an error is one that the productions derive
\* (the text of its tree, in texts that have no parentheses to spare).
AcceptedTextsAreSentences == Accepted => IsComplete(unit) /\ UnitText(unit) = source

\* A text that breaks all of these rules at once gets a report for one of them at least.
FaultsAreReported ==
  \/ ArgumentsAreCounted \/ ConstantsAreNotScanned \/ ValuesAreNotVoid
  \/ FunctionsAreDistinct \/ AcceptedTextsAreSentences

\* error.cpp, e: an argument of the wrong type is reported and does not end the compiler.
ArgumentsAreReported ==
  status = "crash" => ~ (ctl # << >> /\ Head(ctl).do = "AddArg")

\* The comment of ParseStmtList: a statement list ends, before a closing brace.
StatementListsEnd == Runs("MoreStmts") ~> ~ Runs("MoreStmts")

\* The parser comes to an end.
Finishes == <>(status # "run")
=============================================================================
