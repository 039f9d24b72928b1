---------------------------- MODULE QuadMachine ----------------------------
(***************************************************************************)
(* What the quadruples of QuadGen mean, without registers, a stack pointer *)
(* or offsets: the promise that the generated MIPS code has to keep.       *)
(*                                                                         *)
(* A program runs as a stack of activations, the last one on top.  Each    *)
(* has its own variables and temporaries, by name and by number, and the   *)
(* arguments it has pushed for its next call.  A behaviour runs one of the  *)
(* compiled units in Units.                                                *)
(***************************************************************************)
EXTENDS QuadGen, SequencesExt

CONSTANTS Units,        \* a sequence of compiled units
          Inputs,       \* the values that scanf may read
          Undef         \* what a word holds before anything is stored in it

VARIABLES prog,         \* the program that runs, an index of Table
          funcs,        \* its functions
          stack,        \* the activations
          glob,         \* the words of each global
          retval,       \* the result of a function that is returning it
          back,         \* a call has come back, its result is not yet stored
          out,          \* what has been printed
          read,         \* what has been read
          halted

vars == << prog, funcs, stack, glob, retval, back, out, read, halted >>

Item(k, v) == [kind |-> k, val |-> v]

\* A definition, unlike a constant given by one, is evaluated once by TLC.
Table == Units

\* FuncInfo of function n of the running program.
Function(n) == FuncInfo(funcs, n)

Activation(fn, args) ==
  LET fi == Function(fn)
      ps == [i \in 1 .. fi.params |-> fi.quads[i].dst.name]
  IN  [fn |-> fn, pc |-> fi.params + 1, args |-> << >>,
       tmp |-> [i \in DOMAIN fi.temps |-> Undef],
       env |-> [n \in DOMAIN fi.vars |->
                  IF n \in Range(ps) THEN << args[CHOOSE i \in DOMAIN ps : ps[i] = n] >>
                  ELSE [i \in 1 .. fi.vars[n].num |-> Undef]]]

Init ==
  /\ prog \in DOMAIN Table
  /\ funcs = Table[prog].funcs
  /\ stack = << Activation("main", << >>) >>
  /\ glob = Table[prog].data
  /\ retval = Undef /\ back = FALSE
  /\ out = << >> /\ read = << >>
  /\ halted = FALSE

(***************************************************************************)
(* Operands                                                                *)
(***************************************************************************)

Me      == Last(stack)
AtEnd   == Me.pc > Len(Function(Me.fn).quads)
Current == Function(Me.fn).quads[Me.pc]
IsVoid(fn) == Function(fn).ret = "void"

RECURSIVE Value(_)
Value(qa) ==
  LET words == IF qa.glb THEN glob[qa.name] ELSE Me.env[qa.name]
      index == Value(qa.minion)
  IN  CASE qa.at = "literal" -> qa.val
        [] qa.at = "tmp"     -> Me.tmp[qa.id]
        [] qa.at = "ident"   -> words[1]
        [] qa.at = "array"   -> IF index \in 0 .. Len(words) - 1 THEN words[index + 1] ELSE Undef

\* What a division by zero gives is not defined.
Arith(op, a, b) ==
  IF Undef \in {a, b} \/ (op = "DIV" /\ b = 0) THEN Undef
  ELSE CASE op = "PLUS" -> a + b [] op = "MINU" -> a - b
         [] op = "MULT" -> a * b [] op = "DIV"  -> Quotient(a, b)

Jumps(op, a, b) ==
  CASE op = "BEQ" -> a = b  [] op = "BNE" -> a # b
    [] op = "BLT" -> a < b  [] op = "BGE" -> a >= b
    [] op = "BGT" -> a > b  [] op = "BLE" -> a <= b
    [] op = "BZ"  -> a = 0  [] op = "BNZ" -> a # 0

\* Whether a jump is taken; it may be when an operand is undefined.
Taken(op, a, b) == IF Undef \in {a, b} THEN BOOLEAN ELSE {Jumps(op, a, b)}

LabelAt(l) ==
  CHOOSE i \in DOMAIN Function(Me.fn).quads :
    LET q == Function(Me.fn).quads[i] IN q.op = "LABEL" /\ q.dst = l

(***************************************************************************)
(* Steps                                                                   *)
(***************************************************************************)

\* The activation on top becomes a.
Top(a) == stack' = Append(Front(stack), a)

\* v is stored in dst and the next quadruple is to be executed.
StoreAndGo(dst, v) ==
  LET me == [Me EXCEPT !.pc = @ + 1]
      i  == IF dst.at = "array" THEN Value(dst.minion) + 1 ELSE 1
  IN  /\ Top(CASE dst.at = "tmp" -> [me EXCEPT !.tmp[dst.id] = v]
               [] dst.at # "tmp" /\ ~dst.glb -> [me EXCEPT !.env[dst.name][i] = v]
               [] OTHER -> me)
      /\ glob' = IF dst.at # "tmp" /\ dst.glb THEN [glob EXCEPT ![dst.name][i] = v]
                 ELSE glob

Executing(ops) == ~halted /\ ~back /\ ~AtEnd /\ Current.op \in ops

Skip ==
  /\ Executing({"LABEL"})
  /\ Top([Me EXCEPT !.pc = @ + 1])
  /\ UNCHANGED << prog, funcs, glob, retval, back, out, read, halted >>

Copy ==
  /\ Executing({"ASSIGN"})
  /\ StoreAndGo(Current.dst, Value(Current.arg1))
  /\ UNCHANGED << prog, funcs, retval, back, out, read, halted >>

Calculate ==
  /\ Executing({"PLUS", "MINU", "MULT", "DIV"})
  /\ StoreAndGo(Current.dst, Arith(Current.op, Value(Current.arg1), Value(Current.arg2)))
  /\ UNCHANGED << prog, funcs, retval, back, out, read, halted >>

Goto ==
  /\ Executing({"GOTO"})
  /\ Top([Me EXCEPT !.pc = LabelAt(Current.dst)])
  /\ UNCHANGED << prog, funcs, glob, retval, back, out, read, halted >>

Jump ==
  /\ Executing(DOMAIN Opposite)
  /\ \E yes \in Taken(Current.op, Value(Current.arg1),
                      IF Current.arg2 = NullAddr THEN 0 ELSE Value(Current.arg2)) :
       Top([Me EXCEPT !.pc = IF yes THEN LabelAt(Current.dst) ELSE @ + 1])
  /\ UNCHANGED << prog, funcs, glob, retval, back, out, read, halted >>

\* A value is printed as the type of its operand says.
Printed(qa) ==
  IF qa.at # "str" THEN << Item(IF qa.ch THEN "char" ELSE "int", Value(qa)) >>
  ELSE (IF qa.val = NoStr THEN << >> ELSE << Item("str", qa.val) >>)
       \o (IF qa.nl THEN << Item("nl", 0) >> ELSE << >>)

Output ==
  /\ Executing({"PRINT"})
  /\ out' = out \o Printed(Current.dst)
  /\ Top([Me EXCEPT !.pc = @ + 1])
  /\ UNCHANGED << prog, funcs, glob, retval, back, read, halted >>

Input ==
  /\ Executing({"SCAN"})
  /\ \E v \in Inputs : read' = Append(read, v) /\ StoreAndGo(Current.dst, v)
  /\ UNCHANGED << prog, funcs, retval, back, out, halted >>

Push ==
  /\ Executing({"PUSH"})
  /\ Top([Me EXCEPT !.pc = @ + 1, !.args = Append(@, Value(Current.dst))])
  /\ UNCHANGED << prog, funcs, glob, retval, back, out, read, halted >>

CallFunction ==
  /\ Executing({"CALL"})
  /\ stack' = Front(stack) \o << [Me EXCEPT !.args = << >>],
                                 Activation(Current.arg1.name, Me.args) >>
  /\ UNCHANGED << prog, funcs, glob, retval, back, out, read, halted >>

Return ==
  /\ Executing({"RETURN"})
  /\ Me.fn # "main"
  /\ Top([Me EXCEPT !.pc = Len(Function(Me.fn).quads) + 1])
  /\ retval' = IF Current.dst = NullAddr THEN retval ELSE Value(Current.dst)
  /\ UNCHANGED << prog, funcs, glob, back, out, read, halted >>

\* The end of a function: its caller goes on, at once if there is no result.
Leave ==
  LET caller == stack[Len(stack) - 1]
      void   == IsVoid(Me.fn)
  IN  /\ ~halted /\ ~back /\ AtEnd
      /\ Me.fn # "main"
      /\ stack' = Append(SubSeq(stack, 1, Len(stack) - 2),
                         IF void THEN [caller EXCEPT !.pc = @ + 1] ELSE caller)
      /\ back' = ~void
      /\ UNCHANGED << prog, funcs, glob, retval, out, read, halted >>

Result ==
  /\ back
  /\ StoreAndGo(Current.dst, retval)
  /\ retval' = Undef
  /\ back' = FALSE
  /\ UNCHANGED << prog, funcs, out, read, halted >>

\* main ends the program by a return statement and by its end.
Exit ==
  /\ ~halted /\ ~back
  /\ Me.fn = "main"
  /\ AtEnd \/ Executing({"RETURN"})
  /\ halted' = TRUE
  /\ UNCHANGED << prog, funcs, stack, glob, retval, back, out, read >>

Next ==
  \/ Skip \/ Copy \/ Calculate \/ Goto \/ Jump \/ Output \/ Input
  \/ Push \/ CallFunction \/ Return \/ Leave \/ Result \/ Exit

SafeSpec == Init /\ [][Next]_vars

\* The running program is the only process.
Spec == SafeSpec /\ WF_vars(Next)

(***************************************************************************)
(* Properties                                                              *)
(***************************************************************************)

\* The operands that a quadruple reads.
ReadBy(q) ==
  LET minions == {qa.minion : qa \in {a \in {q.dst, q.arg1} : a.at = "array"}}
  IN  minions \union
      CASE q.op \in {"PUSH", "PRINT", "RETURN"} -> {q.dst} \ {NullAddr}
        [] q.op \in {"ASSIGN", "PLUS", "MINU", "MULT", "DIV"} \union DOMAIN Opposite ->
             {q.arg1, q.arg2} \ {NullAddr}
        [] OTHER -> {}

\* In a program that reads no variable before it is assigned, every operand
\* has a value when it is used: temporaries are computed on every path to
\* their uses, and parameters receive what was pushed for them.
OperandsAreDefined ==
  ~halted /\ ~back /\ ~AtEnd =>
    \A qa \in ReadBy(Current) : qa.at = "str" \/ Value(qa) # Undef

\* A call finds exactly the arguments of the function it calls: the pushes of
\* calls inside its arguments do not mix with its own.
CallsMatchPushes ==
  /\ Executing({"CALL"}) => Len(Me.args) = Function(Current.arg1.name).params
  /\ ~back /\ AtEnd => Me.args = << >>

\* A program whose loops end exits: no jump goes the wrong way.
Exits == <>halted
=============================================================================
