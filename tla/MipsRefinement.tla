--------------------------- MODULE MipsRefinement ---------------------------
(***************************************************************************)
(* The generated code implements the quadruples.  The activations of       *)
(* QuadMachine are read off the registers and the stack: the function on   *)
(* top from the line that is executed, its callers by following the return *)
(* addresses that the prologues have saved.                                *)
(***************************************************************************)
EXTENDS MipsMachine

VARIABLES funcs,        \* auxiliary: the functions that text was made from
          view          \* auxiliary: the state of QuadMachine that is implemented

Info(f) == FuncInfo(funcs, f)

\* The part of the machine's state that view is computed from, as a record.
Machine == [line |-> Line, sp |-> regs["sp"], ra |-> regs["ra"], v0 |-> regs["v0"],
            mem |-> mem, read |-> read]

Word(s, a) == IF a \in DOMAIN s.mem THEN s.mem[a] ELSE Undef

\* The frame of the current function, in place once the prologue has moved
\* the stack pointer.
BaseOf(s, fi) == s.sp - (IF s.line.role = "enter" THEN fi.size ELSE 0)

\* PUSH quadruples right before quadruple q of fi.
PushesBefore(fi, q) ==
  LET pushes == {i \in 1 .. q - 1 : fi.quads[i].op = "PUSH"}
  IN  Cardinality({i \in pushes : i .. q - 1 \subseteq pushes})

\* The activation of fi whose frame is at base.
ActivationAt(s, fi, base, q, pushed) ==
  [fn |-> fi.name, pc |-> q,
   args |-> [i \in 1 .. pushed |-> Word(s, base + fi.quads[(q - pushed) + (i - 1)].arg1.off)],
   tmp |-> [i \in DOMAIN fi.temps |-> Word(s, base + fi.temps[i])],
   env |-> [n \in DOMAIN fi.vars |->
              [i \in 1 .. fi.vars[n].num |-> Word(s, base + fi.vars[n].off + 4 * (i - 1))]]]

SavedRa(s, fi, base) == Word(s, base + fi.size - 4)

\* The activations that return address ra leads back to; none for an address
\* that no call has left.
RECURSIVE Callers(_, _, _)
Callers(s, ra, base) ==
  IF ra \notin 2 .. Len(text) \/ text[ra - 1].ins.i # "jal" THEN << >>
  ELSE LET c  == text[ra - 1]
           fi == Info(c.f)
           up == IF c.f = "main" THEN << >>
                 ELSE Callers(s, SavedRa(s, fi, base), base + fi.size)
       IN  Append(up, ActivationAt(s, fi, base, c.q, 0))

\* The return address of the current function.
ReturnAddress(s, fi) ==
  IF fi.saves /\ s.line.role \notin {"enter", "save", "out"} THEN SavedRa(s, fi, BaseOf(s, fi))
  ELSE s.ra

AbsStack(s, fi) ==
  LET base   == BaseOf(s, fi)
      below  == IF fi.name = "main" THEN << >>
                ELSE Callers(s, ReturnAddress(s, fi), base + IF s.line.role = "out" THEN 0 ELSE fi.size)
      pushed == IF s.line.role = "body" THEN PushesBefore(fi, s.line.q) ELSE 0
  IN  IF s.line.role # "out" THEN Append(below, ActivationAt(s, fi, base, s.line.q, pushed))
      ELSE IF fi.ret # "void" THEN below
      ELSE Append(Front(below), [Last(below) EXCEPT !.pc = @ + 1])

\* Between the return of a function and the store of its result.
AbsBack(s, fi) == s.line.role = "ret" \/ (s.line.role = "out" /\ fi.ret # "void")

AbsRetval(s, fi) ==
  IF AbsBack(s, fi) \/ (s.line.q > Len(fi.quads) /\ fi.ret # "void") THEN s.v0 ELSE Undef

\* What a scanf has read counts once it is stored.
AbsRead(s, fi) ==
  IF s.line.ins.i = "sw" /\ s.line.q \in DOMAIN fi.quads /\ fi.quads[s.line.q].op = "SCAN"
  THEN Front(s.read) ELSE s.read

ViewOf(s) ==
  LET fi == Info(s.line.f)
  IN  [stack |-> AbsStack(s, fi), back |-> AbsBack(s, fi),
       retval |-> AbsRetval(s, fi), read |-> AbsRead(s, fi)]

viewVars == << vars, funcs, view >>
ViewInit == Init /\ funcs = Table[prog].funcs /\ view = ViewOf(Machine)
ViewNext == Next /\ UNCHANGED funcs /\ view' = ViewOf(Machine')
ViewSpec == ViewInit /\ [][ViewNext]_viewVars /\ WF_vars(Next)

Quads == INSTANCE QuadMachine WITH
           Units <- Table, stack <- view.stack, glob <- data,
           retval <- view.retval, back <- view.back, read <- view.read

(***************************************************************************)
(* Properties                                                              *)
(***************************************************************************)

\* Every instruction does what its quadruple means, or nothing that can be
\* seen there: register alternation, frame offsets, saved return addresses
\* and argument words realize named variables and a stack of activations.
Implements == Quads!SafeSpec

FrameBase == BaseOf(Machine, Info(Line.f))

\* A store goes to a word of the current frame below the saved $ra, or to a
\* parameter, which is a word its caller has pushed.  GenPrologue alone
\* stores $ra.
StoresStayInFrame ==
  LET a  == Line.ins.addr
      fi == Info(Line.f)
      top == FrameBase + fi.size - (IF fi.saves THEN 4 ELSE 0)
      params == FrameBase + fi.size .. FrameBase + fi.size + 4 * fi.params - 1
  IN  ~halted /\ Line.ins.i = "sw" /\ IsStack(a) /\ Line.role # "save"
        => StackAddr(a) \in (FrameBase .. top - 1) \union params

\* No word is loaded that nothing has been stored in: neither an operand that
\* was not computed nor a return address that was not saved.
LoadsAreDefined ==
  ~halted /\ Line.ins.i = "lw" => Loaded(Line.ins.addr) # Undef

\* Every call comes back to the frame it was made from, so that main, which
\* has no prologue and no epilogue, always runs with the $sp it started with.
StackIsBalanced == Line.f = "main" => regs["sp"] = 0

\* The program exits: no jump is lost, no loop condition is reversed, every
\* call comes back.
Exits == <>halted

\* "QO_PLUS, // dst = arg1 + arg2" (quad_generator.h:29): once a PLUS has been
\* executed, its destination, if it is a global, has the sum of its operands.
PlusAssignsDst ==
  [][/\ Quads!Executing({"PLUS"})
     /\ Quads!Current.dst.at = "ident" /\ Quads!Current.dst.glb
     /\ view.stack # view'.stack
     => data'[Quads!Current.dst.name][1]
          = Quads!Value(Quads!Current.arg1) + Quads!Value(Quads!Current.arg2)]_viewVars
=============================================================================
