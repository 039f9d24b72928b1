------------------------------ MODULE MipsGen ------------------------------
(***************************************************************************)
(* CodeGenerator: the functions of QuadGen written out as MIPS assembly.   *)
(*                                                                         *)
(* The text section is a sequence of lines [ins, f, q, role]: instruction  *)
(* ins was emitted for quadruple q of function f ("q" is one too many in   *)
(* the epilogue), where role says what the instruction is for.  The        *)
(* generator's state h holds the lines and the static variable reg of      *)
(* VisitQuadAddr, which alternates between $t8 and $t9 over the whole run. *)
(***************************************************************************)
EXTENDS QuadGen, SequencesExt

(***************************************************************************)
(* Instructions.  An address is an offset from a register, or the name of  *)
(* a global with the register holding a byte offset into it, or none.      *)
(***************************************************************************)

OnStack(off, base)  == [name |-> "", off |-> off, reg |-> base]
InData(n, reg)      == [name |-> n, off |-> 0, reg |-> reg]

Ins(i, rd, rs, rt, imm, addr, label) ==
  [i |-> i, rd |-> rd, rs |-> rs, rt |-> rt, imm |-> imm, addr |-> addr, label |-> label]
NoAddr   == OnStack(0, "")
NoLabel  == [of |-> "", n |-> 0]

Li(rd, v)            == Ins("li", rd, "", "", v, NoAddr, NoLabel)
La(rd, str)          == Ins("la", rd, "", "", str, NoAddr, NoLabel)
Lw(rd, addr)         == Ins("lw", rd, "", "", 0, addr, NoLabel)
Sw(rs, addr)         == Ins("sw", "", rs, "", 0, addr, NoLabel)
Addiu(rd, rs, v)     == Ins("addiu", rd, rs, "", v, NoAddr, NoLabel)
Sll2(rd, rs)         == Ins("sll", rd, rs, "", 2, NoAddr, NoLabel)
Alu(op, rd, rs, rt)  == Ins(op, rd, rs, rt, 0, NoAddr, NoLabel)
Move(rd, rs)         == Ins("move", rd, rs, "", 0, NoAddr, NoLabel)
Branch(op, rs, rt, l) == Ins(op, "", rs, rt, 0, NoAddr, l)
J(l)                 == Ins("j", "", "", "", 0, NoAddr, l)
Jal(l)               == Ins("jal", "", "", "", 0, NoAddr, l)
Jr                   == Ins("jr", "", "ra", "", 0, NoAddr, NoLabel)
LabelLine(l)         == Ins("label", "", "", "", 0, NoAddr, l)
Syscall              == Ins("syscall", "", "", "", 0, NoAddr, NoLabel)

QuadLabel(qa) == [of |-> "quad", n |-> qa.label]
EntryLabel(f) == [of |-> f, n |-> 0]
ExitLabel(f)  == [of |-> f, n |-> 1]

SC_PRINT_INT  == 1
SC_PRINT_STR  == 4
SC_READ_INT   == 5
SC_EXIT       == 10
SC_PRINT_CHAR == 11
SC_READ_CHAR  == 12

(***************************************************************************)
(* Emission                                                                *)
(***************************************************************************)

\* The generator at quadruple q of function fi.
At(h, fi, q, role) == [h EXCEPT !.fi = fi, !.q = q, !.role = role]

EmitAll(h, inss) ==
  [h EXCEPT !.code = @ \o [i \in DOMAIN inss |->
     [ins |-> inss[i], f |-> h.fi.name, q |-> h.q, role |-> h.role]]]

Emit(h, ins) == EmitAll(h, << ins >>)

OtherReg(r) == IF r = "t8" THEN "t9" ELSE "t8"

\* Mutation: the register does not alternate.
RegisterKept(h) == h

Register(h) == [h EXCEPT !.reg = OtherReg(@)]

\* An operand is loaded into the next register, h.reg in the result; an
\* element takes its index's register, which the visit of the index has made
\* the current one.
RECURSIVE VisitQuadAddr(_, _)
VisitQuadAddr(h, qa) ==
  LET g == Register(h)
  IN  CASE qa.at = "literal" -> Emit(g, Li(g.reg, qa.val))
        [] qa.at = "ident"   -> Emit(g, Lw(g.reg, IF qa.glb THEN InData(qa.name, "")
                                                            ELSE OnStack(qa.off, "sp")))
        [] qa.at = "tmp"     -> Emit(g, Lw(g.reg, OnStack(qa.off, "sp")))
        [] qa.at = "array"   ->
             LET m == VisitQuadAddr(g, qa.minion)
                 r == m.reg
             IN  EmitAll(m, IF qa.glb THEN << Sll2(r, r), Lw(r, InData(qa.name, r)) >>
                            ELSE << Sll2(r, r), Addiu(r, r, qa.off), Alu("addu", r, r, "sp"),
                                    Lw(r, OnStack(0, r)) >>)

GenAssign(h, dst, arg1) ==
  LET g   == VisitQuadAddr(h, arg1)
      src == g.reg
      m   == VisitQuadAddr(g, dst.minion)
      r   == OtherReg(src)
  IN  CASE dst.at = "array" /\ dst.glb ->
             EmitAll(m, << Sll2(r, m.reg), Sw(src, InData(dst.name, r)) >>)
        [] dst.at = "array" /\ ~dst.glb ->
             EmitAll(m, << Sll2(r, m.reg), Addiu(r, r, dst.off), Alu("addu", r, r, "sp"),
                           Sw(src, OnStack(0, r)) >>)
        [] dst.at = "ident" /\ dst.glb -> Emit(g, Sw(src, InData(dst.name, "")))
        [] OTHER -> Emit(g, Sw(src, OnStack(dst.off, "sp")))

\* Two operands; the registers they are in are r1 and r2.
VisitBoth(h, quad) ==
  LET g == VisitQuadAddr(h, quad.arg1)
      m == VisitQuadAddr(g, quad.arg2)
  IN  [h |-> m, r1 |-> g.reg, r2 |-> m.reg]

\* GenAdd, GenSub, GenMult: the result goes to the offset of the destination.
GenArith(h, quad, op) ==
  LET b == VisitBoth(h, quad)
  IN  EmitAll(b.h, << Alu(op, "t8", b.r1, b.r2), Sw("t8", OnStack(quad.dst.off, "sp")) >>)

GenDiv(h, quad) ==
  LET b == VisitBoth(h, quad)
  IN  EmitAll(b.h, << Alu("div", "lo", b.r1, b.r2), Move("t8", "lo"),
                      Sw("t8", OnStack(quad.dst.off, "sp")) >>)

GenPush(h, quad) ==
  LET g == VisitQuadAddr(h, quad.dst)
  IN  Emit(g, Sw(g.reg, OnStack(quad.arg1.off, "sp")))

GenCall(h, quad, nonvoid) ==
  LET g == Emit(h, Jal(EntryLabel(quad.arg1.name)))
  IN  IF nonvoid THEN Emit(At(g, g.fi, g.q, "ret"), Sw("v0", OnStack(quad.dst.off, "sp"))) ELSE g

GenReturn(h, quad) ==
  LET g == IF quad.dst = NullAddr THEN h
           ELSE LET v == VisitQuadAddr(h, quad.dst) IN Emit(v, Move("v0", v.reg))
  IN  Emit(g, J(ExitLabel(h.fi.name)))

EmitSyscall(h, n) == EmitAll(h, << Li("v0", n), Syscall >>)

\* "\n" is part of the text of a string, which is named here by its literal.
EmitPrint(h, qa) ==
  LET value == IF qa.at = "literal" THEN Li("t8", qa.val)
               ELSE Lw("t8", IF qa.at = "ident" /\ qa.glb THEN InData(qa.name, "")
                             ELSE OnStack(qa.off, "sp"))
  IN  IF qa.at = "str"
        THEN EmitSyscall(Emit(h, La("a0", << qa.val, qa.nl >>)), SC_PRINT_STR)
        ELSE EmitSyscall(EmitAll(h, << value, Move("a0", "t8") >>),
                         IF qa.ch THEN SC_PRINT_CHAR ELSE SC_PRINT_INT)

EmitScanf(h, qa) ==
  Emit(EmitSyscall(h, IF qa.ch THEN SC_READ_CHAR ELSE SC_READ_INT),
       Sw("v0", IF qa.glb THEN InData(qa.name, "") ELSE OnStack(qa.off, "sp")))

\* Mutation: BNZ branches on zero.
MnemonicOfZero(op) ==
  CASE op = "BEQ" -> "beq" [] op = "BNE" -> "bne" [] op = "BLT" -> "blt" [] op = "BLE" -> "ble"
    [] op = "BGT" -> "bgt" [] op = "BGE" -> "bge" [] op \in {"BZ", "BNZ"} -> "beqz"

Mnemonic(op) ==
  CASE op = "BEQ" -> "beq" [] op = "BNE" -> "bne" [] op = "BLT" -> "blt" [] op = "BLE" -> "ble"
    [] op = "BGT" -> "bgt" [] op = "BGE" -> "bge" [] op = "BZ" -> "beqz" [] op = "BNZ" -> "bnez"

EmitQuad(h, quad, nonvoid) ==
  CASE quad.op = "LABEL"  -> Emit(h, LabelLine(QuadLabel(quad.dst)))
    [] quad.op = "PRINT"  -> EmitPrint(h, quad.dst)
    [] quad.op = "SCAN"   -> EmitScanf(h, quad.dst)
    [] quad.op = "ASSIGN" -> GenAssign(h, quad.dst, quad.arg1)
    [] quad.op = "PLUS"   -> GenArith(h, quad, "addu")
    [] quad.op = "MINU"   -> GenArith(h, quad, "subu")
    [] quad.op = "MULT"   -> GenArith(h, quad, "mul")
    [] quad.op = "DIV"    -> GenDiv(h, quad)
    [] quad.op = "PUSH"   -> GenPush(h, quad)
    [] quad.op = "CALL"   -> GenCall(h, quad, nonvoid)
    [] quad.op = "RETURN" -> GenReturn(h, quad)
    [] quad.op = "GOTO"   -> Emit(h, J(QuadLabel(quad.dst)))
    [] quad.op \in {"BZ", "BNZ"} ->
         LET g == VisitQuadAddr(h, quad.arg1)
         IN  Emit(g, Branch(Mnemonic(quad.op), g.reg, "", QuadLabel(quad.dst)))
    [] quad.op = "PARAM"  -> h
    [] OTHER ->
         LET b == VisitBoth(h, quad)
         IN  Emit(b.h, Branch(Mnemonic(quad.op), b.r1, b.r2, QuadLabel(quad.dst)))

(***************************************************************************)
(* Functions and the text section                                          *)
(***************************************************************************)

\* Mutation: $ra is not saved.
GenPrologueUnsaved(h, fi) ==
  IF fi.size = 0 THEN h
  ELSE Emit(At(h, fi, fi.params + 1, "enter"), Addiu("sp", "sp", -fi.size))

\* Only $ra is ever saved, in the last word of the frame.
GenPrologue(h, fi) ==
  IF fi.size = 0 THEN h
  ELSE LET g == Emit(At(h, fi, fi.params + 1, "enter"), Addiu("sp", "sp", -fi.size))
       IN  IF fi.saves
             THEN Emit(At(g, fi, fi.params + 1, "save"), Sw("ra", OnStack(fi.size - 4, "sp")))
             ELSE g

\* Mutation: the frame is not given back.
GenEpilogueKept(h, fi) ==
  LET g == IF fi.saves THEN Emit(h, Lw("ra", OnStack(fi.size - 4, "sp"))) ELSE h
  IN  Emit(g, Jr)

GenEpilogue(h, fi) ==
  LET g == IF fi.saves THEN Emit(h, Lw("ra", OnStack(fi.size - 4, "sp"))) ELSE h
  IN  IF fi.size = 0 THEN Emit(h, Jr)
      ELSE Emit(At(Emit(g, Addiu("sp", "sp", fi.size)), fi, h.q, "out"), Jr)

IsNonvoid(funcs, quad) ==
  quad.op = "CALL" /\ FuncInfo(funcs, quad.arg1.name).ret # "void"

\* The quadruples of fi from the i-th on.  main returns by exiting.
RECURSIVE EmitQuads(_, _, _, _), GenFuncs(_, _, _)
EmitQuads(h, fi, i, funcs) ==
  LET quad == fi.quads[i]
      g    == At(h, fi, i, "body")
  IN  IF ~Forced(h) \/ i > Len(fi.quads) THEN h
      ELSE EmitQuads(IF fi.name = "main" /\ quad.op = "RETURN" THEN EmitSyscall(g, SC_EXIT)
                     ELSE EmitQuad(g, quad, IsNonvoid(funcs, quad)), fi, i + 1, funcs)

GenFunc(h, fi, funcs) ==
  LET g    == GenPrologue(Emit(At(h, fi, fi.params + 1, "enter"), LabelLine(EntryLabel(fi.name))), fi)
      body == EmitQuads(g, fi, 1, funcs)
  IN  GenEpilogue(Emit(At(body, fi, Len(fi.quads) + 1, "body"), LabelLine(ExitLabel(fi.name))), fi)

\* The text section: main, the last function, without prologue or epilogue,
\* and then the others from the last but one to the first.
GenFuncs(h, n, funcs) ==
  IF ~Forced(h) \/ n = 0 THEN h ELSE GenFuncs(GenFunc(h, funcs[n], funcs), n - 1, funcs)

Gen(funcs) ==
  LET main  == Last(funcs)
      start == [code |-> << >>, reg |-> "t8", fi |-> main, q |-> 1, role |-> "body"]
      body  == EmitQuads(start, main, 1, funcs)
      exit  == EmitSyscall(At(body, main, Len(main.quads) + 1, "body"), SC_EXIT)
  IN  GenFuncs(exit, Len(funcs) - 1, funcs).code
=============================================================================
