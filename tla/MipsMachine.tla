---------------------------- MODULE MipsMachine ----------------------------
(***************************************************************************)
(* The generated assembly running on a MIPS machine: registers, a stack of *)
(* words, the words of the data segment and the system calls of the        *)
(* simulator.  With it, the claim that the code implements QuadMachine.    *)
(*                                                                         *)
(* $sp is 0 when main starts.  A word of the stack that nothing has been   *)
(* stored in since the stack pointer last passed it has no value.          *)
(***************************************************************************)
EXTENDS MipsGen

CONSTANTS Units,        \* a sequence of compiled units
          Inputs,       \* the values that scanf may read
          Undef         \* what a word holds before anything is stored in it

VARIABLES prog,         \* the program that runs, an index of Table
          text,         \* its text section, as MipsGen writes it
          pc,           \* the line that is executed next
          regs,         \* the registers
          mem,          \* the stack, by address
          data,         \* the data segment: the words of each global
          out, read, halted

vars == << prog, text, pc, regs, mem, data, out, read, halted >>

\* A definition, unlike a constant given by one, is evaluated once by TLC.
Table == Units

Line      == text[pc]
LineOf(l) == CHOOSE i \in DOMAIN text : text[i].ins = LabelLine(l)

Item(k, v) == [kind |-> k, val |-> v]

Init ==
  /\ prog \in DOMAIN Table
  /\ text = Gen(Table[prog].funcs)
  /\ pc = 1
  /\ regs = [r \in {"t8", "t9", "v0", "a0", "lo", "sp", "ra"} |-> IF r = "sp" THEN 0 ELSE Undef]
  /\ mem = << >>
  /\ data = Table[prog].data
  /\ out = << >> /\ read = << >>
  /\ halted = FALSE

(***************************************************************************)
(* The machine                                                             *)
(***************************************************************************)

Plus(a, b) == IF Undef \in {a, b} THEN Undef ELSE a + b

Operate(op, a, b) ==
  IF Undef \in {a, b} \/ (op = "div" /\ b = 0) THEN Undef
  ELSE CASE op = "addu" -> a + b [] op = "subu" -> a - b
         [] op = "mul"  -> a * b [] op = "div"  -> Quotient(a, b)

Compare(op, a, b) ==
  CASE op = "beq" -> a = b [] op = "bne" -> a # b [] op = "blt" -> a < b
    [] op = "ble" -> a <= b [] op = "bgt" -> a > b [] op = "bge" -> a >= b
    [] op = "beqz" -> a = 0 [] op = "bnez" -> a # 0

\* An address: of the stack, or a word of a global.
StackAddr(a) == Plus(regs[a.reg], a.off)
WordOf(a)    == IF a.reg = "" THEN 1
                ELSE IF regs[a.reg] = Undef THEN 0 ELSE (regs[a.reg] \div 4) + 1
IsStack(a)   == a.name = ""

Loaded(a) ==
  IF IsStack(a) THEN IF StackAddr(a) \in DOMAIN mem THEN mem[StackAddr(a)] ELSE Undef
  ELSE IF WordOf(a) \in DOMAIN data[a.name] THEN data[a.name][WordOf(a)] ELSE Undef

Running(ops) == ~halted /\ Line.ins.i \in ops
SetReg(r, v) == regs' = [regs EXCEPT ![r] = v]
Go           == pc' = pc + 1

LoadImmediate ==
  /\ Running({"li", "la"})
  /\ SetReg(Line.ins.rd, Line.ins.imm) /\ Go
  /\ UNCHANGED << prog, text, mem, data, out, read, halted >>

LoadWord ==
  /\ Running({"lw"})
  /\ SetReg(Line.ins.rd, Loaded(Line.ins.addr)) /\ Go
  /\ UNCHANGED << prog, text, mem, data, out, read, halted >>

StoreWord ==
  LET a == Line.ins.addr
      v == regs[Line.ins.rs]
  IN  /\ Running({"sw"})
      /\ IF IsStack(a)
           THEN /\ StackAddr(a) # Undef
                /\ mem' = [w \in DOMAIN mem \union {StackAddr(a)} |->
                             IF w = StackAddr(a) THEN v ELSE mem[w]]
                /\ UNCHANGED data
           ELSE /\ data' = [data EXCEPT ![a.name][WordOf(a)] = v]
                /\ UNCHANGED mem
      /\ Go
      /\ UNCHANGED << prog, text, regs, out, read, halted >>

\* Words below the stack pointer are lost.
AddImmediate ==
  /\ Running({"addiu"})
  /\ SetReg(Line.ins.rd, Plus(regs[Line.ins.rs], Line.ins.imm)) /\ Go
  /\ mem' = Restrict(mem, {w \in DOMAIN mem : Line.ins.rd = "sp" => w >= regs'.sp})
  /\ UNCHANGED << prog, text, data, out, read, halted >>

Shift ==
  /\ Running({"sll"})
  /\ SetReg(Line.ins.rd, IF regs[Line.ins.rs] = Undef THEN Undef ELSE 4 * regs[Line.ins.rs]) /\ Go
  /\ UNCHANGED << prog, text, mem, data, out, read, halted >>

Compute ==
  /\ Running({"addu", "subu", "mul", "div"})
  /\ SetReg(Line.ins.rd, Operate(Line.ins.i, regs[Line.ins.rs], regs[Line.ins.rt])) /\ Go
  /\ UNCHANGED << prog, text, mem, data, out, read, halted >>

MoveRegister ==
  /\ Running({"move"})
  /\ SetReg(Line.ins.rd, regs[Line.ins.rs]) /\ Go
  /\ UNCHANGED << prog, text, mem, data, out, read, halted >>

BranchOn ==
  LET a == regs[Line.ins.rs]
      b == IF Line.ins.rt = "" THEN 0 ELSE regs[Line.ins.rt]
  IN  /\ Running({"beq", "bne", "blt", "ble", "bgt", "bge", "beqz", "bnez"})
      /\ \E yes \in IF Undef \in {a, b} THEN BOOLEAN ELSE {Compare(Line.ins.i, a, b)} :
           pc' = IF yes THEN LineOf(Line.ins.label) ELSE pc + 1
      /\ UNCHANGED << prog, text, regs, mem, data, out, read, halted >>

Jump ==
  /\ Running({"j"})
  /\ pc' = LineOf(Line.ins.label)
  /\ UNCHANGED << prog, text, regs, mem, data, out, read, halted >>

JumpAndLink ==
  /\ Running({"jal"})
  /\ pc' = LineOf(Line.ins.label) /\ SetReg("ra", pc + 1)
  /\ UNCHANGED << prog, text, mem, data, out, read, halted >>

JumpRegister ==
  /\ Running({"jr"})
  /\ regs["ra"] \in DOMAIN text /\ pc' = regs["ra"]
  /\ UNCHANGED << prog, text, regs, mem, data, out, read, halted >>

PassLabel ==
  /\ Running({"label"})
  /\ Go
  /\ UNCHANGED << prog, text, regs, mem, data, out, read, halted >>

\* "\n" has been appended to a string when the second component says so.
TextOf(s) == (IF s[1] = NoStr THEN << >> ELSE << Item("str", s[1]) >>)
             \o (IF s[2] THEN << Item("nl", 0) >> ELSE << >>)

SystemPrint ==
  /\ Running({"syscall"})
  /\ regs["v0"] \in {SC_PRINT_INT, SC_PRINT_CHAR, SC_PRINT_STR}
  /\ out' = out \o (IF regs["v0"] = SC_PRINT_STR THEN TextOf(regs["a0"])
                    ELSE << Item(IF regs["v0"] = SC_PRINT_INT THEN "int" ELSE "char",
                                 regs["a0"]) >>)
  /\ Go
  /\ UNCHANGED << prog, text, regs, mem, data, read, halted >>

SystemRead ==
  /\ Running({"syscall"})
  /\ regs["v0"] \in {SC_READ_INT, SC_READ_CHAR}
  /\ \E v \in Inputs : SetReg("v0", v) /\ read' = Append(read, v)
  /\ Go
  /\ UNCHANGED << prog, text, mem, data, out, halted >>

SystemExit ==
  /\ Running({"syscall"})
  /\ regs["v0"] = SC_EXIT
  /\ halted' = TRUE
  /\ UNCHANGED << prog, text, pc, regs, mem, data, out, read >>

Next ==
  \/ LoadImmediate \/ LoadWord \/ StoreWord \/ AddImmediate \/ Shift \/ Compute
  \/ MoveRegister \/ BranchOn \/ Jump \/ JumpAndLink \/ JumpRegister \/ PassLabel
  \/ SystemPrint \/ SystemRead \/ SystemExit

\* The processor never stops of itself.
Spec == Init /\ [][Next]_vars /\ WF_vars(Next)
=============================================================================
