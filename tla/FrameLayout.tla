---------------------------- MODULE FrameLayout ----------------------------
(***************************************************************************)
(* How QuadGenerator lays out stack frames while it walks the functions of *)
(* a translation unit.                                                     *)
(*                                                                         *)
(* Every operand of a quadruple is a QuadAddr object.  The ones that live  *)
(* in memory first carry the running byte count m_curoffset; when the body *)
(* of a function has been visited its final frame size is known, and one   *)
(* pass over the function's quadruples rewrites each operand's m_offset to *)
(* an offset from $sp, at most once per object (m_resolved).  The objects  *)
(* are shared: a variable is one object used by many quadruples, and a     *)
(* global is one object used by many functions.                            *)
(*                                                                         *)
(* Identifiers, types and operators do not matter to the layout and are    *)
(* left out.  The order in which the visitor meets declarations, calls and *)
(* operands depends on the program, so it is left open here.               *)
(***************************************************************************)
EXTENDS Integers

CONSTANTS
  Addr,       \* the QuadAddr objects the allocator may hand out
  Widths,     \* the byte widths of declared variables (4, or 4 * length)
  NumRegs,    \* registers in m_regpool (8: $s0 to $s7)
  MaxFuncs,   \* bound: the number of functions in the translation unit
  MaxArgs,    \* bound: the number of arguments of one call
  MaxCalls    \* bound: the number of call expressions in one function

ASSUME ConstantsAssumption ==
  /\ \A w \in Widths : w \in Nat /\ w % 4 = 0
  /\ NumRegs \in Nat
  /\ MaxFuncs \in Nat \ {0}
  /\ MaxArgs \in Nat
  /\ MaxCalls \in Nat

Funcs == 1 .. MaxFuncs
Phases == {"unit", "params", "locals", "body"}
Kinds == {"free", "param", "local", "temp", "array", "global"}

VARIABLES
  phase,      \* where the visitor is, see Phases
  curfunc,    \* m_curfunc, as its position in m_funcs (0: nullptr)
  size,       \* m_frame.size of each FuncInfo
  mask,       \* whether bit 31 ($ra) of m_frame.mask is set
  argbuildsz, \* m_argbuildsz of each FuncInfo
  curoffset,  \* m_curoffset
  open,       \* calls whose arguments are still being visited
  pushed,     \* stack offsets the QO_PUSH quadruples of a FuncInfo write
  kind,       \* what each QuadAddr is
  owner,      \* the function in whose quadruples it was created
  base,       \* the variable an array operand was copied from
  width,      \* bytes of storage it names
  off,        \* m_offset
  resolved,   \* m_resolved
  bind,       \* m_bind (0: never set)
  used        \* the QuadAddrs in the current function's quadruples

vars == << phase, curfunc, size, mask, argbuildsz, curoffset, open, pushed,
           kind, owner, base, width, off, resolved, bind, used >>

funcVars == << size, mask, argbuildsz, pushed >>
addrVars == << kind, owner, base, width, off, resolved, bind >>

(***************************************************************************)
(* Helpers                                                                 *)
(***************************************************************************)

IsFree(a) == kind[a] = "free"

\* The storage classes that get a place in the frame of their function.
InFrame(a) == kind[a] \in {"local", "temp", "array"}

\* A new QuadAddr: its constructor leaves m_resolved false.
NewAddr(a, k, b, w, o) ==
  /\ IsFree(a)
  /\ kind'     = [kind EXCEPT ![a] = k]
  /\ owner'    = [owner EXCEPT ![a] = curfunc]
  /\ base'     = [base EXCEPT ![a] = b]
  /\ width'    = [width EXCEPT ![a] = w]
  /\ off'      = [off EXCEPT ![a] = o]
  /\ UNCHANGED resolved

\* FuncInfo::AllocReg: the first register of the function's pool that no
\* QuadAddr holds, if there is one.  Nothing gives a register back.
FreeRegs ==
  {r \in 1 .. NumRegs : \A a \in Addr : owner[a] = curfunc => bind[a] # r}

AllocReg(a) ==
  \/ FreeRegs = {} /\ UNCHANGED bind
  \/ \E r \in FreeRegs : /\ \A s \in FreeRegs : r <= s
                         /\ bind' = [bind EXCEPT ![a] = r]

\* Bytes taken by the registers GenPrologue saves: get_ones(mask) * 4.
SaveSize(f) == IF mask[f] THEN 4 ELSE 0

(***************************************************************************)
(* Actions                                                                 *)
(***************************************************************************)

Init ==
  /\ phase = "unit"
  /\ curfunc = 0
  /\ size = [f \in Funcs |-> 0]
  /\ mask = [f \in Funcs |-> FALSE]
  /\ argbuildsz = [f \in Funcs |-> 0]
  /\ curoffset = 0
  /\ open = 0
  /\ pushed = [f \in Funcs |-> {}]
  /\ kind = [a \in Addr |-> "free"]
  /\ owner = [a \in Addr |-> 0]
  /\ base = [a \in Addr |-> a]
  /\ width = [a \in Addr |-> 0]
  /\ off = [a \in Addr |-> 0]
  /\ resolved = [a \in Addr |-> FALSE]
  /\ bind = [a \in Addr |-> 0]
  /\ used = {}

\* The globals are visited first; a global has no offset of its own.
VisitGlobal(a, w) ==
  /\ phase = "unit"
  /\ curfunc = 0
  /\ NewAddr(a, "global", a, w, 0)
  /\ UNCHANGED << bind, phase, curfunc, curoffset, open, used >>
  /\ UNCHANGED funcVars

\* VisitFunctionDecl up to its parameters: a new FuncInfo, with an empty
\* frame.  m_curoffset is not reset here.
StartFunction ==
  /\ phase = "unit"
  /\ curfunc < MaxFuncs
  /\ phase' = "params"
  /\ curfunc' = curfunc + 1
  /\ size' = [size EXCEPT ![curfunc'] = 0]
  /\ mask' = [mask EXCEPT ![curfunc'] = FALSE]
  /\ argbuildsz' = [argbuildsz EXCEPT ![curfunc'] = 0]
  /\ pushed' = [pushed EXCEPT ![curfunc'] = {}]
  /\ used' = {}
  /\ UNCHANGED << curoffset, open >>
  /\ UNCHANGED addrVars

\* A parameter takes the offset before m_curoffset moves on, and is the
\* operand of a QO_PARAM quadruple.
VisitParmVarDecl(a) ==
  /\ phase = "params"
  /\ NewAddr(a, "param", a, 4, curoffset)
  /\ AllocReg(a)
  /\ curoffset' = curoffset + 4
  /\ used' = used \union {a}
  /\ UNCHANGED << phase, curfunc, open >>
  /\ UNCHANGED funcVars

\* VisitCompoundStmt of the function's body: its declarations ...
VisitDecls ==
  /\ phase = "params"
  /\ phase' = "locals"
  /\ UNCHANGED << curfunc, curoffset, open, used >>
  /\ UNCHANGED << funcVars, addrVars >>

\* ... and then its statements.
VisitStmts ==
  /\ phase = "locals"
  /\ phase' = "body"
  /\ UNCHANGED << curfunc, curoffset, open, used >>
  /\ UNCHANGED << funcVars, addrVars >>

\* A local variable takes the offset after m_curoffset has moved past it.
\* No quadruple names it yet, unless it is a const with an initial value.
VisitVarDecl(a, w, isconst) ==
  /\ phase = "locals"
  /\ curoffset' = curoffset + w
  /\ NewAddr(a, "local", a, w, curoffset')
  /\ AllocReg(a)
  /\ used' = IF isconst THEN used \union {a} ELSE used
  /\ UNCHANGED << phase, curfunc, open >>
  /\ UNCHANGED funcVars

NewTempByte(a) ==      \* mutant: a char temporary advances by one byte
  /\ phase = "body"
  /\ curoffset' = curoffset + 1
  /\ NewAddr(a, "temp", a, 4, curoffset')
  /\ used' = used \union {a}
  /\ UNCHANGED << phase, curfunc, open, bind >>
  /\ UNCHANGED funcVars

\* NewTemp and NewTempChar; each caller makes it the dst of a quadruple.
NewTemp(a) ==
  /\ phase = "body"
  /\ curoffset' = curoffset + 4
  /\ NewAddr(a, "temp", a, 4, curoffset')
  /\ used' = used \union {a}
  /\ UNCHANGED << phase, curfunc, open, bind >>
  /\ UNCHANGED funcVars

\* A quadruple gets as an operand a parameter or local of this function, a
\* temporary, or a global.
UseAddr(a) ==
  /\ phase = "body"
  /\ kind[a] \in {"param", "local", "temp", "global"}
  /\ owner[a] \in {0, curfunc}
  /\ used' = used \union {a}
  /\ UNCHANGED << phase, curfunc, curoffset, open >>
  /\ UNCHANGED << funcVars, addrVars >>

\* VisitArraySubscriptExpr copies the variable's m_offset into the operand
\* a of a quadruple.  (The copy of a global keeps m_isglb.)
VisitArraySubscriptExpr(a, v) ==
  /\ phase = "body"
  /\ \/ kind[v] = "local" /\ owner[v] = curfunc
     \/ kind[v] = "global"
  /\ NewAddr(a, IF kind[v] = "global" THEN "global" ELSE "array",
             v, width[v], off[v])
  /\ used' = used \union {a}
  /\ UNCHANGED << phase, curfunc, curoffset, open, bind >>
  /\ UNCHANGED funcVars

\* VisitCallExpr up to its arguments: the function is no leaf, so $ra must
\* be saved, and the frame grows by a word with every call it contains.  (m_isleaf is
\* the negation of mask.)
BeginCall ==
  /\ phase = "body"
  /\ size[curfunc] < 4 * MaxCalls
  /\ mask' = [mask EXCEPT ![curfunc] = TRUE]
  /\ size' = [size EXCEPT ![curfunc] = @ + 4]
  /\ open' = open + 1
  /\ UNCHANGED << phase, curfunc, curoffset, argbuildsz, pushed, used >>
  /\ UNCHANGED addrVars

ArgBuildSizeOfLast(n) ==   \* mutant: the last call decides, not the largest
  4 * n

\* m_argbuildsz after a call with n arguments.
ArgBuildSize(n) ==
  IF 4 * n > argbuildsz[curfunc] THEN 4 * n ELSE argbuildsz[curfunc]

\* VisitCallExpr after its arguments (which may contain calls): one QO_PUSH
\* per argument, the area they are built in, and the temporary a that
\* receives the result.
EndCall(n, a) ==
  /\ phase = "body"
  /\ open > 0
  /\ open' = open - 1
  /\ pushed' = [pushed EXCEPT ![curfunc] = @ \union {4 * i : i \in 0 .. n - 1}]
  /\ argbuildsz' = [argbuildsz EXCEPT ![curfunc] = ArgBuildSize(n)]
  /\ curoffset' = curoffset + 4
  /\ NewAddr(a, "temp", a, 4, curoffset')
  /\ used' = used \union {a}
  /\ UNCHANGED << phase, curfunc, size, mask, bind >>

FinalSizeNoArgs ==     \* mutant: no room for the arguments of calls
  size[curfunc] + curoffset

\* The frame size of the current function once its body has been visited.
FinalSize == size[curfunc] + curoffset + argbuildsz[curfunc]

ResolvedOffsetNoParam(a) ==   \* mutant: a parameter treated like a local
  FinalSize - size[curfunc] - off[a]

ResolvedOffsetNoSave(a) ==    \* mutant: save_size dropped for array operands
  CASE kind[a] = "param" -> FinalSize + off[a]
    [] kind[a] = "array" -> FinalSize - off[a]
    [] OTHER             -> FinalSize - size[curfunc] - off[a]

\* m_offset of a after the resolution pass: save_size is m_frame.size
\* before it was made final.
ResolvedOffset(a) ==
  IF kind[a] = "param" THEN FinalSize + off[a]
                       ELSE FinalSize - size[curfunc] - off[a]

ToResolveAgain ==      \* mutant: m_resolved is not consulted
  used

\* The QuadAddrs in the function's quadruples that the pass rewrites.
ToResolve == {a \in used : ~resolved[a]}

\* The rest of VisitFunctionDecl: the frame size is made final and every
\* QuadAddr in the function's quadruples is resolved unless it already is.
\* VisitTranslationUnitDecl then resets m_curoffset.
EndFunction ==
  /\ phase = "body"
  /\ open = 0
  /\ size' = [size EXCEPT ![curfunc] = FinalSize]
  /\ off' = [a \in Addr |-> IF a \in ToResolve
                            THEN ResolvedOffset(a) ELSE off[a]]
  /\ resolved' = [a \in Addr |-> resolved[a] \/ a \in used]
  /\ curoffset' = 0
  /\ phase' = "unit"
  /\ UNCHANGED << curfunc, mask, argbuildsz, open, pushed, used >>
  /\ UNCHANGED << kind, owner, base, width, bind >>

Next ==
  \/ \E a \in Addr, w \in Widths : VisitGlobal(a, w)
  \/ StartFunction
  \/ \E a \in Addr : VisitParmVarDecl(a)
  \/ VisitDecls
  \/ VisitStmts
  \/ \E a \in Addr, w \in Widths, c \in BOOLEAN : VisitVarDecl(a, w, c)
  \/ \E a \in Addr : NewTemp(a)
  \/ \E a \in Addr : UseAddr(a)
  \/ \E a, v \in Addr : VisitArraySubscriptExpr(a, v)
  \/ BeginCall
  \/ \E a \in Addr, n \in 0 .. MaxArgs : EndCall(n, a)
  \/ EndFunction

Spec == Init /\ [][Next]_vars

(***************************************************************************)
(* Properties                                                              *)
(***************************************************************************)

TypeOK ==
  /\ phase \in Phases
  /\ curfunc \in 0 .. MaxFuncs
  /\ size \in [Funcs -> Nat]
  /\ mask \in [Funcs -> BOOLEAN]
  /\ argbuildsz \in [Funcs -> Nat]
  /\ curoffset \in Nat
  /\ open \in Nat
  /\ pushed \in [Funcs -> SUBSET Nat]
  /\ kind \in [Addr -> Kinds]
  /\ owner \in [Addr -> 0 .. MaxFuncs]
  /\ base \in [Addr -> Addr]
  /\ width \in [Addr -> Nat]
  /\ off \in [Addr -> Int]
  /\ resolved \in [Addr -> BOOLEAN]
  /\ bind \in [Addr -> 0 .. NumRegs]
  /\ used \in SUBSET Addr

\* Two variables or temporaries of one function never share a byte of its
\* frame, whatever widths were declared and however calls, temporaries and
\* array operands were interleaved (VisitVarDecl, NewTemp, VisitCallExpr
\* and the resolution pass of VisitFunctionDecl).
NoOverlap ==
  \A a, b \in Addr :
    /\ a # b
    /\ kind[a] \in {"local", "temp"} /\ kind[b] \in {"local", "temp"}
    /\ resolved[a] /\ resolved[b]
    /\ owner[a] = owner[b]
    => off[a] + width[a] <= off[b] \/ off[b] + width[b] <= off[a]

\* Every variable, temporary and array operand lies above the area in which
\* its function builds arguments and below the registers its prologue saves:
\* the picture drawn above struct Frame in quad_generator.h.
WithinFrame ==
  \A a \in Addr :
    InFrame(a) /\ resolved[a] =>
      /\ argbuildsz[owner[a]] <= off[a]
      /\ off[a] + width[a] <= size[owner[a]] - SaveSize(owner[a])

\* A call builds its arguments inside the argument area of its function,
\* even when one of them is itself a call with more arguments.
PushesFit ==
  \A f \in Funcs : \A p \in pushed[f] : p + 4 <= argbuildsz[f]

\* The parameters of a function are found directly above its frame, one
\* word each and without a gap, which is where VisitCallExpr of the caller
\* pushes the arguments: at 0, 4, 8, ... from the caller's $sp.
ParamsMeetArgs ==
  \A a \in Addr :
    kind[a] = "param" /\ resolved[a] =>
      /\ \/ off[a] = size[owner[a]]
         \/ /\ off[a] > size[owner[a]]
            /\ \E b \in Addr : /\ kind[b] = "param" /\ resolved[b]
                               /\ owner[b] = owner[a]
                               /\ off[b] + 4 = off[a]
      /\ \A b \in Addr : /\ kind[b] = "param" /\ resolved[b]
                         /\ owner[b] = owner[a] /\ off[b] = off[a]
                        => b = a

\* All operands that name one local array agree on where it is, although
\* each subscript is a QuadAddr of its own, copied before the offsets were
\* final and resolved separately.
ArraysAgree ==
  \A a, b \in Addr :
    /\ kind[a] \in {"local", "array"} /\ kind[b] \in {"local", "array"}
    /\ base[a] = base[b]
    /\ resolved[a] /\ resolved[b]
    => off[a] = off[b]

\* What the disabled assertions of GenPrologue state of every frame it is
\* given: its size is a multiple of four and has room for what is saved.
FramesWellFormed ==
  \A f \in Funcs :
    f < curfunc \/ (f = curfunc /\ phase = "unit") =>
      size[f] % 4 = 0 /\ SaveSize(f) <= size[f]

\* No register of a function's pool is bound to two of its QuadAddrs.
RegistersExclusive ==
  \A a, b \in Addr :
    bind[a] # 0 /\ bind[a] = bind[b] /\ owner[a] = owner[b] => a = b

\* An operand is resolved against the frame of one function only, once:
\* a global used by several functions, and every operand of a function
\* already laid out, keep the offset they were given.
ResolvedOnce ==
  [][\A a \in Addr : resolved[a] => resolved'[a] /\ off'[a] = off[a]]_vars

(***************************************************************************)
(* The inductive invariant: what holds while a function is being visited   *)
(* and makes the layout come out right when its offsets are resolved.      *)
(***************************************************************************)

\* Function f has been laid out.
Done(f) == f < curfunc \/ (f = curfunc /\ phase = "unit")

\* The function being visited is the only one with unresolved operands.
IsLive(a) == owner[a] = curfunc /\ phase # "unit"

PhaseInv ==
  /\ phase # "unit" => curfunc # 0
  /\ phase = "unit" => curoffset = 0
  /\ phase = "params" =>
       \/ curoffset = 0
       \/ \E b \in Addr : kind[b] = "param" /\ IsLive(b) /\ off[b] + 4 = curoffset

OwnerInv ==
  \A a \in Addr :
    /\ owner[a] <= curfunc
    /\ IsFree(a) => owner[a] = 0 /\ bind[a] = 0 /\ ~resolved[a] /\ a \notin used
    /\ kind[a] \in {"param", "local", "temp", "array"} =>
         /\ owner[a] # 0
         /\ resolved[a] => Done(owner[a])
         /\ a \in used => owner[a] = curfunc
    /\ kind[a] = "param" /\ IsLive(a) => a \in used

SizeInv ==
  /\ curoffset % 4 = 0
  /\ \A f \in Funcs : /\ size[f] % 4 = 0
                      /\ argbuildsz[f] % 4 = 0
                      /\ mask[f] => size[f] >= 4

\* The slots of the live function lie below m_curoffset, side by side.
SlotInv ==
  /\ \A a \in Addr : InFrame(a) /\ IsLive(a) => /\ width[a] <= off[a]
                                                /\ off[a] <= curoffset
  /\ \A a, b \in Addr :
       /\ a # b
       /\ kind[a] \in {"local", "temp"} /\ kind[b] \in {"local", "temp"}
       /\ IsLive(a) /\ IsLive(b)
       => off[a] <= off[b] - width[b] \/ off[b] <= off[a] - width[a]

\* The parameters of the live function are numbered 0, 4, 8, ...
ParamInv ==
  \A a \in Addr :
    kind[a] = "param" /\ IsLive(a) =>
      /\ 0 <= off[a] /\ off[a] + 4 <= curoffset
      /\ \/ off[a] = 0
         \/ \E b \in Addr : /\ kind[b] = "param" /\ IsLive(b)
                            /\ off[b] + 4 = off[a]
      /\ \A b \in Addr : /\ kind[b] = "param" /\ IsLive(b) /\ off[b] = off[a]
                        => b = a

\* An array operand is copied from a local of its own function, and two
\* operands of one array agree whenever both or neither are resolved.
ArrayInv ==
  /\ \A a \in Addr :
       /\ kind[a] = "array" => /\ kind[base[a]] = "local"
                               /\ owner[base[a]] = owner[a]
       /\ IsFree(a) \/ kind[a] = "local" => base[a] = a
  /\ \A a, b \in Addr :
       /\ kind[a] \in {"local", "array"} /\ kind[b] \in {"local", "array"}
       /\ base[a] = base[b]
       /\ resolved[a] = resolved[b]
       => off[a] = off[b]

\* Everything above, with the properties that the proof carries along: the
\* visitor of VisitFunctionDecl and its callees keeps all of them together.
IInv ==
  /\ TypeOK
  /\ PhaseInv
  /\ OwnerInv
  /\ SizeInv
  /\ SlotInv
  /\ ParamInv
  /\ ArrayInv
  /\ NoOverlap
  /\ WithinFrame
  /\ PushesFit
  /\ ParamsMeetArgs
  /\ RegistersExclusive

=============================================================================
