------------------------- MODULE FrameLayoutProofs -------------------------
(***************************************************************************)
(* Proofs about FrameLayout, for every set of QuadAddr objects, every      *)
(* choice of widths and every value of the bounds.                         *)
(***************************************************************************)
EXTENDS FrameLayout, TLAPS

(***************************************************************************)
(* Type correctness                                                        *)
(***************************************************************************)

\* AllocReg leaves every m_bind a register of the pool, or unset.
LEMMA AllocRegType ==
  ASSUME TypeOK, NEW a \in Addr, AllocReg(a)
  PROVE  bind' \in [Addr -> 0 .. NumRegs]
BY ConstantsAssumption DEF AllocReg, FreeRegs, TypeOK

\* Creating a QuadAddr of a legal kind, variable, width and offset leaves
\* the fields of every QuadAddr legal.
LEMMA NewAddrType ==
  ASSUME TypeOK, NEW a \in Addr, NEW k \in Kinds, NEW b \in Addr,
         NEW w \in Nat, NEW o \in Int, NewAddr(a, k, b, w, o)
  PROVE  /\ kind' \in [Addr -> Kinds]
         /\ owner' \in [Addr -> 0 .. MaxFuncs]
         /\ base' \in [Addr -> Addr]
         /\ width' \in [Addr -> Nat]
         /\ off' \in [Addr -> Int]
         /\ resolved' \in [Addr -> BOOLEAN]
BY DEF NewAddr, TypeOK

\* The final size of a frame, and the offsets resolved against it, are
\* integers of the right sign.
LEMMA FinalSizeType ==
  ASSUME TypeOK, curfunc # 0
  PROVE  /\ FinalSize \in Nat
         /\ \A a \in Addr : ResolvedOffset(a) \in Int
<1>1. /\ curfunc \in Funcs
      /\ size[curfunc] \in Nat /\ argbuildsz[curfunc] \in Nat /\ curoffset \in Nat
  BY ConstantsAssumption DEF TypeOK, Funcs
<1>2. FinalSize \in Nat
  BY <1>1 DEF FinalSize
<1>3. \A a \in Addr : off[a] \in Int
  BY DEF TypeOK
<1> QED
  BY <1>1, <1>2, <1>3 DEF ResolvedOffset

\* Every step of the visitor keeps the state well typed; a function is
\* being visited whenever the visitor is inside one.
LEMMA TypeStep ==
  ASSUME TypeOK, phase # "unit" => curfunc # 0, [Next]_vars
  PROVE  TypeOK' /\ (phase # "unit" => curfunc # 0)'
<1> USE ConstantsAssumption
<1> DEFINE TypedPhase == TypeOK' /\ (phase # "unit" => curfunc # 0)'
<1>1. ASSUME NEW a \in Addr, NEW w \in Widths, VisitGlobal(a, w)
      PROVE  TypedPhase
  BY <1>1, NewAddrType DEF VisitGlobal, TypeOK, Kinds, funcVars
<1>2. CASE StartFunction
  BY <1>2 DEF StartFunction, TypeOK, Phases, Funcs, addrVars
<1>3. ASSUME NEW a \in Addr, VisitParmVarDecl(a)
      PROVE  TypedPhase
  BY <1>3, NewAddrType, AllocRegType
     DEF VisitParmVarDecl, TypeOK, Kinds, funcVars
<1>4. CASE VisitDecls
  BY <1>4 DEF VisitDecls, TypeOK, Phases, funcVars, addrVars
<1>5. CASE VisitStmts
  BY <1>5 DEF VisitStmts, TypeOK, Phases, funcVars, addrVars
<1>6. ASSUME NEW a \in Addr, NEW w \in Widths, NEW c \in BOOLEAN,
             VisitVarDecl(a, w, c)
      PROVE  TypedPhase
  <2>1. w \in Nat /\ curoffset' \in Nat
    BY <1>6 DEF VisitVarDecl, TypeOK
  <2>2. /\ kind' \in [Addr -> Kinds]
        /\ owner' \in [Addr -> 0 .. MaxFuncs]
        /\ base' \in [Addr -> Addr]
        /\ width' \in [Addr -> Nat]
        /\ off' \in [Addr -> Int]
        /\ resolved' \in [Addr -> BOOLEAN]
    BY <1>6, <2>1 DEF VisitVarDecl, NewAddr, TypeOK, Kinds
  <2> QED
    BY <1>6, <2>1, <2>2, AllocRegType DEF VisitVarDecl, TypeOK, funcVars
<1>7. ASSUME NEW a \in Addr, NewTemp(a)
      PROVE  TypedPhase
  BY <1>7 DEF NewTemp, NewAddr, TypeOK, Kinds, funcVars
<1>8. ASSUME NEW a \in Addr, UseAddr(a)
      PROVE  TypedPhase
  BY <1>8 DEF UseAddr, TypeOK, funcVars, addrVars
<1>9. ASSUME NEW a \in Addr, NEW v \in Addr, VisitArraySubscriptExpr(a, v)
      PROVE  TypedPhase
  BY <1>9 DEF VisitArraySubscriptExpr, NewAddr, TypeOK, Kinds, funcVars
<1>10. CASE BeginCall
  BY <1>10 DEF BeginCall, TypeOK, Funcs, addrVars
<1>11. ASSUME NEW a \in Addr, NEW n \in 0 .. MaxArgs, EndCall(n, a)
       PROVE  TypedPhase
  <2>1. /\ curoffset' \in Nat /\ open' \in Nat
        /\ argbuildsz' \in [Funcs -> Nat]
        /\ pushed' \in [Funcs -> SUBSET Nat]
    BY <1>11 DEF EndCall, ArgBuildSize, TypeOK, Funcs
  <2> QED
    BY <1>11, <2>1 DEF EndCall, ArgBuildSize, NewAddr, TypeOK, Kinds
<1>12. CASE EndFunction
  <2>1. FinalSize \in Nat /\ \A a \in Addr : ResolvedOffset(a) \in Int
    BY <1>12, FinalSizeType DEF EndFunction
  <2>2. size' \in [Funcs -> Nat] /\ off' \in [Addr -> Int]
    BY <1>12, <2>1 DEF EndFunction, TypeOK
  <2> QED
    BY <1>12, <2>2 DEF EndFunction, TypeOK, Phases
<1>13. CASE UNCHANGED vars
  BY <1>13 DEF vars, TypeOK
<1> QED
  BY <1>1, <1>2, <1>3, <1>4, <1>5, <1>6, <1>7, <1>8, <1>9, <1>10, <1>11,
     <1>12, <1>13 DEF Next

\* The layout state is well typed in every reachable state: frame sizes and
\* m_curoffset never go negative, and each QuadAddr belongs to a function of
\* the translation unit.
THEOREM TypeCorrect == Spec => []TypeOK
<1> DEFINE Typed == TypeOK /\ (phase # "unit" => curfunc # 0)
<1>1. Init => Typed
  BY ConstantsAssumption DEF Init, TypeOK, Phases, Kinds, Funcs
<1>2. Typed /\ [Next]_vars => Typed'
  BY TypeStep
<1> QED
  BY <1>1, <1>2, PTL DEF Spec

(***************************************************************************)
(* What the actions do to each single QuadAddr                             *)
(***************************************************************************)

\* NewAddr changes the fields of the new QuadAddr and of no other.
LEMMA NewAddrAt ==
  ASSUME TypeOK, NEW a \in Addr, NEW k, NEW b, NEW w, NEW o,
         NewAddr(a, k, b, w, o)
  PROVE  /\ kind[a] = "free"
         /\ kind'[a] = k /\ owner'[a] = curfunc /\ base'[a] = b
         /\ width'[a] = w /\ off'[a] = o
         /\ \A x \in Addr \ {a} : /\ kind'[x] = kind[x] /\ owner'[x] = owner[x]
                                /\ base'[x] = base[x] /\ width'[x] = width[x]
                                /\ off'[x] = off[x]
         /\ resolved' = resolved
BY DEF NewAddr, TypeOK, IsFree

\* AllocReg binds at most the QuadAddr it is given, to a free register.
LEMMA AllocRegAt ==
  ASSUME TypeOK, NEW a \in Addr, AllocReg(a)
  PROVE  /\ \A x \in Addr \ {a} : bind'[x] = bind[x]
         /\ bind'[a] = bind[a] \/ bind'[a] \in FreeRegs
BY DEF AllocReg, TypeOK

\* The resolution pass gives each operand in the function's quadruples its
\* final offset unless it has one, and touches nothing else.
LEMMA EndFunctionAt ==
  ASSUME TypeOK, PhaseInv, EndFunction
  PROVE  /\ curfunc \in Funcs
         /\ size'[curfunc] = size[curfunc] + curoffset + argbuildsz[curfunc]
         /\ \A f \in Funcs \ {curfunc} : size'[f] = size[f]
         /\ \A x \in Addr :
              /\ resolved'[x] <=> resolved[x] \/ x \in used
              /\ x \notin used \/ resolved[x] => off'[x] = off[x]
              /\ x \in used /\ ~resolved[x] /\ kind[x] = "param" =>
                   off'[x] = size'[curfunc] + off[x]
              /\ x \in used /\ ~resolved[x] /\ kind[x] # "param" =>
                   off'[x] = curoffset + argbuildsz[curfunc] - off[x]
<1>1. /\ curfunc \in Funcs
      /\ size[curfunc] \in Nat /\ argbuildsz[curfunc] \in Nat /\ curoffset \in Nat
  BY ConstantsAssumption DEF TypeOK, Funcs, PhaseInv, EndFunction
<1>2. /\ size'[curfunc] = FinalSize
      /\ \A f \in Funcs \ {curfunc} : size'[f] = size[f]
  BY <1>1 DEF EndFunction, TypeOK
<1>3. \A x \in Addr : off[x] \in Int
  BY DEF TypeOK
<1>4. \A x \in Addr :
        off'[x] = IF x \in used /\ ~resolved[x] THEN ResolvedOffset(x) ELSE off[x]
  BY DEF EndFunction, ToResolve
<1>5. \A x \in Addr : resolved'[x] <=> resolved[x] \/ x \in used
  BY DEF EndFunction
<1> QED
  BY <1>1, <1>2, <1>3, <1>4, <1>5 DEF ResolvedOffset, FinalSize

\* An operand that belongs to a function is unresolved while that function
\* is being visited, and is not in the quadruples of any other.
LEMMA Owned ==
  ASSUME IInv, NEW x \in Addr, kind[x] \in {"param", "local", "temp", "array"}
  PROVE  /\ owner[x] \in Funcs
         /\ owner[x] = curfunc /\ phase # "unit" => IsLive(x) /\ ~resolved[x]
         /\ owner[x] # curfunc => x \notin used
         /\ IsLive(x) /\ kind[x] = "param" => x \in used
<1>1. owner[x] \in 0 .. MaxFuncs /\ curfunc \in 0 .. MaxFuncs
  BY DEF IInv, TypeOK
<1>2. /\ owner[x] # 0
      /\ resolved[x] => Done(owner[x])
      /\ x \in used => owner[x] = curfunc
      /\ IsLive(x) /\ kind[x] = "param" => x \in used
  BY DEF IInv, OwnerInv
<1>3. ~(curfunc < curfunc)
  BY <1>1
<1> QED
  BY <1>1, <1>2, <1>3, ConstantsAssumption DEF Funcs, Done, IsLive

\* The sizes kept for every function are whole words.
LEMMA WholeWords ==
  ASSUME IInv
  PROVE  /\ curoffset \in Nat /\ curoffset % 4 = 0
         /\ \A f \in Funcs : /\ size[f] \in Nat /\ size[f] % 4 = 0
                             /\ argbuildsz[f] \in Nat /\ argbuildsz[f] % 4 = 0
                             /\ mask[f] => size[f] >= 4
<1>1. TypeOK /\ SizeInv
  BY DEF IInv
<1>2. /\ curoffset \in Nat
      /\ \A f \in Funcs : size[f] \in Nat /\ argbuildsz[f] \in Nat
  BY <1>1 DEF TypeOK
<1> QED
  BY <1>1, <1>2 DEF SizeInv

(***************************************************************************)
(* The inductive invariant, conjunct by conjunct                           *)
(***************************************************************************)

\* The phase of the visitor agrees with its counters.
LEMMA PhaseInvStep ==
  ASSUME IInv, TypeOK', [Next]_vars
  PROVE  PhaseInv'
<1> USE ConstantsAssumption DEF PhaseInv, IsLive, Done, IsFree, InFrame, SaveSize
<1>1. ASSUME NEW a \in Addr, NEW w \in Widths, VisitGlobal(a, w)
      PROVE  PhaseInv'
  BY <1>1, NewAddrAt DEF VisitGlobal, IInv, TypeOK, funcVars, addrVars
<1>2. CASE StartFunction
  BY <1>2 DEF StartFunction, IInv, TypeOK, funcVars, addrVars
<1>3. ASSUME NEW a \in Addr, VisitParmVarDecl(a)
      PROVE  PhaseInv'
  BY <1>3, NewAddrAt DEF VisitParmVarDecl, IInv, TypeOK, funcVars, addrVars
<1>4. CASE VisitDecls
  BY <1>4 DEF VisitDecls, IInv, TypeOK, funcVars, addrVars
<1>5. CASE VisitStmts
  BY <1>5 DEF VisitStmts, IInv, TypeOK, funcVars, addrVars
<1>6. ASSUME NEW a \in Addr, NEW w \in Widths, NEW c \in BOOLEAN,
             VisitVarDecl(a, w, c)
      PROVE  PhaseInv'
  BY <1>6, NewAddrAt DEF VisitVarDecl, IInv, TypeOK, funcVars, addrVars
<1>7. ASSUME NEW a \in Addr, NewTemp(a)
      PROVE  PhaseInv'
  BY <1>7, NewAddrAt DEF NewTemp, IInv, TypeOK, funcVars, addrVars
<1>8. ASSUME NEW a \in Addr, UseAddr(a)
      PROVE  PhaseInv'
  BY <1>8 DEF UseAddr, IInv, TypeOK, funcVars, addrVars
<1>9. ASSUME NEW a \in Addr, NEW v \in Addr, VisitArraySubscriptExpr(a, v)
      PROVE  PhaseInv'
  BY <1>9, NewAddrAt DEF VisitArraySubscriptExpr, IInv, TypeOK, funcVars, addrVars
<1>10. CASE BeginCall
  BY <1>10 DEF BeginCall, IInv, TypeOK, funcVars, addrVars
<1>11. ASSUME NEW a \in Addr, NEW n \in 0 .. MaxArgs, EndCall(n, a)
      PROVE  PhaseInv'
  BY <1>11, NewAddrAt DEF EndCall, ArgBuildSize, IInv, TypeOK, funcVars, addrVars
<1>12. CASE EndFunction
  BY <1>12, EndFunctionAt DEF EndFunction, IInv, TypeOK, funcVars, addrVars
<1>13. CASE UNCHANGED vars
  BY <1>13 DEF vars, IInv, TypeOK, funcVars, addrVars
<1> QED
  BY <1>1, <1>2, <1>3, <1>4, <1>5, <1>6, <1>7,
     <1>8, <1>9, <1>10, <1>11, <1>12, <1>13 DEF Next

\* Only the operands of finished functions are resolved.
LEMMA OwnerInvStep ==
  ASSUME IInv, TypeOK', [Next]_vars
  PROVE  OwnerInv'
<1> USE ConstantsAssumption DEF OwnerInv, IsLive, Done, IsFree, InFrame, SaveSize
<1>1. ASSUME NEW a \in Addr, NEW w \in Widths, VisitGlobal(a, w)
      PROVE  OwnerInv'
  BY <1>1, NewAddrAt DEF VisitGlobal, IInv, TypeOK, PhaseInv, funcVars, addrVars
<1>2. CASE StartFunction
  BY <1>2 DEF StartFunction, IInv, TypeOK, PhaseInv, funcVars, addrVars
<1>3. ASSUME NEW a \in Addr, VisitParmVarDecl(a)
      PROVE  OwnerInv'
  BY <1>3, NewAddrAt, AllocRegAt DEF VisitParmVarDecl, IInv, TypeOK, PhaseInv, funcVars, addrVars
<1>4. CASE VisitDecls
  BY <1>4 DEF VisitDecls, IInv, TypeOK, PhaseInv, funcVars, addrVars
<1>5. CASE VisitStmts
  BY <1>5 DEF VisitStmts, IInv, TypeOK, PhaseInv, funcVars, addrVars
<1>6. ASSUME NEW a \in Addr, NEW w \in Widths, NEW c \in BOOLEAN,
             VisitVarDecl(a, w, c)
      PROVE  OwnerInv'
  BY <1>6, NewAddrAt, AllocRegAt DEF VisitVarDecl, IInv, TypeOK, PhaseInv, funcVars, addrVars
<1>7. ASSUME NEW a \in Addr, NewTemp(a)
      PROVE  OwnerInv'
  BY <1>7, NewAddrAt DEF NewTemp, IInv, TypeOK, PhaseInv, funcVars, addrVars
<1>8. ASSUME NEW a \in Addr, UseAddr(a)
      PROVE  OwnerInv'
  BY <1>8 DEF UseAddr, IInv, TypeOK, PhaseInv, funcVars, addrVars
<1>9. ASSUME NEW a \in Addr, NEW v \in Addr, VisitArraySubscriptExpr(a, v)
      PROVE  OwnerInv'
  BY <1>9, NewAddrAt DEF VisitArraySubscriptExpr, IInv, TypeOK, PhaseInv, funcVars, addrVars
<1>10. CASE BeginCall
  BY <1>10 DEF BeginCall, IInv, TypeOK, PhaseInv, funcVars, addrVars
<1>11. ASSUME NEW a \in Addr, NEW n \in 0 .. MaxArgs, EndCall(n, a)
      PROVE  OwnerInv'
  BY <1>11, NewAddrAt DEF EndCall, ArgBuildSize, IInv, TypeOK, PhaseInv, funcVars, addrVars
<1>12. CASE EndFunction
  BY <1>12, EndFunctionAt DEF EndFunction, IInv, TypeOK, PhaseInv, funcVars, addrVars
<1>13. CASE UNCHANGED vars
  BY <1>13 DEF vars, IInv, TypeOK, PhaseInv, funcVars, addrVars
<1> QED
  BY <1>1, <1>2, <1>3, <1>4, <1>5, <1>6, <1>7,
     <1>8, <1>9, <1>10, <1>11, <1>12, <1>13 DEF Next

\* Multiples of four add up to multiples of four.
LEMMA AddMultiples ==
  ASSUME NEW m \in Nat, NEW n \in Nat, m % 4 = 0, n % 4 = 0
  PROVE  (m + n) % 4 = 0
OBVIOUS

LEMMA FourTimes ==
  ASSUME NEW n \in Nat
  PROVE  4 * n \in Nat /\ (4 * n) % 4 = 0
OBVIOUS

\* Sizes stay multiples of four, with room for a saved $ra.
LEMMA SizeInvStep ==
  ASSUME IInv, TypeOK', [Next]_vars
  PROVE  SizeInv'
<1> USE ConstantsAssumption DEF SizeInv, IsLive, Done, IsFree, InFrame, SaveSize
<1>1. ASSUME NEW a \in Addr, NEW w \in Widths, VisitGlobal(a, w)
      PROVE  SizeInv'
  BY <1>1, NewAddrAt DEF VisitGlobal, IInv, TypeOK, PhaseInv, Funcs, funcVars, addrVars
<1>2. CASE StartFunction
  BY <1>2 DEF StartFunction, IInv, TypeOK, PhaseInv, Funcs, funcVars, addrVars
<1>3. ASSUME NEW a \in Addr, VisitParmVarDecl(a)
      PROVE  SizeInv'
  BY <1>3, NewAddrAt DEF VisitParmVarDecl, IInv, TypeOK, PhaseInv, Funcs, funcVars, addrVars
<1>4. CASE VisitDecls
  BY <1>4 DEF VisitDecls, IInv, TypeOK, PhaseInv, Funcs, funcVars, addrVars
<1>5. CASE VisitStmts
  BY <1>5 DEF VisitStmts, IInv, TypeOK, PhaseInv, Funcs, funcVars, addrVars
<1>6. ASSUME NEW a \in Addr, NEW w \in Widths, NEW c \in BOOLEAN,
             VisitVarDecl(a, w, c)
      PROVE  SizeInv'
  <2>1. w \in Nat /\ w % 4 = 0 /\ curoffset \in Nat /\ curoffset % 4 = 0
    BY DEF IInv, TypeOK
  <2>2. curoffset' % 4 = 0
    BY <1>6, <2>1, AddMultiples DEF VisitVarDecl
  <2> QED
    BY <1>6, <2>2 DEF VisitVarDecl, IInv, funcVars
<1>7. ASSUME NEW a \in Addr, NewTemp(a)
      PROVE  SizeInv'
  BY <1>7, NewAddrAt DEF NewTemp, IInv, TypeOK, PhaseInv, Funcs, funcVars, addrVars
<1>8. ASSUME NEW a \in Addr, UseAddr(a)
      PROVE  SizeInv'
  BY <1>8 DEF UseAddr, IInv, TypeOK, PhaseInv, Funcs, funcVars, addrVars
<1>9. ASSUME NEW a \in Addr, NEW v \in Addr, VisitArraySubscriptExpr(a, v)
      PROVE  SizeInv'
  BY <1>9, NewAddrAt DEF VisitArraySubscriptExpr, IInv, TypeOK, PhaseInv, Funcs, funcVars, addrVars
<1>10. CASE BeginCall
  <2>1. curfunc \in Funcs
    BY <1>10 DEF BeginCall, IInv, TypeOK, PhaseInv, Funcs
  <2>2. size[curfunc] \in Nat /\ size[curfunc] % 4 = 0
    BY <2>1, WholeWords
  <2>3. (size[curfunc] + 4) % 4 = 0 /\ size[curfunc] + 4 >= 4
    BY <2>2
  <2>4. size' = [size EXCEPT ![curfunc] = size[curfunc] + 4]
        /\ mask' = [mask EXCEPT ![curfunc] = TRUE]
        /\ curoffset' = curoffset /\ argbuildsz' = argbuildsz
    BY <1>10 DEF BeginCall
  <2>5. size \in [Funcs -> Nat] /\ mask \in [Funcs -> BOOLEAN]
    BY DEF IInv, TypeOK
  <2>6. size'[curfunc] % 4 = 0 /\ size'[curfunc] >= 4
    BY <2>1, <2>3, <2>4, <2>5
  <2>7. \A f \in Funcs \ {curfunc} : size'[f] = size[f] /\ mask'[f] = mask[f]
    BY <2>4, <2>5
  <2>8. \A f \in Funcs : size'[f] % 4 = 0 /\ (mask'[f] => size'[f] >= 4)
    BY <2>6, <2>7, WholeWords
  <2> QED
    BY <2>4, <2>8, WholeWords
<1>11. ASSUME NEW a \in Addr, NEW n \in 0 .. MaxArgs, EndCall(n, a)
      PROVE  SizeInv'
  <2>1. n \in Nat
    OBVIOUS
  <2>2. \A f \in Funcs : argbuildsz'[f] = argbuildsz[f] \/ argbuildsz'[f] = 4 * n
    BY <1>11 DEF EndCall, ArgBuildSize, IInv, TypeOK
  <2>3. curoffset' % 4 = 0
    BY <1>11 DEF EndCall, ArgBuildSize, IInv, TypeOK
  <2>4. (4 * n) % 4 = 0
    BY <2>1, FourTimes
  <2>5. \A f \in Funcs : argbuildsz'[f] % 4 = 0
    BY <2>2, <2>4, WholeWords
  <2>6. size' = size /\ mask' = mask
    BY <1>11 DEF EndCall, ArgBuildSize
  <2> QED
    BY <2>3, <2>5, <2>6, WholeWords
<1>12. CASE EndFunction
  <2>1. curfunc \in Funcs /\ mask' = mask /\ argbuildsz' = argbuildsz /\ curoffset' = 0
    BY <1>12, EndFunctionAt DEF IInv, EndFunction
  <2>2. /\ size[curfunc] \in Nat /\ curoffset \in Nat /\ argbuildsz[curfunc] \in Nat
        /\ size[curfunc] % 4 = 0 /\ curoffset % 4 = 0 /\ argbuildsz[curfunc] % 4 = 0
    BY <2>1, WholeWords
  <2>3. size'[curfunc] % 4 = 0 /\ size'[curfunc] >= size[curfunc]
    <3>1. size'[curfunc] = (size[curfunc] + curoffset) + argbuildsz[curfunc]
      BY <1>12, EndFunctionAt DEF IInv
    <3>2. (size[curfunc] + curoffset) % 4 = 0 /\ size[curfunc] + curoffset \in Nat
      BY <2>2, AddMultiples
    <3>3. size'[curfunc] % 4 = 0
      BY <2>2, <3>1, <3>2, AddMultiples
    <3> QED
      BY <2>2, <3>1, <3>3
  <2>4. \A f \in Funcs : size'[f] % 4 = 0 /\ (mask[f] => size'[f] >= 4)
    <3>1. ASSUME NEW f \in Funcs, f # curfunc
          PROVE  size'[f] = size[f]
      BY <1>12, <3>1, EndFunctionAt DEF IInv
    <3>2. size'[curfunc] \in Nat
      BY <2>1 DEF TypeOK
    <3>3. mask[curfunc] => size[curfunc] >= 4
      BY <2>1, WholeWords
    <3>4. mask[curfunc] => size'[curfunc] >= 4
      BY <2>2, <2>3, <3>2, <3>3
    <3> QED
      BY <2>3, <3>1, <3>4, WholeWords
  <2>5. \A f \in Funcs : argbuildsz[f] % 4 = 0
    BY WholeWords
  <2> QED
    BY <2>1, <2>4, <2>5
<1>13. CASE UNCHANGED vars
  BY <1>13 DEF vars, IInv, TypeOK, PhaseInv, Funcs, funcVars, addrVars
<1> QED
  BY <1>1, <1>2, <1>3, <1>4, <1>5, <1>6, <1>7,
     <1>8, <1>9, <1>10, <1>11, <1>12, <1>13 DEF Next

\* A slot allocated above m_curoffset keeps the slots of the live function
\* side by side.
LEMMA NewSlot ==
  ASSUME IInv, phase # "unit", NEW a \in Addr, NEW w \in Nat,
         NEW k \in {"local", "temp"}, NewAddr(a, k, a, w, curoffset + w),
         curoffset' = curoffset + w, UNCHANGED << phase, curfunc >>
  PROVE  SlotInv'
<1> USE DEF InFrame, IsLive
<1>1. /\ kind[a] = "free"
      /\ kind'[a] = k /\ width'[a] = w /\ off'[a] = curoffset + w
      /\ \A x \in Addr \ {a} : /\ kind'[x] = kind[x] /\ owner'[x] = owner[x]
                             /\ width'[x] = width[x] /\ off'[x] = off[x]
  BY NewAddrAt DEF IInv
<1>2. curoffset \in Nat /\ \A x \in Addr : width[x] \in Nat /\ off[x] \in Int
  BY DEF IInv, TypeOK
<1>3. ASSUME NEW x \in Addr, InFrame(x)', IsLive(x)'
      PROVE  width'[x] <= off'[x] /\ off'[x] <= curoffset'
  <2>1. CASE x = a
    BY <1>1, <1>2, <2>1
  <2>2. CASE x # a
    BY <1>1, <1>2, <1>3, <2>2 DEF IInv, SlotInv
  <2> QED
    BY <2>1, <2>2
<1>4. ASSUME NEW x \in Addr, NEW y \in Addr, x # y,
             kind'[x] \in {"local", "temp"}, kind'[y] \in {"local", "temp"},
             IsLive(x)', IsLive(y)'
      PROVE  off'[x] <= off'[y] - width'[y] \/ off'[y] <= off'[x] - width'[x]
  <2>1. \A z \in Addr \ {a} : InFrame(z)' /\ IsLive(z)' => off'[z] <= curoffset
    BY <1>1 DEF IInv, SlotInv
  <2>2. CASE x = a \/ y = a
    BY <1>1, <1>2, <1>4, <2>1, <2>2
  <2>3. CASE x # a /\ y # a
    BY <1>1, <1>2, <1>4, <2>3 DEF IInv, SlotInv
  <2> QED
    BY <2>2, <2>3
<1> QED
  BY <1>3, <1>4 DEF SlotInv

\* The slots of the live function stay side by side.
LEMMA SlotInvStep ==
  ASSUME IInv, TypeOK', [Next]_vars
  PROVE  SlotInv'
<1> USE ConstantsAssumption DEF SlotInv, IsLive, Done, IsFree, InFrame, SaveSize
<1>1. ASSUME NEW a \in Addr, NEW w \in Widths, VisitGlobal(a, w)
      PROVE  SlotInv'
  BY <1>1, NewAddrAt DEF VisitGlobal, IInv, TypeOK, OwnerInv, PhaseInv, funcVars, addrVars
<1>2. CASE StartFunction
  BY <1>2 DEF StartFunction, IInv, TypeOK, OwnerInv, PhaseInv, funcVars, addrVars
<1>3. ASSUME NEW a \in Addr, VisitParmVarDecl(a)
      PROVE  SlotInv'
  <2>1. /\ kind[a] = "free" /\ kind'[a] = "param"
        /\ \A x \in Addr \ {a} : /\ kind'[x] = kind[x] /\ owner'[x] = owner[x]
                               /\ width'[x] = width[x] /\ off'[x] = off[x]
        /\ phase' = phase /\ curfunc' = curfunc /\ curoffset' = curoffset + 4
    BY <1>3, NewAddrAt DEF IInv, VisitParmVarDecl
  <2>2. curoffset \in Nat /\ \A x \in Addr : off[x] \in Int
    BY DEF IInv, TypeOK
  <2>3. \A x \in Addr : InFrame(x)' => x # a
    BY <2>1
  <2> QED
    BY <2>1, <2>2, <2>3 DEF IInv
<1>4. CASE VisitDecls
  BY <1>4 DEF VisitDecls, IInv, TypeOK, OwnerInv, PhaseInv, funcVars, addrVars
<1>5. CASE VisitStmts
  BY <1>5 DEF VisitStmts, IInv, TypeOK, OwnerInv, PhaseInv, funcVars, addrVars
<1>6. ASSUME NEW a \in Addr, NEW w \in Widths, NEW c \in BOOLEAN,
             VisitVarDecl(a, w, c)
      PROVE  SlotInv'
  BY <1>6, NewSlot DEF VisitVarDecl
<1>7. ASSUME NEW a \in Addr, NewTemp(a)
      PROVE  SlotInv'
  BY <1>7, NewSlot DEF NewTemp
<1>8. ASSUME NEW a \in Addr, UseAddr(a)
      PROVE  SlotInv'
  BY <1>8 DEF UseAddr, IInv, TypeOK, OwnerInv, PhaseInv, funcVars, addrVars
<1>9. ASSUME NEW a \in Addr, NEW v \in Addr, VisitArraySubscriptExpr(a, v)
      PROVE  SlotInv'
  <2>1. /\ kind[a] = "free" /\ kind'[a] \in {"global", "array"}
        /\ kind'[a] = "array" => kind[v] = "local" /\ owner[v] = curfunc
        /\ owner'[a] = curfunc /\ width'[a] = width[v] /\ off'[a] = off[v]
        /\ \A x \in Addr \ {a} : /\ kind'[x] = kind[x] /\ owner'[x] = owner[x]
                               /\ width'[x] = width[x] /\ off'[x] = off[x]
        /\ phase' = phase /\ curfunc' = curfunc /\ curoffset' = curoffset
        /\ phase # "unit"
    BY <1>9, NewAddrAt DEF IInv, VisitArraySubscriptExpr
  <2> QED
    BY <2>1 DEF IInv
<1>10. CASE BeginCall
  BY <1>10 DEF BeginCall, IInv, TypeOK, OwnerInv, PhaseInv, funcVars, addrVars
<1>11. ASSUME NEW a \in Addr, NEW n \in 0 .. MaxArgs, EndCall(n, a)
      PROVE  SlotInv'
  BY <1>11, NewSlot DEF EndCall, ArgBuildSize
<1>12. CASE EndFunction
  BY <1>12, EndFunctionAt DEF EndFunction, IInv, TypeOK, OwnerInv, PhaseInv, funcVars, addrVars
<1>13. CASE UNCHANGED vars
  BY <1>13 DEF vars, IInv, TypeOK, OwnerInv, PhaseInv, funcVars, addrVars
<1> QED
  BY <1>1, <1>2, <1>3, <1>4, <1>5, <1>6, <1>7,
     <1>8, <1>9, <1>10, <1>11, <1>12, <1>13 DEF Next

\* A QuadAddr that is no parameter leaves the numbering of the live
\* function's parameters as it is.
LEMMA NewNonParam ==
  ASSUME IInv, NEW a \in Addr, NEW k \in Kinds \ {"param"}, NEW b, NEW w, NEW o,
         NewAddr(a, k, b, w, o), curoffset' \in Nat, curoffset <= curoffset',
         UNCHANGED << phase, curfunc >>
  PROVE  ParamInv'
<1> USE DEF IsLive
<1>1. /\ kind[a] = "free" /\ kind'[a] = k
      /\ \A x \in Addr \ {a} : /\ kind'[x] = kind[x] /\ owner'[x] = owner[x]
                             /\ off'[x] = off[x]
  BY NewAddrAt DEF IInv
<1>2. \A x \in Addr : /\ kind'[x] = "param" <=> kind[x] = "param"
                      /\ kind[x] = "param" => x # a
  BY <1>1
<1>3. curoffset \in Nat /\ \A x \in Addr : off[x] \in Int
  BY DEF IInv, TypeOK
<1> SUFFICES ASSUME NEW x \in Addr, kind[x] = "param", IsLive(x)
             PROVE  /\ 0 <= off[x] /\ off[x] + 4 <= curoffset'
                    /\ \/ off[x] = 0
                       \/ \E y \in Addr : /\ kind[y] = "param" /\ IsLive(y)
                                          /\ off[y] + 4 = off[x]
                    /\ \A y \in Addr : kind[y] = "param" /\ IsLive(y) /\ off[y] = off[x]
                                      => y = x
  BY <1>1, <1>2 DEF ParamInv
<1> QED
  BY <1>3 DEF IInv, ParamInv

\* The parameters of the live function stay numbered 0, 4, 8, ...
LEMMA ParamInvStep ==
  ASSUME IInv, TypeOK', [Next]_vars
  PROVE  ParamInv'
<1> USE ConstantsAssumption DEF ParamInv, IsLive, Done, IsFree, InFrame, SaveSize
<1>1. ASSUME NEW a \in Addr, NEW w \in Widths, VisitGlobal(a, w)
      PROVE  ParamInv'
  BY <1>1, NewAddrAt DEF VisitGlobal, IInv, TypeOK, OwnerInv, PhaseInv, funcVars, addrVars
<1>2. CASE StartFunction
  BY <1>2 DEF StartFunction, IInv, TypeOK, OwnerInv, PhaseInv, funcVars, addrVars
<1>3. ASSUME NEW a \in Addr, VisitParmVarDecl(a)
      PROVE  ParamInv'
  <2>1. /\ kind[a] = "free" /\ kind'[a] = "param"
        /\ owner'[a] = curfunc /\ off'[a] = curoffset
        /\ \A x \in Addr \ {a} : /\ kind'[x] = kind[x] /\ owner'[x] = owner[x]
                               /\ off'[x] = off[x]
        /\ phase' = phase /\ curfunc' = curfunc /\ curoffset' = curoffset + 4
        /\ phase = "params"
    BY <1>3, NewAddrAt DEF IInv, VisitParmVarDecl
  <2>2. curoffset \in Nat /\ \A x \in Addr : off[x] \in Int
    BY DEF IInv, TypeOK
  <2>3. \A x \in Addr \ {a} : kind[x] = "param" /\ IsLive(x) => off[x] + 4 <= curoffset
    BY DEF IInv
  <2>4. ASSUME NEW x \in Addr, x # a, kind[x] = "param", IsLive(x)
        PROVE  /\ 0 <= off[x] /\ off[x] + 4 <= curoffset'
               /\ \/ off[x] = 0
                  \/ \E y \in Addr : /\ kind'[y] = "param" /\ IsLive(y)'
                                     /\ off'[y] + 4 = off'[x]
               /\ \A y \in Addr : /\ kind'[y] = "param" /\ IsLive(y)'
                                  /\ off'[y] = off'[x]
                                 => y = x
    <3>1. off[x] # curoffset
      BY <2>2, <2>3, <2>4
    <3>2. \A y \in Addr : kind[y] = "param" => y # a
      BY <2>1
    <3> QED
      BY <2>1, <2>2, <2>4, <3>1, <3>2 DEF IInv
  <2>5. /\ \/ curoffset = 0
           \/ \E y \in Addr : /\ kind'[y] = "param" /\ IsLive(y)'
                              /\ off'[y] + 4 = off'[a]
        /\ \A y \in Addr : /\ kind'[y] = "param" /\ IsLive(y)'
                           /\ off'[y] = off'[a]
                          => y = a
    <3>1. \/ curoffset = 0
          \/ \E y \in Addr \ {a} : /\ kind[y] = "param" /\ IsLive(y)
                                   /\ off[y] + 4 = curoffset
      BY <2>1 DEF IInv, PhaseInv
    <3> QED
      BY <2>1, <2>2, <2>3, <3>1
  <2> QED
    BY <2>1, <2>2, <2>4, <2>5
<1>4. CASE VisitDecls
  BY <1>4 DEF VisitDecls, IInv, TypeOK, OwnerInv, PhaseInv, funcVars, addrVars
<1>5. CASE VisitStmts
  BY <1>5 DEF VisitStmts, IInv, TypeOK, OwnerInv, PhaseInv, funcVars, addrVars
<1>6. ASSUME NEW a \in Addr, NEW w \in Widths, NEW c \in BOOLEAN,
             VisitVarDecl(a, w, c)
      PROVE  ParamInv'
  <2>1. curoffset' \in Nat /\ curoffset <= curoffset'
    BY <1>6 DEF VisitVarDecl, IInv, TypeOK
  <2> QED
    BY <1>6, <2>1, NewNonParam DEF VisitVarDecl, Kinds
<1>7. ASSUME NEW a \in Addr, NewTemp(a)
      PROVE  ParamInv'
  <2>1. curoffset' \in Nat /\ curoffset <= curoffset'
    BY <1>7 DEF NewTemp, IInv, TypeOK
  <2> QED
    BY <1>7, <2>1, NewNonParam DEF NewTemp, Kinds
<1>8. ASSUME NEW a \in Addr, UseAddr(a)
      PROVE  ParamInv'
  BY <1>8 DEF UseAddr, IInv, TypeOK, OwnerInv, PhaseInv, funcVars, addrVars
<1>9. ASSUME NEW a \in Addr, NEW v \in Addr, VisitArraySubscriptExpr(a, v)
      PROVE  ParamInv'
  <2>1. curoffset' \in Nat /\ curoffset <= curoffset'
    BY <1>9 DEF VisitArraySubscriptExpr, IInv, TypeOK
  <2>2. CASE kind[v] = "global"
    BY <1>9, <2>1, <2>2, NewNonParam DEF VisitArraySubscriptExpr, Kinds
  <2>3. CASE kind[v] # "global"
    BY <1>9, <2>1, <2>3, NewNonParam DEF VisitArraySubscriptExpr, Kinds
  <2> QED
    BY <2>2, <2>3
<1>10. CASE BeginCall
  BY <1>10 DEF BeginCall, IInv, TypeOK, OwnerInv, PhaseInv, funcVars, addrVars
<1>11. ASSUME NEW a \in Addr, NEW n \in 0 .. MaxArgs, EndCall(n, a)
      PROVE  ParamInv'
  <2>1. curoffset' \in Nat /\ curoffset <= curoffset'
    BY <1>11 DEF EndCall, ArgBuildSize, IInv, TypeOK
  <2> QED
    BY <1>11, <2>1, NewNonParam DEF EndCall, ArgBuildSize, Kinds
<1>12. CASE EndFunction
  BY <1>12, EndFunctionAt DEF EndFunction, IInv, TypeOK, OwnerInv, PhaseInv, funcVars, addrVars
<1>13. CASE UNCHANGED vars
  BY <1>13 DEF vars, IInv, TypeOK, OwnerInv, PhaseInv, funcVars, addrVars
<1> QED
  BY <1>1, <1>2, <1>3, <1>4, <1>5, <1>6, <1>7,
     <1>8, <1>9, <1>10, <1>11, <1>12, <1>13 DEF Next

\* A QuadAddr that is neither a variable nor an array operand leaves the
\* operands of every array as they are.
LEMMA NewNonArray ==
  ASSUME IInv, NEW a \in Addr, NEW k \in Kinds \ {"local", "array"},
         NEW b, NEW w, NEW o, NewAddr(a, k, b, w, o), k # "free"
  PROVE  ArrayInv'
<1>1. /\ kind[a] = "free" /\ kind'[a] = k /\ resolved' = resolved
      /\ \A x \in Addr \ {a} : /\ kind'[x] = kind[x] /\ owner'[x] = owner[x]
                             /\ base'[x] = base[x] /\ off'[x] = off[x]
  BY NewAddrAt DEF IInv
<1>2. \A x \in Addr : base[x] \in Addr
  BY DEF IInv, TypeOK
<1> QED
  BY <1>1, <1>2 DEF IInv, ArrayInv, IsFree

\* A local variable is not yet the base of any array operand, and an array
\* operand starts with the offset of the variable it is copied from.
LEMMA NewNamed ==
  ASSUME IInv, phase # "unit", NEW a \in Addr, NEW v \in Addr, NEW w, NEW o,
         \/ NewAddr(a, "local", v, w, o) /\ v = a
         \/ /\ NewAddr(a, "array", v, w, o) /\ o = off[v]
            /\ kind[v] = "local" /\ owner[v] = curfunc
  PROVE  ArrayInv'
<1>1. /\ kind[a] = "free" /\ kind'[a] \in {"local", "array"}
      /\ owner'[a] = curfunc /\ base'[a] = v /\ off'[a] = o
      /\ resolved' = resolved
      /\ \A x \in Addr \ {a} : /\ kind'[x] = kind[x] /\ owner'[x] = owner[x]
                             /\ base'[x] = base[x] /\ off'[x] = off[x]
  BY NewAddrAt DEF IInv
<1>2. \A x \in Addr : base[x] \in Addr
  BY DEF IInv, TypeOK
<1>3. kind'[a] = "local" => v = a
  BY <1>1, NewAddrAt DEF IInv
<1>4. kind'[a] = "array" => v # a /\ kind[v] = "local" /\ owner[v] = curfunc /\ o = off[v]
  BY <1>1, NewAddrAt DEF IInv
<1>5. ~resolved[a] /\ base[a] = a
  BY <1>1 DEF IInv, OwnerInv, ArrayInv, IsFree
<1>6. ASSUME NEW x \in Addr, x # a
      PROVE  /\ kind[x] \in {"local", "array"} => base[x] # a
             /\ kind'[a] = "array" /\ base[x] = v /\ kind[x] \in {"local", "array"}
                  /\ resolved[x] = resolved[a] => off[x] = off[v]
  <2>1. kind'[a] = "array" => ~resolved[v] /\ base[v] = v
    BY <1>1, <1>4 DEF IInv, OwnerInv, ArrayInv, PhaseInv, Done, TypeOK
  <2>2. ArrayInv
    BY DEF IInv
  <2>3. kind[x] = "array" => kind[base[x]] = "local"
    BY <2>2 DEF ArrayInv
  <2>4. kind[x] = "local" => base[x] = x
    BY <2>2 DEF ArrayInv
  <2>5. kind[x] \in {"local", "array"} => base[x] # a
    BY <1>1, <1>6, <2>3, <2>4
  <2>6. ASSUME kind'[a] = "array", base[x] = v, kind[x] \in {"local", "array"},
               resolved[x] = resolved[a]
        PROVE  off[x] = off[v]
    <3>1. kind[v] = "local" /\ base[v] = v /\ ~resolved[v]
      BY <1>4, <2>1, <2>6
    <3>2. resolved[x] = resolved[v]
      BY <1>5, <2>6, <3>1 DEF IInv, TypeOK
    <3> QED
      BY <2>2, <2>6, <3>1, <3>2 DEF ArrayInv
  <2> QED
    BY <2>5, <2>6
<1>7. \A x \in Addr :
        /\ kind'[x] = "array" => kind'[base'[x]] = "local" /\ owner'[base'[x]] = owner'[x]
        /\ IsFree(x)' \/ kind'[x] = "local" => base'[x] = x
  BY <1>1, <1>2, <1>3, <1>4, <1>6 DEF IInv, ArrayInv, IsFree
<1>8. ASSUME NEW x \in Addr, NEW y \in Addr,
             kind'[x] \in {"local", "array"}, kind'[y] \in {"local", "array"},
             base'[x] = base'[y], resolved'[x] = resolved'[y]
      PROVE  off'[x] = off'[y]
  <2>1. CASE x # a /\ y # a
    BY <1>1, <1>8, <2>1 DEF IInv, ArrayInv
  <2>2. CASE x = a \/ y = a
    BY <1>1, <1>3, <1>4, <1>5, <1>6, <1>8, <2>2
  <2> QED
    BY <2>1, <2>2
<1> QED
  BY <1>7, <1>8 DEF ArrayInv

\* The operands of one array agree at every step.
LEMMA ArrayInvStep ==
  ASSUME IInv, TypeOK', [Next]_vars
  PROVE  ArrayInv'
<1> USE ConstantsAssumption DEF ArrayInv, IsLive, Done, IsFree, InFrame, SaveSize
<1>1. ASSUME NEW a \in Addr, NEW w \in Widths, VisitGlobal(a, w)
      PROVE  ArrayInv'
  BY <1>1, NewAddrAt DEF VisitGlobal, IInv, TypeOK, OwnerInv, PhaseInv, funcVars, addrVars
<1>2. CASE StartFunction
  BY <1>2 DEF StartFunction, IInv, TypeOK, OwnerInv, PhaseInv, funcVars, addrVars
<1>3. ASSUME NEW a \in Addr, VisitParmVarDecl(a)
      PROVE  ArrayInv'
  BY <1>3, NewNonArray DEF VisitParmVarDecl, Kinds
<1>4. CASE VisitDecls
  BY <1>4 DEF VisitDecls, IInv, TypeOK, OwnerInv, PhaseInv, funcVars, addrVars
<1>5. CASE VisitStmts
  BY <1>5 DEF VisitStmts, IInv, TypeOK, OwnerInv, PhaseInv, funcVars, addrVars
<1>6. ASSUME NEW a \in Addr, NEW w \in Widths, NEW c \in BOOLEAN,
             VisitVarDecl(a, w, c)
      PROVE  ArrayInv'
  BY <1>6, NewNamed DEF VisitVarDecl
<1>7. ASSUME NEW a \in Addr, NewTemp(a)
      PROVE  ArrayInv'
  BY <1>7, NewAddrAt DEF NewTemp, IInv, TypeOK, OwnerInv, PhaseInv, funcVars, addrVars
<1>8. ASSUME NEW a \in Addr, UseAddr(a)
      PROVE  ArrayInv'
  BY <1>8 DEF UseAddr, IInv, TypeOK, OwnerInv, PhaseInv, funcVars, addrVars
<1>9. ASSUME NEW a \in Addr, NEW v \in Addr, VisitArraySubscriptExpr(a, v)
      PROVE  ArrayInv'
  <2>1. CASE kind[v] = "global"
    BY <1>9, <2>1, NewNonArray DEF VisitArraySubscriptExpr, Kinds
  <2>2. CASE kind[v] # "global"
    BY <1>9, <2>2, NewNamed DEF VisitArraySubscriptExpr
  <2> QED
    BY <2>1, <2>2
<1>10. CASE BeginCall
  BY <1>10 DEF BeginCall, IInv, TypeOK, OwnerInv, PhaseInv, funcVars, addrVars
<1>11. ASSUME NEW a \in Addr, NEW n \in 0 .. MaxArgs, EndCall(n, a)
      PROVE  ArrayInv'
  BY <1>11, NewAddrAt DEF EndCall, ArgBuildSize, IInv, TypeOK, OwnerInv, PhaseInv, funcVars, addrVars
<1>12. CASE EndFunction
  <2>1. kind' = kind /\ owner' = owner /\ base' = base
    BY <1>12 DEF EndFunction
  <2>2. ArrayInv
    BY DEF IInv
  <2> SUFFICES ASSUME NEW x \in Addr, NEW y \in Addr,
                      kind[x] \in {"local", "array"}, kind[y] \in {"local", "array"},
                      base[x] = base[y], resolved'[x] = resolved'[y]
               PROVE  off'[x] = off'[y]
    BY <2>1, <2>2
  <2>3. owner[x] = owner[y]
    BY <2>2
  <2>4. resolved[x] \in BOOLEAN /\ resolved[y] \in BOOLEAN
    BY DEF IInv, TypeOK
  <2>5. CASE owner[x] = curfunc
    <3>1. ~resolved[x] /\ ~resolved[y]
      BY <1>12, <2>3, <2>5, Owned DEF EndFunction
    <3>2. off[x] = off[y]
      BY <2>2, <2>4, <3>1
    <3>3. x \in used <=> y \in used
      BY <1>12, <3>1, EndFunctionAt DEF IInv
    <3> QED
      BY <1>12, <3>1, <3>2, <3>3, EndFunctionAt DEF IInv
  <2>6. CASE owner[x] # curfunc
    <3>1. x \notin used /\ y \notin used
      BY <2>3, <2>6, Owned
    <3>2. /\ resolved[x] <=> resolved[y]
          /\ off'[x] = off[x] /\ off'[y] = off[y]
      BY <1>12, <3>1, EndFunctionAt DEF IInv
    <3> QED
      BY <2>2, <2>4, <3>2
  <2> QED
    BY <2>5, <2>6
<1>13. CASE UNCHANGED vars
  BY <1>13 DEF vars, IInv, TypeOK, OwnerInv, PhaseInv, funcVars, addrVars
<1> QED
  BY <1>1, <1>2, <1>3, <1>4, <1>5, <1>6, <1>7,
     <1>8, <1>9, <1>10, <1>11, <1>12, <1>13 DEF Next

\* Resolving the slots of a function keeps them apart.
LEMMA NoOverlapStep ==
  ASSUME IInv, TypeOK', [Next]_vars
  PROVE  NoOverlap'
<1> USE ConstantsAssumption DEF NoOverlap, IsLive, Done, IsFree, InFrame, SaveSize
<1>1. ASSUME NEW a \in Addr, NEW w \in Widths, VisitGlobal(a, w)
      PROVE  NoOverlap'
  BY <1>1, NewAddrAt DEF VisitGlobal, IInv, TypeOK, OwnerInv, PhaseInv, SlotInv, funcVars, addrVars
<1>2. CASE StartFunction
  BY <1>2 DEF StartFunction, IInv, TypeOK, OwnerInv, PhaseInv, SlotInv, funcVars, addrVars
<1>3. ASSUME NEW a \in Addr, VisitParmVarDecl(a)
      PROVE  NoOverlap'
  BY <1>3, NewAddrAt DEF VisitParmVarDecl, IInv, TypeOK, OwnerInv, PhaseInv, SlotInv, funcVars, addrVars
<1>4. CASE VisitDecls
  BY <1>4 DEF VisitDecls, IInv, TypeOK, OwnerInv, PhaseInv, SlotInv, funcVars, addrVars
<1>5. CASE VisitStmts
  BY <1>5 DEF VisitStmts, IInv, TypeOK, OwnerInv, PhaseInv, SlotInv, funcVars, addrVars
<1>6. ASSUME NEW a \in Addr, NEW w \in Widths, NEW c \in BOOLEAN,
             VisitVarDecl(a, w, c)
      PROVE  NoOverlap'
  <2>1. /\ kind[a] = "free" /\ resolved' = resolved
        /\ \A x \in Addr \ {a} : /\ kind'[x] = kind[x] /\ owner'[x] = owner[x]
                               /\ width'[x] = width[x] /\ off'[x] = off[x]
    BY <1>6, NewAddrAt DEF IInv, VisitVarDecl
  <2>2. ~resolved'[a]
    BY <2>1 DEF IInv, OwnerInv
  <2> QED
    BY <2>1, <2>2 DEF IInv
<1>7. ASSUME NEW a \in Addr, NewTemp(a)
      PROVE  NoOverlap'
  BY <1>7, NewAddrAt DEF NewTemp, IInv, TypeOK, OwnerInv, PhaseInv, SlotInv, funcVars, addrVars
<1>8. ASSUME NEW a \in Addr, UseAddr(a)
      PROVE  NoOverlap'
  BY <1>8 DEF UseAddr, IInv, TypeOK, OwnerInv, PhaseInv, SlotInv, funcVars, addrVars
<1>9. ASSUME NEW a \in Addr, NEW v \in Addr, VisitArraySubscriptExpr(a, v)
      PROVE  NoOverlap'
  BY <1>9, NewAddrAt DEF VisitArraySubscriptExpr, IInv, TypeOK, OwnerInv, PhaseInv, SlotInv, funcVars, addrVars
<1>10. CASE BeginCall
  BY <1>10 DEF BeginCall, IInv, TypeOK, OwnerInv, PhaseInv, SlotInv, funcVars, addrVars
<1>11. ASSUME NEW a \in Addr, NEW n \in 0 .. MaxArgs, EndCall(n, a)
      PROVE  NoOverlap'
  BY <1>11, NewAddrAt DEF EndCall, ArgBuildSize, IInv, TypeOK, OwnerInv, PhaseInv, SlotInv, funcVars, addrVars
<1>12. CASE EndFunction
  <2> SUFFICES ASSUME NEW x \in Addr, NEW y \in Addr, x # y,
                      kind[x] \in {"local", "temp"}, kind[y] \in {"local", "temp"},
                      resolved'[x], resolved'[y], owner[x] = owner[y]
               PROVE  off'[x] + width[x] <= off'[y] \/ off'[y] + width[y] <= off'[x]
    BY <1>12 DEF EndFunction
  <2>1. /\ curfunc \in Funcs
        /\ curoffset \in Nat /\ argbuildsz[curfunc] \in Nat
        /\ off[x] \in Int /\ off[y] \in Int /\ width[x] \in Nat /\ width[y] \in Nat
    BY <1>12, EndFunctionAt DEF IInv, TypeOK
  <2>2. CASE owner[x] = curfunc
    <3>1. /\ IsLive(x) /\ IsLive(y)
          /\ ~resolved[x] /\ ~resolved[y]
      BY <1>12, <2>2, Owned DEF EndFunction
    <3>2. /\ off'[x] = curoffset + argbuildsz[curfunc] - off[x]
          /\ off'[y] = curoffset + argbuildsz[curfunc] - off[y]
      BY <1>12, <3>1, EndFunctionAt DEF IInv
    <3>3. off[x] <= off[y] - width[y] \/ off[y] <= off[x] - width[x]
      BY <3>1 DEF IInv, SlotInv
    <3> QED
      BY <2>1, <3>2, <3>3
  <2>3. CASE owner[x] # curfunc
    <3>1. x \notin used /\ y \notin used
      BY <2>3 DEF IInv, OwnerInv
    <3>2. /\ resolved[x] /\ resolved[y]
          /\ off'[x] = off[x] /\ off'[y] = off[y]
      BY <1>12, <3>1, EndFunctionAt DEF IInv
    <3> QED
      BY <3>2 DEF IInv
  <2> QED
    BY <2>2, <2>3
<1>13. CASE UNCHANGED vars
  BY <1>13 DEF vars, IInv, TypeOK, OwnerInv, PhaseInv, SlotInv, funcVars, addrVars
<1> QED
  BY <1>1, <1>2, <1>3, <1>4, <1>5, <1>6, <1>7,
     <1>8, <1>9, <1>10, <1>11, <1>12, <1>13 DEF Next

\* A new QuadAddr is not resolved, so the places of those that are do not
\* change with it.
LEMMA NewKeepsWithin ==
  ASSUME IInv, NEW a \in Addr, NEW k, NEW b, NEW w, NEW o,
         NewAddr(a, k, b, w, o), UNCHANGED << size, mask >>,
         \/ argbuildsz' = argbuildsz
         \/ /\ phase # "unit"
            /\ \A f \in Funcs \ {curfunc} : argbuildsz'[f] = argbuildsz[f]
  PROVE  WithinFrame'
<1>1. /\ IsFree(a) /\ resolved' = resolved
      /\ \A x \in Addr \ {a} : /\ kind'[x] = kind[x] /\ owner'[x] = owner[x]
                             /\ width'[x] = width[x] /\ off'[x] = off[x]
  BY NewAddrAt DEF IInv, IsFree
<1>2. ~resolved[a]
  BY <1>1 DEF IInv, OwnerInv, IsFree
<1> SUFFICES ASSUME NEW x \in Addr, x # a, InFrame(x), resolved[x]
             PROVE  /\ argbuildsz'[owner[x]] <= off[x]
                    /\ off[x] + width[x] <= size[owner[x]] - SaveSize(owner[x])
  BY <1>1, <1>2 DEF WithinFrame, InFrame, SaveSize
<1>3. /\ argbuildsz[owner[x]] <= off[x]
      /\ off[x] + width[x] <= size[owner[x]] - SaveSize(owner[x])
  BY DEF IInv, WithinFrame
<1>4. owner[x] \in Funcs /\ (phase # "unit" => owner[x] # curfunc)
  BY Owned DEF InFrame
<1> QED
  BY <1>3, <1>4

\* Resolved slots lie between the argument area and the saved $ra.
LEMMA WithinFrameStep ==
  ASSUME IInv, TypeOK', [Next]_vars
  PROVE  WithinFrame'
<1> USE ConstantsAssumption DEF WithinFrame, IsLive, Done, IsFree, InFrame, SaveSize
<1>1. ASSUME NEW a \in Addr, NEW w \in Widths, VisitGlobal(a, w)
      PROVE  WithinFrame'
  BY <1>1, NewKeepsWithin DEF VisitGlobal, funcVars
<1>2. CASE StartFunction
  <2>1. curfunc' = curfunc + 1 /\ curfunc \in 0 .. MaxFuncs
    BY <1>2 DEF StartFunction, IInv, TypeOK
  <2>2. \A x \in Addr : InFrame(x) => /\ owner[x] \in Funcs
                                      /\ owner[x] <= curfunc
    BY Owned DEF IInv, OwnerInv
  <2>3. \A x \in Addr : InFrame(x) => owner[x] # curfunc'
    BY <2>1, <2>2 DEF Funcs
  <2>4. \A f \in Funcs \ {curfunc'} : /\ size'[f] = size[f] /\ mask'[f] = mask[f]
                                      /\ argbuildsz'[f] = argbuildsz[f]
    BY <1>2 DEF StartFunction, IInv, TypeOK
  <2>5. WithinFrame
    BY DEF IInv
  <2> QED
    BY <1>2, <2>2, <2>3, <2>4, <2>5 DEF StartFunction, addrVars
<1>3. ASSUME NEW a \in Addr, VisitParmVarDecl(a)
      PROVE  WithinFrame'
  BY <1>3, NewKeepsWithin DEF VisitParmVarDecl, funcVars
<1>4. CASE VisitDecls
  BY Owned, <1>4 DEF VisitDecls, IInv, TypeOK, PhaseInv, funcVars, addrVars
<1>5. CASE VisitStmts
  BY Owned, <1>5 DEF VisitStmts, IInv, TypeOK, PhaseInv, funcVars, addrVars
<1>6. ASSUME NEW a \in Addr, NEW w \in Widths, NEW c \in BOOLEAN,
             VisitVarDecl(a, w, c)
      PROVE  WithinFrame'
  BY <1>6, NewKeepsWithin DEF VisitVarDecl, funcVars
<1>7. ASSUME NEW a \in Addr, NewTemp(a)
      PROVE  WithinFrame'
  BY <1>7, NewKeepsWithin DEF NewTemp, funcVars
<1>8. ASSUME NEW a \in Addr, UseAddr(a)
      PROVE  WithinFrame'
  BY Owned, <1>8 DEF UseAddr, IInv, TypeOK, PhaseInv, funcVars, addrVars
<1>9. ASSUME NEW a \in Addr, NEW v \in Addr, VisitArraySubscriptExpr(a, v)
      PROVE  WithinFrame'
  BY <1>9, NewKeepsWithin DEF VisitArraySubscriptExpr, funcVars
<1>10. CASE BeginCall
  BY Owned, <1>10 DEF BeginCall, IInv, TypeOK, PhaseInv, funcVars, addrVars
<1>11. ASSUME NEW a \in Addr, NEW n \in 0 .. MaxArgs, EndCall(n, a)
      PROVE  WithinFrame'
  <2>1. /\ \A f \in Funcs \ {curfunc} : argbuildsz'[f] = argbuildsz[f]
        /\ phase = "body" /\ size' = size /\ mask' = mask
    BY <1>11 DEF EndCall, ArgBuildSize, IInv, TypeOK
  <2>2. NewAddr(a, "temp", a, 4, curoffset + 4)
    BY <1>11 DEF EndCall, ArgBuildSize, NewAddr
  <2> QED
    BY <2>1, <2>2, NewKeepsWithin
<1>12. CASE EndFunction
  <2> SUFFICES ASSUME NEW x \in Addr, InFrame(x), resolved'[x]
               PROVE  /\ argbuildsz[owner[x]] <= off'[x]
                      /\ off'[x] + width[x] <= size'[owner[x]] - SaveSize(owner[x])
    BY <1>12 DEF EndFunction
  <2>1. owner[x] \in Funcs
    BY Owned
  <2>2. CASE owner[x] = curfunc
    <3>1. /\ size[curfunc] \in Nat /\ curoffset \in Nat /\ argbuildsz[curfunc] \in Nat
          /\ off[x] \in Int /\ width[x] \in Nat
          /\ SaveSize(curfunc) \in Nat /\ SaveSize(curfunc) <= size[curfunc]
      <4>1. off[x] \in Int /\ width[x] \in Nat
        BY DEF IInv, TypeOK
      <4> QED
        BY <2>1, <2>2, <4>1, WholeWords
    <3>2. IsLive(x) /\ ~resolved[x]
      BY <1>12, <2>2, Owned DEF EndFunction
    <3>3. width[x] <= off[x] /\ off[x] <= curoffset
      BY <3>2 DEF IInv, SlotInv
    <3>4. off'[x] = curoffset + argbuildsz[curfunc] - off[x]
      BY <1>12, <3>2, EndFunctionAt DEF IInv
    <3>5. size'[curfunc] = size[curfunc] + curoffset + argbuildsz[curfunc]
      BY <1>12, EndFunctionAt DEF IInv
    <3> HIDE DEF SaveSize
    <3> QED
      BY <2>2, <3>1, <3>3, <3>4, <3>5
  <2>3. CASE owner[x] # curfunc
    <3>1. x \notin used
      BY <2>3 DEF IInv, OwnerInv
    <3>2. resolved[x] /\ off'[x] = off[x] /\ size'[owner[x]] = size[owner[x]]
      BY <1>12, <2>1, <2>3, <3>1, EndFunctionAt DEF IInv
    <3> QED
      BY <3>2 DEF IInv
  <2> QED
    BY <2>2, <2>3
<1>13. CASE UNCHANGED vars
  BY <1>13 DEF vars, IInv, TypeOK, OwnerInv, PhaseInv, SlotInv, SizeInv, funcVars, addrVars
<1> QED
  BY <1>1, <1>2, <1>3, <1>4, <1>5, <1>6, <1>7,
     <1>8, <1>9, <1>10, <1>11, <1>12, <1>13 DEF Next

\* The argument area grows with the longest argument list.
LEMMA PushesFitStep ==
  ASSUME IInv, TypeOK', [Next]_vars
  PROVE  PushesFit'
<1> USE ConstantsAssumption DEF PushesFit, IsLive, Done, IsFree, InFrame, SaveSize
<1>1. ASSUME NEW a \in Addr, NEW w \in Widths, VisitGlobal(a, w)
      PROVE  PushesFit'
  BY <1>1, NewAddrAt DEF VisitGlobal, IInv, TypeOK, PhaseInv, Funcs, funcVars, addrVars
<1>2. CASE StartFunction
  BY <1>2 DEF StartFunction, IInv, TypeOK, PhaseInv, Funcs, funcVars, addrVars
<1>3. ASSUME NEW a \in Addr, VisitParmVarDecl(a)
      PROVE  PushesFit'
  BY <1>3, NewAddrAt DEF VisitParmVarDecl, IInv, TypeOK, PhaseInv, Funcs, funcVars, addrVars
<1>4. CASE VisitDecls
  BY <1>4 DEF VisitDecls, IInv, TypeOK, PhaseInv, Funcs, funcVars, addrVars
<1>5. CASE VisitStmts
  BY <1>5 DEF VisitStmts, IInv, TypeOK, PhaseInv, Funcs, funcVars, addrVars
<1>6. ASSUME NEW a \in Addr, NEW w \in Widths, NEW c \in BOOLEAN,
             VisitVarDecl(a, w, c)
      PROVE  PushesFit'
  BY <1>6, NewAddrAt DEF VisitVarDecl, IInv, TypeOK, PhaseInv, Funcs, funcVars, addrVars
<1>7. ASSUME NEW a \in Addr, NewTemp(a)
      PROVE  PushesFit'
  BY <1>7, NewAddrAt DEF NewTemp, IInv, TypeOK, PhaseInv, Funcs, funcVars, addrVars
<1>8. ASSUME NEW a \in Addr, UseAddr(a)
      PROVE  PushesFit'
  BY <1>8 DEF UseAddr, IInv, TypeOK, PhaseInv, Funcs, funcVars, addrVars
<1>9. ASSUME NEW a \in Addr, NEW v \in Addr, VisitArraySubscriptExpr(a, v)
      PROVE  PushesFit'
  BY <1>9, NewAddrAt DEF VisitArraySubscriptExpr, IInv, TypeOK, PhaseInv, Funcs, funcVars, addrVars
<1>10. CASE BeginCall
  BY <1>10 DEF BeginCall, IInv, TypeOK, PhaseInv, Funcs, funcVars, addrVars
<1>11. ASSUME NEW a \in Addr, NEW n \in 0 .. MaxArgs, EndCall(n, a)
      PROVE  PushesFit'
  <2>1. curfunc \in Funcs /\ n \in Nat
    BY <1>11 DEF EndCall, ArgBuildSize, IInv, TypeOK, PhaseInv, Funcs
  <2>2. /\ argbuildsz[curfunc] \in Nat
        /\ argbuildsz'[curfunc] = IF 4 * n > argbuildsz[curfunc]
                                  THEN 4 * n ELSE argbuildsz[curfunc]
        /\ pushed'[curfunc] = pushed[curfunc] \union {4 * i : i \in 0 .. n - 1}
        /\ \A f \in Funcs \ {curfunc} : /\ argbuildsz'[f] = argbuildsz[f]
                                     /\ pushed'[f] = pushed[f]
    BY <1>11, <2>1 DEF EndCall, ArgBuildSize, IInv, TypeOK
  <2>3. \A p \in {4 * i : i \in 0 .. n - 1} : p + 4 <= 4 * n
    BY <2>1
  <2>4. \A p \in pushed[curfunc] : p \in Nat /\ p + 4 <= argbuildsz[curfunc]
    BY <2>1 DEF IInv, TypeOK
  <2>5. 4 * n <= argbuildsz'[curfunc] /\ argbuildsz[curfunc] <= argbuildsz'[curfunc]
    BY <2>1, <2>2
  <2>6. argbuildsz'[curfunc] \in Nat
    BY <2>1 DEF TypeOK
  <2>7. \A p \in pushed'[curfunc] : p + 4 <= argbuildsz'[curfunc]
    BY <2>1, <2>2, <2>3, <2>4, <2>5, <2>6
  <2> QED
    BY <2>2, <2>7 DEF IInv
<1>12. CASE EndFunction
  BY <1>12, EndFunctionAt DEF EndFunction, IInv, TypeOK, PhaseInv, Funcs, funcVars, addrVars
<1>13. CASE UNCHANGED vars
  BY <1>13 DEF vars, IInv, TypeOK, PhaseInv, Funcs, funcVars, addrVars
<1> QED
  BY <1>1, <1>2, <1>3, <1>4, <1>5, <1>6, <1>7,
     <1>8, <1>9, <1>10, <1>11, <1>12, <1>13 DEF Next

\* A new QuadAddr is not resolved, so it does not disturb the parameters of
\* the functions already laid out.
LEMMA NewUnresolved ==
  ASSUME IInv, NEW a \in Addr, NEW k, NEW b, NEW w, NEW o,
         NewAddr(a, k, b, w, o), UNCHANGED size
  PROVE  ParamsMeetArgs'
<1>1. /\ kind[a] = "free" /\ resolved' = resolved
      /\ \A x \in Addr \ {a} : /\ kind'[x] = kind[x] /\ owner'[x] = owner[x]
                             /\ off'[x] = off[x]
  BY NewAddrAt DEF IInv
<1>2. ~resolved[a]
  BY <1>1 DEF IInv, OwnerInv, IsFree
<1>3. \A x \in Addr : resolved'[x] =>
        /\ x # a
        /\ kind'[x] = kind[x] /\ owner'[x] = owner[x] /\ off'[x] = off[x]
  BY <1>1, <1>2
<1> SUFFICES ASSUME NEW x \in Addr, kind[x] = "param", resolved[x]
             PROVE  /\ \/ off[x] = size[owner[x]]
                       \/ /\ off[x] > size[owner[x]]
                          /\ \E y \in Addr : /\ kind[y] = "param" /\ resolved[y]
                                             /\ owner[y] = owner[x]
                                             /\ off[y] + 4 = off[x]
                    /\ \A y \in Addr : /\ kind[y] = "param" /\ resolved[y]
                                       /\ owner[y] = owner[x] /\ off[y] = off[x]
                                      => y = x
  BY <1>1, <1>3 DEF ParamsMeetArgs
<1> QED
  BY DEF IInv, ParamsMeetArgs

\* Resolved parameters lie directly above their frame.
LEMMA ParamsMeetArgsStep ==
  ASSUME IInv, TypeOK', [Next]_vars
  PROVE  ParamsMeetArgs'
<1> USE ConstantsAssumption DEF ParamsMeetArgs, IsLive, Done, IsFree, InFrame, SaveSize
<1>1. ASSUME NEW a \in Addr, NEW w \in Widths, VisitGlobal(a, w)
      PROVE  ParamsMeetArgs'
  BY <1>1, NewUnresolved DEF VisitGlobal, funcVars
<1>2. CASE StartFunction
  BY <1>2 DEF StartFunction, IInv, TypeOK, OwnerInv, PhaseInv, ParamInv, funcVars, addrVars
<1>3. ASSUME NEW a \in Addr, VisitParmVarDecl(a)
      PROVE  ParamsMeetArgs'
  BY <1>3, NewUnresolved DEF VisitParmVarDecl, funcVars
<1>4. CASE VisitDecls
  BY <1>4 DEF VisitDecls, IInv, TypeOK, OwnerInv, PhaseInv, ParamInv, funcVars, addrVars
<1>5. CASE VisitStmts
  BY <1>5 DEF VisitStmts, IInv, TypeOK, OwnerInv, PhaseInv, ParamInv, funcVars, addrVars
<1>6. ASSUME NEW a \in Addr, NEW w \in Widths, NEW c \in BOOLEAN,
             VisitVarDecl(a, w, c)
      PROVE  ParamsMeetArgs'
  BY <1>6, NewUnresolved DEF VisitVarDecl, funcVars
<1>7. ASSUME NEW a \in Addr, NewTemp(a)
      PROVE  ParamsMeetArgs'
  BY <1>7, NewUnresolved DEF NewTemp, funcVars
<1>8. ASSUME NEW a \in Addr, UseAddr(a)
      PROVE  ParamsMeetArgs'
  BY <1>8 DEF UseAddr, IInv, TypeOK, OwnerInv, PhaseInv, ParamInv, funcVars, addrVars
<1>9. ASSUME NEW a \in Addr, NEW v \in Addr, VisitArraySubscriptExpr(a, v)
      PROVE  ParamsMeetArgs'
  BY <1>9, NewUnresolved DEF VisitArraySubscriptExpr, funcVars
<1>10. CASE BeginCall
  BY <1>10 DEF BeginCall, IInv, TypeOK, OwnerInv, PhaseInv, ParamInv, funcVars, addrVars
<1>11. ASSUME NEW a \in Addr, NEW n \in 0 .. MaxArgs, EndCall(n, a)
      PROVE  ParamsMeetArgs'
  BY <1>11, NewUnresolved DEF EndCall, ArgBuildSize, funcVars
<1>12. CASE EndFunction
  <2>1. ASSUME NEW x \in Addr, kind[x] = "param", owner[x] = curfunc
        PROVE  /\ IsLive(x) /\ ~resolved[x] /\ resolved'[x]
               /\ off'[x] = size'[curfunc] + off[x] /\ off[x] \in Int
    <3>1. IsLive(x) /\ ~resolved[x] /\ x \in used
      BY <1>12, <2>1 DEF EndFunction, IInv, OwnerInv, TypeOK
    <3> QED
      BY <1>12, <2>1, <3>1, EndFunctionAt DEF IInv, TypeOK
  <2>2. ASSUME NEW x \in Addr, kind[x] = "param", owner[x] # curfunc
        PROVE  /\ resolved'[x] <=> resolved[x]
               /\ off'[x] = off[x] /\ size'[owner[x]] = size[owner[x]]
    <3>1. x \notin used /\ owner[x] \in Funcs
      BY <2>2, Owned
    <3> QED
      BY <1>12, <2>2, <3>1, EndFunctionAt DEF IInv
  <2>3. size'[curfunc] \in Nat
    BY <1>12, EndFunctionAt DEF IInv, TypeOK
  <2>4. kind' = kind /\ owner' = owner
    BY <1>12 DEF EndFunction
  <2> SUFFICES ASSUME NEW x \in Addr, kind[x] = "param", resolved'[x]
               PROVE  /\ \/ off'[x] = size'[owner[x]]
                         \/ /\ off'[x] > size'[owner[x]]
                            /\ \E y \in Addr : /\ kind[y] = "param" /\ resolved'[y]
                                               /\ owner[y] = owner[x]
                                               /\ off'[y] + 4 = off'[x]
                      /\ \A y \in Addr : /\ kind[y] = "param" /\ resolved'[y]
                                         /\ owner[y] = owner[x] /\ off'[y] = off'[x]
                                        => y = x
    BY <2>4
  <2>5. CASE owner[x] = curfunc
    <3>1. /\ 0 <= off[x]
          /\ \/ off[x] = 0
             \/ \E y \in Addr : /\ kind[y] = "param" /\ owner[y] = curfunc
                                /\ off[y] + 4 = off[x]
          /\ \A y \in Addr : /\ kind[y] = "param" /\ owner[y] = curfunc
                             /\ off[y] = off[x]
                            => y = x
      BY <1>12, <2>1, <2>5 DEF IInv, ParamInv, EndFunction
    <3>2. ASSUME NEW y \in Addr, kind[y] = "param", owner[y] = curfunc
          PROVE  /\ resolved'[y]
                 /\ off'[y] + 4 = off'[x] <=> off[y] + 4 = off[x]
                 /\ off'[y] = off'[x] <=> off[y] = off[x]
      <4>1. /\ off'[x] = size'[curfunc] + off[x] /\ off[x] \in Int
            /\ off'[y] = size'[curfunc] + off[y] /\ off[y] \in Int
            /\ resolved'[y]
        BY <2>1, <2>5, <3>2
      <4>2. off'[y] + 4 = off'[x] <=> off[y] + 4 = off[x]
        BY <2>3, <4>1
      <4>3. off'[y] = off'[x] <=> off[y] = off[x]
        BY <2>3, <4>1
      <4> QED
        BY <4>1, <4>2, <4>3
    <3>3. off[x] > 0 => off'[x] > size'[curfunc]
      BY <2>1, <2>3, <2>5
    <3>4. off[x] = 0 => off'[x] = size'[curfunc]
      BY <2>1, <2>3, <2>5
    <3>5. off[x] = 0 \/ off[x] > 0
      BY <2>1, <2>5, <3>1
    <3>6. off[x] = 0 \/ \E y \in Addr : /\ kind[y] = "param" /\ resolved'[y]
                                        /\ owner[y] = owner[x]
                                        /\ off'[y] + 4 = off'[x]
      BY <2>5, <3>1, <3>2
    <3>7. \A y \in Addr : /\ kind[y] = "param" /\ resolved'[y]
                          /\ owner[y] = owner[x] /\ off'[y] = off'[x]
                          => y = x
      BY <2>5, <3>1, <3>2
    <3> QED
      BY <2>5, <3>3, <3>4, <3>5, <3>6, <3>7
  <2>6. CASE owner[x] # curfunc
    BY <2>2, <2>6 DEF IInv
  <2> QED
    BY <2>5, <2>6
<1>13. CASE UNCHANGED vars
  BY <1>13 DEF vars, IInv, TypeOK, OwnerInv, PhaseInv, ParamInv, funcVars, addrVars
<1> QED
  BY <1>1, <1>2, <1>3, <1>4, <1>5, <1>6, <1>7,
     <1>8, <1>9, <1>10, <1>11, <1>12, <1>13 DEF Next

\* AllocReg hands out only registers that nobody holds.
LEMMA RegistersExclusiveStep ==
  ASSUME IInv, TypeOK', [Next]_vars
  PROVE  RegistersExclusive'
<1> USE ConstantsAssumption DEF RegistersExclusive, IsLive, Done, IsFree, InFrame, SaveSize
<1>1. ASSUME NEW a \in Addr, NEW w \in Widths, VisitGlobal(a, w)
      PROVE  RegistersExclusive'
  BY <1>1, NewAddrAt DEF VisitGlobal, IInv, TypeOK, OwnerInv, FreeRegs, funcVars, addrVars
<1>2. CASE StartFunction
  BY <1>2 DEF StartFunction, IInv, TypeOK, OwnerInv, FreeRegs, funcVars, addrVars
<1>3. ASSUME NEW a \in Addr, VisitParmVarDecl(a)
      PROVE  RegistersExclusive'
  BY <1>3, NewAddrAt, AllocRegAt DEF VisitParmVarDecl, IInv, TypeOK, OwnerInv, FreeRegs, funcVars, addrVars
<1>4. CASE VisitDecls
  BY <1>4 DEF VisitDecls, IInv, TypeOK, OwnerInv, FreeRegs, funcVars, addrVars
<1>5. CASE VisitStmts
  BY <1>5 DEF VisitStmts, IInv, TypeOK, OwnerInv, FreeRegs, funcVars, addrVars
<1>6. ASSUME NEW a \in Addr, NEW w \in Widths, NEW c \in BOOLEAN,
             VisitVarDecl(a, w, c)
      PROVE  RegistersExclusive'
  BY <1>6, NewAddrAt, AllocRegAt DEF VisitVarDecl, IInv, TypeOK, OwnerInv, FreeRegs, funcVars, addrVars
<1>7. ASSUME NEW a \in Addr, NewTemp(a)
      PROVE  RegistersExclusive'
  <2>1. /\ bind' = bind /\ \A x \in Addr \ {a} : owner'[x] = owner[x]
        /\ kind[a] = "free"
    BY <1>7, NewAddrAt DEF IInv, NewTemp
  <2>2. bind[a] = 0
    BY <2>1 DEF IInv, OwnerInv
  <2> QED
    BY <2>1, <2>2 DEF IInv
<1>8. ASSUME NEW a \in Addr, UseAddr(a)
      PROVE  RegistersExclusive'
  BY <1>8 DEF UseAddr, IInv, TypeOK, OwnerInv, FreeRegs, funcVars, addrVars
<1>9. ASSUME NEW a \in Addr, NEW v \in Addr, VisitArraySubscriptExpr(a, v)
      PROVE  RegistersExclusive'
  BY <1>9, NewAddrAt DEF VisitArraySubscriptExpr, IInv, TypeOK, OwnerInv, FreeRegs, funcVars, addrVars
<1>10. CASE BeginCall
  BY <1>10 DEF BeginCall, IInv, TypeOK, OwnerInv, FreeRegs, funcVars, addrVars
<1>11. ASSUME NEW a \in Addr, NEW n \in 0 .. MaxArgs, EndCall(n, a)
      PROVE  RegistersExclusive'
  BY <1>11, NewAddrAt DEF EndCall, ArgBuildSize, IInv, TypeOK, OwnerInv, FreeRegs, funcVars, addrVars
<1>12. CASE EndFunction
  BY <1>12, EndFunctionAt DEF EndFunction, IInv, TypeOK, OwnerInv, FreeRegs, funcVars, addrVars
<1>13. CASE UNCHANGED vars
  BY <1>13 DEF vars, IInv, TypeOK, OwnerInv, FreeRegs, funcVars, addrVars
<1> QED
  BY <1>1, <1>2, <1>3, <1>4, <1>5, <1>6, <1>7,
     <1>8, <1>9, <1>10, <1>11, <1>12, <1>13 DEF Next

(***************************************************************************)
(* The theorems                                                            *)
(***************************************************************************)

LEMMA Inductive ==
  IInv /\ [Next]_vars => IInv'
<1> SUFFICES ASSUME IInv, [Next]_vars
             PROVE  IInv'
  OBVIOUS
<1>1. TypeOK'
  BY TypeStep DEF IInv, PhaseInv
<1> QED
  BY <1>1, PhaseInvStep, OwnerInvStep, SizeInvStep, SlotInvStep, ParamInvStep,
     ArrayInvStep, NoOverlapStep, WithinFrameStep, PushesFitStep,
     ParamsMeetArgsStep, RegistersExclusiveStep DEF IInv

LEMMA Initial ==
  Init => IInv
<1> SUFFICES ASSUME Init
             PROVE  IInv
  OBVIOUS
<1>1. TypeOK
  BY ConstantsAssumption DEF Init, TypeOK, Phases, Kinds, Funcs
<1> QED
  BY <1>1 DEF Init, IInv, PhaseInv, OwnerInv, SizeInv, SlotInv, ParamInv, ArrayInv,
     NoOverlap, WithinFrame, PushesFit, ParamsMeetArgs, RegistersExclusive,
     IsLive, IsFree, InFrame

\* The inductive invariant holds in every reachable state of the layout
\* performed by QuadGenerator.
THEOREM InvariantHolds == Spec => []IInv
BY Initial, Inductive, PTL DEF Spec

\* Two variables or temporaries of one function never share a byte of its
\* frame, for any program and any array lengths.
THEOREM SlotsNeverOverlap == Spec => []NoOverlap
<1>1. IInv => NoOverlap
  BY DEF IInv
<1> QED
  BY <1>1, InvariantHolds, PTL

\* Every slot lies between the area in which its function builds arguments
\* and the word in which its prologue saves $ra.
THEOREM SlotsWithinFrame == Spec => [](WithinFrame /\ PushesFit)
<1>1. IInv => WithinFrame /\ PushesFit
  BY DEF IInv
<1> QED
  BY <1>1, InvariantHolds, PTL

\* A callee looks for its parameters in the words in which any caller has
\* pushed its arguments.
THEOREM ParametersMeetArguments == Spec => []ParamsMeetArgs
<1>1. IInv => ParamsMeetArgs
  BY DEF IInv
<1> QED
  BY <1>1, InvariantHolds, PTL

\* Every operand of one array gets the same place, although each is resolved
\* on its own.
THEOREM ArrayOperandsAgree == Spec => []ArraysAgree
<1>1. IInv => ArraysAgree
  BY DEF IInv, ArrayInv, ArraysAgree
<1> QED
  BY <1>1, InvariantHolds, PTL

\* What GenPrologue asserts of a frame (when assertions are enabled) is true
\* of every frame that QuadGenerator hands to it.
THEOREM FramesAreWellFormed == Spec => []FramesWellFormed
<1>1. ASSUME IInv
      PROVE  FramesWellFormed
  <2>1. \A f \in Funcs : /\ size[f] \in Nat /\ size[f] % 4 = 0
                         /\ mask[f] => size[f] >= 4
    BY <1>1, WholeWords
  <2>2. \A f \in Funcs : SaveSize(f) <= size[f]
    BY <2>1 DEF SaveSize
  <2> QED
    BY <2>1, <2>2 DEF FramesWellFormed
<1> QED
  BY <1>1, InvariantHolds, PTL

\* FuncInfo::AllocReg never gives one register to two operands, however many
\* parameters and locals compete for the pool.
THEOREM RegistersAreExclusive == Spec => []RegistersExclusive
<1>1. IInv => RegistersExclusive
  BY DEF IInv
<1> QED
  BY <1>1, InvariantHolds, PTL

\* An operand that has been resolved keeps its offset: the resolution pass
\* of a later function does not move it.
THEOREM OffsetsAreFinal == Spec => ResolvedOnce
<1>1. ASSUME IInv, [Next]_vars
      PROVE  [\A a \in Addr : resolved[a] => resolved'[a] /\ off'[a] = off[a]]_vars
  <2> SUFFICES ASSUME Next, NEW x \in Addr, resolved[x]
               PROVE  resolved'[x] /\ off'[x] = off[x]
    BY <1>1
  <2>1. ASSUME NEW a \in Addr, NEW k, NEW b, NEW w, NEW o, NewAddr(a, k, b, w, o)
        PROVE  resolved'[x] /\ off'[x] = off[x]
    <3>1. x # a
      <4>1. IsFree(a)
        BY <2>1 DEF NewAddr
      <4>2. ~resolved[a]
        BY <1>1, <2>1, <4>1 DEF IInv, OwnerInv, IsFree
      <4> QED
        BY <4>2
    <3>2. off' = [off EXCEPT ![a] = o] /\ resolved' = resolved
      BY <2>1 DEF NewAddr
    <3>3. off \in [Addr -> Int]
      BY <1>1 DEF IInv, TypeOK
    <3> QED
      BY <3>1, <3>2, <3>3
  <2>2. CASE EndFunction
    <3>1. /\ off'[x] = IF x \in used /\ ~resolved[x] THEN ResolvedOffset(x) ELSE off[x]
          /\ resolved'[x] = (resolved[x] \/ x \in used)
      BY <2>2 DEF EndFunction, ToResolve
    <3> QED
      BY <3>1
  <2>3. CASE UNCHANGED << resolved, off >>
    BY <2>3
  <2> QED
    BY <2>1, <2>2, <2>3
       DEF Next, VisitGlobal, StartFunction, VisitParmVarDecl, VisitDecls,
           VisitStmts, VisitVarDecl, NewTemp, UseAddr, VisitArraySubscriptExpr,
           BeginCall, EndCall, ArgBuildSize, addrVars
<1> QED
  BY <1>1, InvariantHolds, PTL DEF Spec, ResolvedOnce
=============================================================================
