---------------------------- MODULE DriverProofs ----------------------------
(***************************************************************************)
(* Proofs about Driver, for any number of compilations.                    *)
(***************************************************************************)
EXTENDS Driver, TLAPS

\* How far main has come tells which files are those of the running compilation; after
\* its end that is not known, but for those that returned.
AgeInv ==
  /\ errorTxt.run <= run /\ quadsTxt.run <= run
  /\ pc \in {"options", "source", "open"} => errorTxt.run < run /\ errorFlag = 0
  /\ pc \in {"options", "source", "open", "analyse", "open quads"} => quadsTxt.run < run

IInv ==
  /\ TypeOK /\ AgeInv
  /\ MipsFollowsQuads /\ ReportedMeansStale /\ ReturnedMeansAnswered

\* The numbers of files are numbers.
LEMMA FileRuns ==
  ASSUME TypeOK
  PROVE  /\ run \in Int /\ errorTxt.run \in Int /\ quadsTxt.run \in Int /\ mipsTxt.run \in Int
<1>1. \A i \in 0 .. MaxRuns : i \in Int
  BY RunsAssumption
<1>2. /\ run \in 0 .. MaxRuns
      /\ errorTxt.run \in 0 .. MaxRuns /\ quadsTxt.run \in 0 .. MaxRuns /\ mipsTxt.run \in 0 .. MaxRuns
  BY DEF TypeOK
<1> QED BY <1>1, <1>2

LEMMA InitInv == Init => IInv
BY RunsAssumption
DEF Init, IInv, TypeOK, AgeInv, Generating, Opened, Written, MipsFollowsQuads,
    ReportedMeansStale, ReturnedMeansAnswered

\* A new process finds all files older than itself.
LEMMA InvokeStep == IInv /\ Invoke => IInv'
BY RunsAssumption
DEF Invoke, files, IInv, TypeOK, AgeInv, Generating, Opened, Written, MipsFollowsQuads,
    ReportedMeansStale, ReturnedMeansAnswered

\* Steps that write no file, of a process that goes on or comes to an early end.
LEMMA QuietStep ==
  ASSUME IInv, ParseOpt \/ ReadSourceFile \/ Analysed \/ Die
  PROVE  IInv'
<1> USE RunsAssumption
    DEF Goto, End, files, IInv, TypeOK, AgeInv, Generating, Opened, Written,
        MipsFollowsQuads, ReportedMeansStale, ReturnedMeansAnswered
<1>1. CASE ParseOpt       BY <1>1 DEF ParseOpt
<1>2. CASE ReadSourceFile BY <1>2 DEF ReadSourceFile
<1>3. CASE Analysed       BY <1>3 DEF Analysed
<1>4. CASE Die            BY <1>4 DEF Die
<1> QED BY <1>1, <1>2, <1>3, <1>4

\* Steps that write error.txt, before any code.
LEMMA ErrorStep ==
  ASSUME IInv, OpenErrors \/ Report
  PROVE  IInv'
<1>1. /\ run' = run /\ srcfile' = srcfile /\ ended' = ended /\ pc' = "analyse"
      /\ quadsTxt' = quadsTxt /\ mipsTxt' = mipsTxt
      /\ errorTxt' = [run |-> run, reports |-> errorFlag'] /\ errorFlag' \in {0, 1}
  <2>1. CASE OpenErrors  BY <2>1 DEF OpenErrors, Goto, IInv, TypeOK, AgeInv
  <2>2. CASE Report      BY <2>2 DEF Report, IInv, TypeOK
  <2> QED BY <2>1, <2>2
<1>2. quadsTxt.run < run /\ mipsTxt.run <= quadsTxt.run
  BY DEF MipsFollowsQuads, OpenErrors, Report, IInv, AgeInv
<1>3. TypeOK'
  BY <1>1 DEF IInv, TypeOK, Generating
<1>4. run \in Int /\ quadsTxt.run \in Int /\ errorTxt'.run = run
  BY <1>1, FileRuns DEF IInv
<1>5. AgeInv'
  BY <1>1, <1>2, <1>4 DEF AgeInv
<1>6. MipsFollowsQuads'
  BY <1>1 DEF IInv, MipsFollowsQuads
<1>7. ReportedMeansStale' /\ ReturnedMeansAnswered'
  BY <1>1, <1>2 DEF ReportedMeansStale, ReturnedMeansAnswered
<1> QED BY <1>3, <1>5, <1>6, <1>7 DEF IInv

\* Steps that write code, after a text without a report.
LEMMA CodeStep ==
  ASSUME IInv, OpenQuads \/ GenQuads \/ OpenMips \/ GenMips
  PROVE  IInv'
<1>1. /\ run' = run /\ srcfile' = srcfile /\ errorFlag' = errorFlag /\ errorTxt' = errorTxt
      /\ srcfile = "text" /\ errorFlag = 0 /\ errorTxt = [run |-> run, reports |-> 0]
  BY DEF OpenQuads, GenQuads, OpenMips, GenMips, Goto, End, IInv, TypeOK, Generating
<1>2. /\ run \in Int /\ quadsTxt.run \in Int /\ mipsTxt.run \in Int
      /\ mipsTxt.run <= quadsTxt.run /\ quadsTxt.run <= run
  BY FileRuns DEF IInv, MipsFollowsQuads, AgeInv
<1>3. mipsTxt.run <= run
  BY <1>2
<1>4. ReportedMeansStale'
  BY <1>1 DEF ReportedMeansStale
<1>5. CASE OpenQuads
  <2>1. /\ quadsTxt' = [run |-> run, state |-> "open"] /\ mipsTxt' = mipsTxt
        /\ pc' = "quads" /\ ended' = ended
    BY <1>5 DEF OpenQuads, Goto, End, Opened, Written
  <2>2. quadsTxt.run < run
    BY <1>5 DEF OpenQuads, IInv, AgeInv
  <2>3. mipsTxt.run < run /\ mipsTxt.run # run
    BY <1>2, <2>2
  <2>4. TypeOK'
    BY <1>1, <2>1, <2>3 DEF IInv, TypeOK, Generating, Opened, Written
  <2>5. AgeInv' /\ MipsFollowsQuads' /\ ReturnedMeansAnswered'
    BY <1>1, <1>2, <1>3, <2>1, <2>3 DEF IInv, AgeInv, MipsFollowsQuads, ReturnedMeansAnswered, Written
  <2> QED BY <1>4, <2>4, <2>5 DEF IInv
<1>6. CASE GenQuads
  <2>1. /\ quadsTxt' = [run |-> run, state |-> "closed"] /\ mipsTxt' = mipsTxt
        /\ pc' = "open mips" /\ ended' = ended
    BY <1>6 DEF GenQuads, Goto, End, Opened, Written
  <2>2. TypeOK'
    BY <1>1, <2>1 DEF IInv, TypeOK, Generating, Opened, Written
  <2>3. AgeInv' /\ MipsFollowsQuads' /\ ReturnedMeansAnswered'
    BY <1>1, <1>2, <1>3, <2>1 DEF IInv, AgeInv, MipsFollowsQuads, ReturnedMeansAnswered, Written
  <2> QED BY <1>4, <2>2, <2>3 DEF IInv
<1>7. CASE OpenMips
  <2>1. /\ mipsTxt' = [run |-> run, state |-> "open"] /\ quadsTxt' = quadsTxt
        /\ pc' = "mips" /\ ended' = ended
    BY <1>7 DEF OpenMips, Goto, End, Opened, Written
  <2>2. quadsTxt = [run |-> run, state |-> "closed"]
    BY <1>7 DEF OpenMips, IInv, TypeOK, Written
  <2>3. TypeOK'
    BY <1>1, <2>1, <2>2 DEF IInv, TypeOK, Generating, Opened, Written
  <2>4. AgeInv' /\ MipsFollowsQuads' /\ ReturnedMeansAnswered'
    BY <1>1, <1>2, <1>3, <2>1, <2>2 DEF IInv, AgeInv, MipsFollowsQuads, ReturnedMeansAnswered, Written
  <2> QED BY <1>4, <2>3, <2>4 DEF IInv
<1>8. CASE GenMips
  <2>1. /\ mipsTxt' = [run |-> run, state |-> "closed"] /\ quadsTxt' = quadsTxt
        /\ pc' = "ended" /\ ended' = "returned"
    BY <1>8 DEF GenMips, Goto, End, Opened, Written
  <2>2. quadsTxt = [run |-> run, state |-> "closed"]
    BY <1>8 DEF GenMips, IInv, TypeOK, Written
  <2>3. TypeOK'
    BY <1>1, <2>1, <2>2 DEF IInv, TypeOK, Generating, Opened, Written
  <2>4. AgeInv' /\ MipsFollowsQuads' /\ ReturnedMeansAnswered'
    BY <1>1, <1>2, <1>3, <2>1, <2>2 DEF IInv, AgeInv, MipsFollowsQuads, ReturnedMeansAnswered, Written
  <2> QED BY <1>4, <2>3, <2>4 DEF IInv
<1> QED BY <1>5, <1>6, <1>7, <1>8

LEMMA StutterStep == IInv /\ UNCHANGED vars => IInv'
BY DEF vars, IInv, TypeOK, AgeInv, Generating, Opened, Written, MipsFollowsQuads,
       ReportedMeansStale, ReturnedMeansAnswered

\* main keeps to its order of steps, and files are no newer than the process that is running.
THEOREM InvariantHolds == Spec => []IInv
<1>1. IInv /\ [Next]_vars => IInv'
  BY InvokeStep, QuietStep, ErrorStep, CodeStep, StutterStep DEF Next
<1> QED BY InitInv, <1>1, PTL DEF Spec

\* The state of main and of its files is well typed, and each step finds the files that
\* the steps before it have left.
THEOREM TypeCorrect == Spec => []TypeOK
<1>1. IInv => TypeOK  BY DEF IInv
<1> QED BY InvariantHolds, <1>1, PTL

\* mips.txt is never next to quadruples older than itself, or half written by its own process.
THEOREM MipsAfterQuads == Spec => []MipsFollowsQuads
<1>1. IInv => MipsFollowsQuads  BY DEF IInv
<1> QED BY InvariantHolds, <1>1, PTL

\* A listed report means that the code files are of earlier texts, even when the process
\* has been ended in between.
THEOREM ReportsMeanStaleCode == Spec => []ReportedMeansStale
<1>1. IInv => ReportedMeansStale  BY DEF IInv
<1> QED BY InvariantHolds, <1>1, PTL

\* A compilation that returns has listed errors or has written all its code.
THEOREM ReturnsAreAnswers == Spec => []ReturnedMeansAnswered
<1>1. IInv => ReturnedMeansAnswered  BY DEF IInv
<1> QED BY InvariantHolds, <1>1, PTL
=============================================================================
