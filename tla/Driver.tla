------------------------------- MODULE Driver -------------------------------
(***************************************************************************)
(* main.cpp: compilations one after another in the same directory, each a  *)
(* process of its own that writes error.txt, quads.txt and mips.txt.       *)
(*                                                                         *)
(* Compilations are numbered.  Of a file, it is kept which of them wrote   *)
(* it and whether it is complete: what is written to a FILE is buffered    *)
(* until fclose, while each line of error.txt is flushed.  A process may   *)
(* end at any point: Parser dereferences null pointers on some texts, and  *)
(* is stopped from outside on those where it loops for ever.               *)
(***************************************************************************)
EXTENDS Integers

CONSTANT MaxRuns        \* no more compilations, a bound on what is explored

ASSUME RunsAssumption == MaxRuns \in Nat

VARIABLES run,          \* the number of the compilation
          pc,           \* what it does next
          srcfile,      \* what read_source_file gave: "text" or "null"
          errorFlag,    \* error_flag
          ended,        \* how the last compilation that ended did
          errorTxt,     \* the files
          quadsTxt,
          mipsTxt

files   == << errorTxt, quadsTxt, mipsTxt >>
vars    == << run, pc, srcfile, errorFlag, ended, errorTxt, quadsTxt, mipsTxt >>

\* A file that no compilation has written is of number 0.
Opened(r)  == [run |-> r, state |-> "open"]
Written(r) == [run |-> r, state |-> "closed"]

Init ==
  /\ run = 0 /\ pc = "ended" /\ ended = "returned"
  /\ srcfile = "null" /\ errorFlag = 0
  /\ errorTxt = [run |-> 0, reports |-> 0]
  /\ quadsTxt = Written(0) /\ mipsTxt = Written(0)

Goto(p) == pc' = p /\ UNCHANGED << run, srcfile, errorFlag, ended >>
End(how) == pc' = "ended" /\ ended' = how /\ UNCHANGED << run, srcfile, errorFlag >>

(***************************************************************************)
(* The steps of main                                                       *)
(***************************************************************************)

\* A new process: nothing but the files is left of the last one.
Invoke ==
  /\ pc = "ended" /\ run < MaxRuns
  /\ run' = run + 1 /\ pc' = "options"
  /\ srcfile' = "null" /\ errorFlag' = 0
  /\ UNCHANGED << ended, files >>

\* An unknown option, or no source file, ends the program with exit(0).
ParseOpt ==
  /\ pc = "options"
  /\ \/ Goto("source")
     \/ End("refused")
  /\ UNCHANGED files

\* A file that cannot be opened is only reported on stderr.
ReadSourceFile ==
  /\ pc = "source"
  /\ srcfile' \in {"text", "null"} /\ pc' = "open"
  /\ UNCHANGED << run, errorFlag, ended, files >>

OpenErrors ==
  /\ pc = "open"
  /\ errorTxt' = [run |-> run, reports |-> 0]
  /\ Goto("analyse")
  /\ UNCHANGED << quadsTxt, mipsTxt >>

\* Mutation: the flag is set, and nothing is listed.
ReportUnlisted ==
  /\ pc = "analyse" /\ srcfile = "text"
  /\ errorFlag' = 1
  /\ UNCHANGED << run, pc, srcfile, ended, files >>

\* Error(tok, errno), in the lexer or the parser.
Report ==
  /\ pc = "analyse" /\ srcfile = "text"
  /\ errorTxt' = [errorTxt EXCEPT !.reports = 1]
  /\ errorFlag' = 1
  /\ UNCHANGED << run, pc, srcfile, ended, quadsTxt, mipsTxt >>

\* Mutation: the flag is not looked at.
AnalysedUnchecked ==
  /\ pc = "analyse" /\ srcfile = "text"
  /\ Goto("open quads")
  /\ UNCHANGED files

\* parser.Analyse() has returned.
Analysed ==
  /\ pc = "analyse" /\ srcfile = "text"
  /\ IF errorFlag = 1 THEN End("returned") ELSE Goto("open quads")
  /\ UNCHANGED files

OpenQuads ==
  /\ pc = "open quads"
  /\ quadsTxt' = Opened(run)
  /\ Goto("quads")
  /\ UNCHANGED << errorTxt, mipsTxt >>

\* Mutation: the file is not closed.
GenQuadsOpen ==
  /\ pc = "quads"
  /\ Goto("open mips")
  /\ UNCHANGED files

\* QuadGenerator::Gen, then fclose.
GenQuads ==
  /\ pc = "quads"
  /\ quadsTxt' = Written(run)
  /\ Goto("open mips")
  /\ UNCHANGED << errorTxt, mipsTxt >>

OpenMips ==
  /\ pc = "open mips"
  /\ mipsTxt' = Opened(run)
  /\ Goto("mips")
  /\ UNCHANGED << errorTxt, quadsTxt >>

\* CodeGenerator::Gen, then fclose.
GenMips ==
  /\ pc = "mips"
  /\ mipsTxt' = Written(run)
  /\ End("returned")
  /\ UNCHANGED << errorTxt, quadsTxt >>

\* The process is ended, by the null pointer for srcfile if by nothing else.
Die ==
  /\ pc # "ended"
  /\ End("killed")
  /\ UNCHANGED files

Next ==
  \/ Invoke \/ ParseOpt \/ ReadSourceFile \/ OpenErrors \/ Report \/ Analysed
  \/ OpenQuads \/ GenQuads \/ OpenMips \/ GenMips \/ Die

Spec == Init /\ [][Next]_vars

(***************************************************************************)
(* Properties                                                              *)
(***************************************************************************)

Generating == {"open quads", "quads", "open mips", "mips"}

\* The types, and what main has done by the point it is at: the files it has opened are
\* its own, and it makes code only of a text that was read and has no report.
TypeOK ==
  /\ run \in 0 .. MaxRuns
  /\ pc \in {"ended", "options", "source", "open", "analyse"} \cup Generating
  /\ srcfile \in {"text", "null"} /\ errorFlag \in {0, 1}
  /\ ended \in {"returned", "refused", "killed"}
  /\ errorTxt \in [run : 0 .. MaxRuns, reports : {0, 1}]
  /\ quadsTxt \in [run : 0 .. MaxRuns, state : {"open", "closed"}]
  /\ mipsTxt \in [run : 0 .. MaxRuns, state : {"open", "closed"}]
  /\ pc = "analyse" => errorTxt = [run |-> run, reports |-> errorFlag]
  /\ pc \in Generating =>
        /\ srcfile = "text" /\ errorFlag = 0
        /\ errorTxt = [run |-> run, reports |-> 0]
  /\ pc = "quads" => quadsTxt = Opened(run)
  /\ pc \in {"open mips", "mips"} => quadsTxt = Written(run)
  /\ pc = "mips" => mipsTxt = Opened(run)

\* Whatever ended when: an assembly file never is of a later compilation than the
\* quadruples, and next to complete ones of its own.
MipsFollowsQuads ==
  /\ mipsTxt.run <= quadsTxt.run
  /\ mipsTxt.run = quadsTxt.run => quadsTxt.state = "closed"

\* No code is made of a text with a report: reports in error.txt tell that the code
\* files, if there are any, are older.
ReportedMeansStale ==
  errorTxt.reports = 1 => quadsTxt.run < errorTxt.run

\* A compilation that comes to its return has either listed its errors and left the code
\* of an earlier text as it was, or has written all of its own.  (One that is killed or
\* refuses its options may have done neither, and leaves old code without a word.)
ReturnedMeansAnswered ==
  pc = "ended" /\ ended = "returned" =>
    \/ errorTxt = [run |-> run, reports |-> 1]
    \/ /\ errorTxt = [run |-> run, reports |-> 0]
       /\ quadsTxt = Written(run) /\ mipsTxt = Written(run)
=============================================================================
