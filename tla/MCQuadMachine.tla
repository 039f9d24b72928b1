--------------------------- MODULE MCQuadMachine ---------------------------
EXTENDS QuadMachine, C0Programs

C0 == INSTANCE C0Semantics

MCUnits == Map(Compile, MCPrograms)

MCInputs == {-1, 2}

(***************************************************************************)
(* The front half of the compiler keeps the meaning of the program: what   *)
(* has been printed when it ends is what the reference semantics allows    *)
(* for the values that were read.                                          *)
(***************************************************************************)
PrintsAnOutcome == halted => out \in C0!Outcomes(MCPrograms[prog], read)
=============================================================================
