---------------------------- MODULE MCGlobalLoop ----------------------------
EXTENDS MipsRefinement, C0Programs

MCUnits == Map(Compile, GlobalLoops)
=============================================================================
