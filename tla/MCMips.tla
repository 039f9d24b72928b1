------------------------------- MODULE MCMips -------------------------------
EXTENDS MipsRefinement, C0Programs

MCUnits == Map(Compile, MCPrograms)

MCInputs == {-1, 2}
=============================================================================
