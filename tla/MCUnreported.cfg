SPECIFICATION Spec
CONSTANT Texts <- Unreported
INVARIANT FaultsAreReported
CHECK_DEADLOCK FALSE
