SPECIFICATION Spec
CONSTANT Texts <- LoneVariable
PROPERTY
  StatementListsEnd
