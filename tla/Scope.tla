-------------------------------- MODULE Scope --------------------------------
(***************************************************************************)
(* Scopes: m_parent links form a chain, which is kept as a sequence with   *)
(* the scope of the file first and m_curscope last.  Identifiers are what  *)
(* Parser inserts.                                                         *)
(***************************************************************************)
EXTENDS Naturals, FiniteSetsExt, SequencesExt, TLC

NullIdent == [kind |-> "null"]

NewScope(ss, t) == Append(ss, [type |-> t, map |-> << >>, ret |-> FALSE])

FindInCurScope(ss, n) ==
  IF n \in DOMAIN Last(ss).map THEN Last(ss).map[n] ELSE NullIdent

Find(ss, n) ==
  LET holders == {i \in DOMAIN ss : n \in DOMAIN ss[i].map}
  IN  IF holders = {} THEN NullIdent ELSE ss[Max(holders)].map[n]

\* A name that is there already gets the new identifier.
Insert(ss, n, ident) == [ss EXCEPT ![Len(ss)].map = (n :> ident) @@ @]

SetRetFlag(ss) == [ss EXCEPT ![Len(ss)].ret = TRUE]
=============================================================================
