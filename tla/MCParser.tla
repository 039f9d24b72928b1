------------------------------ MODULE MCParser ------------------------------
(***************************************************************************)
(* What Parser makes of texts of units, of texts with one fault, and of    *)
(* texts without one of their tokens, in this order.                       *)
(***************************************************************************)
EXTENDS MCParserUnits, MCParserFaults

MCTexts == Map(UnitText, Units) \o FaultTexts \o Removals

Ended     == status # "run"
IsOfUnit  == prog <= Len(Units)
OfFault   == prog - Len(Units)
IsOfFault == OfFault \in DOMAIN Faults
IsRemoval == ~ IsOfUnit /\ ~ IsOfFault

\* Parser ends after the brace of main, without a report, at its outermost scope, and
\* with the tree whose text it has read: every operator binds what the grammar says.
BuildsTheTree ==
  Ended /\ IsOfUnit =>
    /\ status = "done" /\ errors = << >>
    /\ unit = Units[prog]
    /\ pos = Len(source) - 1 /\ vals = << >>

Absolute(e) == [e EXCEPT !.at = @ + Mark(source)]

\* error.txt has the reports that the rules ask for, each at the token the comments of
\* error.cpp mean, and no other: recovery from a fault reports no fault of its own.
ReportsTheFault ==
  Ended /\ IsOfFault =>
    status = "done" /\ errors = Map(Absolute, Faults[OfFault].errs)

Required(no) ==
  CASE no = "k" -> Word("SEMICN") [] no = "l" -> Word("RPARENT") [] no = "m" -> Word("RBRACK")
    [] no = "n" -> Word("WHILETK")

\* A missing token is reported where it is missing: with it put after the token of the
\* report (";") or before it (the others), the text is that of the tree.
ReportsTheRepair ==
  Ended /\ IsRemoval =>
    /\ status = "done" /\ Len(errors) = 1
    /\ LET e == errors[1]
       IN  InsertAt(source, IF e.no = "k" THEN e.at + 1 ELSE e.at, Head(Required(e.no))) = UnitText(unit)

\* Parsing goes on after a fault, with nothing lost but what it stands in.
RecoversTheTree ==
  Ended /\ ~ IsOfUnit => unit = IF IsOfFault THEN Faults[OfFault].left ELSE Busy
=============================================================================
