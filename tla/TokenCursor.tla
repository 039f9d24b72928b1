----------------------------- MODULE TokenCursor -----------------------------
(***************************************************************************)
(* What a token stream is to the parser: a cursor in the tokens of a text, *)
(* which are numbered 1, 2, ... and stay what they are however often they  *)
(* are looked at.                                                          *)
(***************************************************************************)
EXTENDS Integers

CONSTANT Null           \* the null pointer

VARIABLES pos,          \* tokens popped
          asked,        \* tokens that were looked at, or are being
          wanted,       \* the token that At is to give, 0 between calls
          last,         \* prev()
          answer        \* what the last call gave

vars == << pos, asked, wanted, last, answer >>

Init == pos = 0 /\ asked = 0 /\ wanted = 0 /\ last = Null /\ answer = Null

Look(n) ==
  /\ wanted = 0
  /\ wanted' = pos + n + 1
  /\ asked' = IF pos + n = asked THEN asked + 1 ELSE asked
  /\ UNCHANGED << pos, last, answer >>

Answer ==
  /\ wanted # 0
  /\ answer' = wanted /\ wanted' = 0
  /\ UNCHANGED << pos, asked, last >>

Pop ==
  /\ wanted = 0 /\ pos < asked
  /\ pos' = pos + 1
  /\ last' = pos + 1 /\ answer' = pos + 1
  /\ UNCHANGED << asked, wanted >>

PopNothing ==
  /\ wanted = 0 /\ pos = asked
  /\ answer' = Null
  /\ UNCHANGED << pos, asked, wanted, last >>

Next == (\E n \in 0 .. asked - pos : Look(n)) \/ Answer \/ Pop \/ PopNothing

Spec == Init /\ [][Next]_vars
=============================================================================
