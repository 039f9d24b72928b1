----------------------------- MODULE TokenStream -----------------------------
(***************************************************************************)
(* TokenStream: the deque of the tokens that the parser has looked at and  *)
(* not popped yet, filled from Lexer::GetToken when it looks further.      *)
(*                                                                         *)
(* Iterators of the deque are numbered through: base is begin(), and one   *)
(* keeps its number while tokens are appended.  Tokens are their numbers   *)
(* in the text, which the lexer returns in turn.                           *)
(***************************************************************************)
EXTENDS Integers, Sequences

CONSTANTS Null,         \* the null pointer
          MaxOffset,    \* the parser looks no further ahead than this
          MaxPopped     \* no more tokens are popped, a bound on what is explored

ASSUME BoundAssumption == MaxOffset \in Nat /\ MaxPopped \in Nat

VARIABLES base,         \* begin()
          td,           \* *m_td
          m_prev,
          got,          \* tokens that GetToken has returned
          it,           \* the iterator of a call of At, NoCall between calls
          answer        \* what the last call returned

vars == << base, td, m_prev, got, it, answer >>

NoCall == -1
end == base + Len(td)

Init ==
  /\ base = 0 /\ td = << >> /\ m_prev = Null
  /\ got = 0 /\ it = NoCall /\ answer = Null

\* The iterator is computed before anything is appended.  The parser looks at a
\* token after those before it, so that begin() + offset is in the deque or its end.
At(offset) ==
  /\ it = NoCall /\ offset <= Len(td)
  /\ it' = base + offset
  /\ UNCHANGED << base, td, m_prev, got, answer >>

\* Mutation: the front is dropped to make room.
PushBackOver ==
  /\ it # NoCall /\ it = end
  /\ got' = got + 1
  /\ td' = Append(IF Len(td) = MaxOffset THEN Tail(td) ELSE td, got + 1)
  /\ UNCHANGED << base, m_prev, it, answer >>

\* Mutation: the token that was popped last is appended.
PushBackPrev ==
  /\ it # NoCall /\ it = end
  /\ got' = got + 1
  /\ td' = Append(td, m_prev)
  /\ UNCHANGED << base, m_prev, it, answer >>

PushBack ==
  /\ it # NoCall /\ it = end
  /\ got' = got + 1
  /\ td' = Append(td, got + 1)
  /\ UNCHANGED << base, m_prev, it, answer >>

\* Mutation: the front, whatever the offset.
ReturnFront ==
  /\ it # NoCall /\ it # end
  /\ answer' = Head(td)
  /\ it' = NoCall
  /\ UNCHANGED << base, td, m_prev, got >>

Return ==
  /\ it # NoCall /\ it # end
  /\ answer' = td[it - base + 1]
  /\ it' = NoCall
  /\ UNCHANGED << base, td, m_prev, got >>

\* PrintFront() differs in its output.  Nothing happens to an empty queue.
FlushFront ==
  /\ it = NoCall
  /\ IF td = << >>
     THEN answer' = Null /\ UNCHANGED << base, td, m_prev, got, it >>
     ELSE /\ answer' = Head(td) /\ m_prev' = Head(td)
          /\ base' = base + 1 /\ td' = Tail(td)
          /\ UNCHANGED << got, it >>

Next ==
  \/ \E offset \in 0 .. MaxOffset : At(offset)
  \/ PushBack \/ Return
  \/ base < MaxPopped /\ FlushFront

Spec == Init /\ [][Next]_vars

(***************************************************************************)
(* Properties                                                              *)
(***************************************************************************)

TypeOK ==
  /\ base \in Nat /\ got \in Nat
  /\ td \in Seq(Nat)
  /\ it \in Nat \union {NoCall}
  /\ m_prev \in Nat \union {Null} /\ answer \in Nat \union {Null}

\* The deque holds all that GetToken returned and that was not popped, in order;
\* prev() is the token before it; a running call has its iterator there, or at its
\* end, where nothing but the next token can come.
QueueIsInOrder ==
  /\ got = end
  /\ \A i \in DOMAIN td : td[i] = base + i
  /\ m_prev = IF base = 0 THEN Null ELSE base
  /\ it # NoCall => it \in base .. end

Cursor ==
  INSTANCE TokenCursor WITH
    pos    <- base,
    asked  <- IF it # NoCall /\ it = got THEN got + 1 ELSE got,
    wanted <- it + 1,
    last   <- m_prev

\* A stream is a cursor: every look gives the token it asks for, whatever was
\* appended or popped since, and prev() the token that was popped last.
IsACursor == Cursor!Spec
=============================================================================
