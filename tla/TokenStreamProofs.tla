-------------------------- MODULE TokenStreamProofs --------------------------
(***************************************************************************)
(* Proofs about TokenStream, however far the parser looks ahead and        *)
(* however long the text is.                                               *)
(***************************************************************************)
EXTENDS TokenStream, TLAPS

Inv == TypeOK /\ QueueIsInOrder

\* A call starts with its iterator in the deque or at its end.
LEMMA AtStep ==
  ASSUME Inv, NEW offset \in 0 .. MaxOffset, At(offset)
  PROVE  Inv'
<1>1. /\ it' = base + offset /\ base' = base /\ td' = td /\ m_prev' = m_prev
      /\ got' = got /\ answer' = answer /\ offset <= Len(td)
  BY DEF At
<1>2. offset \in Nat /\ Len(td) \in Nat /\ base \in Nat
  BY BoundAssumption DEF Inv, TypeOK
<1>3. TypeOK'
  BY <1>1, <1>2 DEF Inv, TypeOK
<1>4. it' \in base .. end
  BY <1>1, <1>2 DEF end
<1> QED
  BY <1>1, <1>3, <1>4 DEF Inv, QueueIsInOrder, end

\* The token that is appended is the next one after the deque.
LEMMA PushBackStep ==
  ASSUME Inv, PushBack
  PROVE  Inv' /\ end' = end + 1
<1>1. /\ it' = it /\ base' = base /\ td' = Append(td, got + 1) /\ m_prev' = m_prev
      /\ got' = got + 1 /\ answer' = answer /\ it = end /\ it # NoCall
  BY DEF PushBack
<1>2. /\ td \in Seq(Nat) /\ got \in Nat /\ base \in Nat /\ Len(td) \in Nat /\ got = base + Len(td)
      /\ \A i \in 1 .. Len(td) : td[i] = base + i
  BY DEF Inv, TypeOK, QueueIsInOrder, end
<1>3. /\ td' \in Seq(Nat) /\ Len(td') = Len(td) + 1 /\ td'[Len(td) + 1] = got + 1
      /\ \A i \in 1 .. Len(td) : td'[i] = td[i]
  BY <1>1, <1>2
<1>4. end' = end + 1 /\ got' = end'
  BY <1>1, <1>2, <1>3 DEF end
<1>5. \A i \in 1 .. Len(td') : td'[i] = base' + i
  BY <1>1, <1>2, <1>3
<1>6. TypeOK'
  BY <1>1, <1>2, <1>3 DEF Inv, TypeOK
<1>7. it' \in base' .. end'
  BY <1>1, <1>2, <1>4 DEF end
<1>8. m_prev' = IF base' = 0 THEN Null ELSE base'
  BY <1>1 DEF Inv, QueueIsInOrder
<1>9. DOMAIN td' = 1 .. Len(td')
  BY <1>3
<1> QED
  BY <1>4, <1>5, <1>6, <1>7, <1>8, <1>9 DEF Inv, QueueIsInOrder

\* What At returns is the token that its iterator has the number of.
LEMMA ReturnStep ==
  ASSUME Inv, Return
  PROVE  Inv' /\ answer' = it + 1 /\ it < end /\ it \in Nat
<1>1. /\ answer' = td[it - base + 1] /\ it' = NoCall /\ base' = base /\ td' = td
      /\ m_prev' = m_prev /\ got' = got /\ it # end /\ it # NoCall
  BY DEF Return
<1>2. /\ td \in Seq(Nat) /\ base \in Nat /\ Len(td) \in Nat /\ it \in Nat /\ it \in base .. end
      /\ \A i \in 1 .. Len(td) : td[i] = base + i
  BY <1>1 DEF Inv, TypeOK, QueueIsInOrder
<1>3. it - base + 1 \in 1 .. Len(td) /\ it < end
  BY <1>1, <1>2 DEF end
<1>4. answer' = it + 1
  BY <1>1, <1>2, <1>3
<1>5. TypeOK'
  BY <1>1, <1>2, <1>4 DEF Inv, TypeOK
<1> QED
  BY <1>1, <1>2, <1>3, <1>4, <1>5 DEF Inv, QueueIsInOrder, end

\* The front of a deque is the token after those popped.
LEMMA FlushStep ==
  ASSUME Inv, FlushFront
  PROVE  /\ Inv'
         /\ IF td = << >> THEN answer' = Null /\ UNCHANGED << base, td, m_prev, got, it >>
            ELSE /\ base' = base + 1 /\ answer' = base + 1 /\ m_prev' = base + 1
                 /\ UNCHANGED << got, it >> /\ end' = end /\ base < end
<1>0. /\ td \in Seq(Nat) /\ base \in Nat /\ got \in Nat /\ Len(td) \in Nat
      /\ \A i \in 1 .. Len(td) : td[i] = base + i
      /\ it = NoCall /\ got = end
  BY DEF Inv, TypeOK, QueueIsInOrder, FlushFront
<1>1. CASE td = << >>
  <2>1. answer' = Null /\ UNCHANGED << base, td, m_prev, got, it >>
    BY <1>1 DEF FlushFront
  <2>2. Inv'
    BY <2>1 DEF Inv, TypeOK, QueueIsInOrder, end
  <2> QED
    BY <1>1, <2>1, <2>2
<1>2. CASE td # << >>
  <2>1. /\ answer' = Head(td) /\ m_prev' = Head(td) /\ base' = base + 1 /\ td' = Tail(td)
        /\ got' = got /\ it' = it
    BY <1>2 DEF FlushFront
  <2>2. Len(td) > 0 /\ Head(td) = td[1]
    BY <1>0, <1>2
  <2>3. Head(td) = base + 1
    BY <1>0, <2>2
  <2>4. /\ td' \in Seq(Nat) /\ Len(td') = Len(td) - 1
        /\ \A i \in 1 .. Len(td') : td'[i] = td[i + 1]
    BY <1>0, <1>2, <2>1, <2>2
  <2>5. end' = end /\ base < end
    BY <1>0, <2>1, <2>2, <2>4 DEF end
  <2>6. \A i \in 1 .. Len(td') : td'[i] = base' + i
    BY <1>0, <2>1, <2>2, <2>4
  <2>7. DOMAIN td' = 1 .. Len(td')
    BY <2>4
  <2>8. TypeOK'
    BY <1>0, <2>1, <2>3, <2>4 DEF TypeOK
  <2>9. QueueIsInOrder'
    <3>1. got' = end' /\ it' = NoCall
      BY <1>0, <2>1, <2>5
    <3>2. m_prev' = base' /\ base' # 0
      BY <1>0, <2>1, <2>3
    <3> QED
      BY <2>6, <2>7, <3>1, <3>2 DEF QueueIsInOrder
  <2> QED
    BY <1>2, <2>1, <2>3, <2>5, <2>8, <2>9 DEF Inv
<1> QED
  BY <1>1, <1>2

\* The invariant holds in every state.
LEMMA Invariance == Spec => []Inv
<1>1. Init => Inv
  <2> SUFFICES ASSUME Init PROVE Inv
    OBVIOUS
  <2>1. TypeOK
    BY DEF Init, TypeOK
  <2>2. QueueIsInOrder
    BY DEF Init, QueueIsInOrder, end
  <2> QED
    BY <2>1, <2>2 DEF Inv
<1>2. Inv /\ [Next]_vars => Inv'
  <2> SUFFICES ASSUME Inv, [Next]_vars PROVE Inv'
    OBVIOUS
  <2>1. CASE UNCHANGED vars
    BY <2>1 DEF vars, Inv, TypeOK, QueueIsInOrder, end
  <2> QED
    BY <2>1, AtStep, PushBackStep, ReturnStep, FlushStep DEF Next
<1> QED
  BY <1>1, <1>2, PTL DEF Spec

(***************************************************************************)
(* Theorems                                                                *)
(***************************************************************************)

\* The deque holds tokens and nothing else, and prev() is one of them or null.
THEOREM TypeCorrect == Spec => []TypeOK
BY Invariance, PTL DEF Inv

\* Tokens come out of the deque as GetToken returned them, none left out or twice,
\* and the iterator of a call stays in the deque while it is appended to.
THEOREM QueueStaysInOrder == Spec => []QueueIsInOrder
BY Invariance, PTL DEF Inv

\* TokenStream is a cursor in the tokens of the text, as Parser takes it for.
THEOREM ImplementsCursor == Spec => IsACursor
<1>1. Init => Cursor!Init
  BY DEF Init, Cursor!Init, NoCall
<1>2. Inv /\ [Next]_vars => [Cursor!Next]_(Cursor!vars)
  <2> SUFFICES ASSUME Inv, [Next]_vars PROVE [Cursor!Next]_(Cursor!vars)
    OBVIOUS
  <2>0. /\ base \in Nat /\ got \in Nat /\ got = end /\ Len(td) \in Nat /\ td \in Seq(Nat)
        /\ it \in Nat \union {NoCall} /\ (it # NoCall => it \in base .. end)
    BY DEF Inv, TypeOK, QueueIsInOrder
  <2>1. ASSUME NEW offset \in 0 .. MaxOffset, At(offset) PROVE Cursor!Next
    <3>1. it = NoCall /\ offset \in 0 .. got - base /\ offset \in Nat
      BY <2>0, <2>1, BoundAssumption DEF At, end
    <3>2. Cursor!Look(offset)
      BY <2>0, <2>1, <3>1 DEF At, Cursor!Look, NoCall
    <3> QED
      BY <3>1, <3>2 DEF Cursor!Next
  <2>2. ASSUME PushBack PROVE UNCHANGED Cursor!vars
    BY <2>0, <2>2, PushBackStep DEF PushBack, Cursor!vars
  <2>3. ASSUME Return PROVE Cursor!Answer
    <3>1. /\ it # NoCall /\ it' = NoCall /\ it # got
          /\ UNCHANGED << base, m_prev, got >>
      BY <2>0, <2>3 DEF Return
    <3> QED
      BY <2>0, <2>3, <3>1, ReturnStep DEF Cursor!Answer, NoCall
  <2>4. ASSUME FlushFront PROVE Cursor!Pop \/ Cursor!PopNothing
    <3>1. it = NoCall /\ it' = NoCall
      BY <2>4, FlushStep DEF FlushFront
    <3>2. CASE td = << >>
      <4>1. answer' = Null /\ UNCHANGED << base, m_prev, got >> /\ base = got
        BY <2>0, <2>4, <3>2, FlushStep DEF end
      <4> QED
        BY <3>1, <4>1 DEF Cursor!PopNothing, NoCall
    <3>3. CASE td # << >>
      <4>1. /\ base' = base + 1 /\ answer' = base + 1 /\ m_prev' = base + 1
            /\ got' = got /\ base < got
        BY <2>0, <2>4, <3>3, FlushStep
      <4> QED
        BY <3>1, <4>1 DEF Cursor!Pop, NoCall
    <3> QED
      BY <3>2, <3>3
  <2>5. CASE UNCHANGED vars
    BY <2>5 DEF vars, Cursor!vars
  <2> QED
    BY <2>1, <2>2, <2>3, <2>4, <2>5 DEF Next, Cursor!Next
<1> QED
  BY <1>1, <1>2, Invariance, PTL DEF Spec, IsACursor, Cursor!Spec
=============================================================================
