----------------------------- MODULE LexerProofs -----------------------------
(***************************************************************************)
(* Proofs about Lexer, for every set of texts and of keywords and however  *)
(* the columns are counted.                                                *)
(***************************************************************************)
EXTENDS Lexer, FiniteSetTheorems, SequenceTheorems, TLAPS

(***************************************************************************)
(* Places in the text                                                      *)
(***************************************************************************)

Place == [pbuf : Nat, line : Int, column : Nat, begin : Nat]

\* A place the lexer can be at: one in the text, whose line is counted right.
PlaceOK(a) == a \in Place /\ a.pbuf > 0 /\ a.line = 1 + Newlines(a.pbuf)

\* One more character is one more newline, or none.
LEMMA NewlinesStep ==
  ASSUME NEW p \in Nat, p > 0
  PROVE  /\ Newlines(p) \in Nat
         /\ Newlines(p + 1) = Newlines(p) + IF CharAt(p) = "\n" THEN 1 ELSE 0
<1> DEFINE S(q) == {i \in 1 .. q - 1 : CharAt(i) = "\n"}
<1>1. IsFiniteSet(S(p)) /\ Cardinality(S(p)) \in Nat
  <2>1. IsFiniteSet(1 .. p - 1) /\ S(p) \in SUBSET (1 .. p - 1)
    BY FS_Interval
  <2> QED
    BY <2>1, FS_Subset, FS_CardinalityType
<1>2. p \notin S(p) /\ S(p + 1) = IF CharAt(p) = "\n" THEN S(p) \union {p} ELSE S(p)
  OBVIOUS
<1>3. Cardinality(S(p) \union {p}) = Cardinality(S(p)) + 1
  BY <1>1, <1>2, FS_AddElement
<1>4. Newlines(p) = Cardinality(S(p)) /\ Newlines(p + 1) = Cardinality(S(p + 1))
  BY DEF Newlines
<1> HIDE DEF S
<1> QED
  BY <1>1, <1>2, <1>3, <1>4

\* The columns stay natural numbers.
LEMMA ColumnType ==
  ASSUME NEW c \in Int
  PROVE  c % Columns \in Nat
BY ColumnsAssumption

\* Reading a character, and a carriage return before it, keeps the line right.
LEMMA GetCharOK ==
  ASSUME NEW a, PlaceOK(a)
  PROVE  PlaceOK(GetChar(a)) /\ GetChar(a).pbuf > a.pbuf
<1>1. /\ NextPos(a) \in Nat /\ NextPos(a) >= a.pbuf
      /\ Newlines(NextPos(a)) = Newlines(a.pbuf)
  BY NewlinesStep DEF NextPos, PlaceOK, Place
<1>2. Newlines(NextPos(a) + 1)
        = Newlines(a.pbuf) + IF CharAt(NextPos(a)) = "\n" THEN 1 ELSE 0
  BY <1>1, NewlinesStep DEF PlaceOK, Place
<1>3. (a.column + 1) % Columns \in Nat
  BY ColumnType DEF PlaceOK, Place
<1>4. /\ a \in Place /\ a.pbuf > 0 /\ a.line = 1 + Newlines(a.pbuf)
      /\ Newlines(a.pbuf) \in Nat
  BY NewlinesStep DEF PlaceOK, Place
<1>5. CASE CharAt(NextPos(a)) = "\n"
  <2>1. GetChar(a) = [pbuf |-> NextPos(a) + 1, line |-> a.line + 1, column |-> 1,
                      begin |-> NextPos(a) + 1]
    BY <1>5 DEF GetChar
  <2> QED
    BY <1>1, <1>2, <1>4, <1>5, <2>1 DEF PlaceOK, Place
<1>6. CASE CharAt(NextPos(a)) # "\n"
  <2>1. GetChar(a) = [pbuf |-> NextPos(a) + 1, line |-> a.line,
                      column |-> (a.column + 1) % Columns, begin |-> a.begin]
    BY <1>4, <1>6 DEF GetChar, Place
  <2> QED
    BY <1>1, <1>2, <1>3, <1>4, <1>6, <2>1 DEF PlaceOK, Place
<1> QED
  BY <1>5, <1>6

\* Putting a character back does, too, whether or not it ends a line.
LEMMA UngetCharOK ==
  ASSUME NEW a, PlaceOK(a), a.pbuf > 1
  PROVE  PlaceOK(UngetChar(a)) /\ UngetChar(a).pbuf = a.pbuf - 1
<1>1. Newlines(a.pbuf)
        = Newlines(a.pbuf - 1) + IF CharAt(a.pbuf - 1) = "\n" THEN 1 ELSE 0
  <2>1. a.pbuf - 1 \in Nat /\ a.pbuf - 1 > 0 /\ (a.pbuf - 1) + 1 = a.pbuf
    BY DEF PlaceOK, Place
  <2> QED
    BY <2>1, NewlinesStep
<1>2. (a.column - 1) % Columns \in Nat
  BY ColumnType DEF PlaceOK, Place
<1>3. Newlines(a.pbuf - 1) \in Nat
  BY NewlinesStep DEF PlaceOK, Place
<1>4. a \in Place /\ a.pbuf > 1 /\ a.line = 1 + Newlines(a.pbuf)
  BY DEF PlaceOK
<1>5. CASE CharAt(a.pbuf - 1) = "\n"
  <2>1. UngetChar(a) = [pbuf |-> a.pbuf - 1, line |-> a.line - 1,
                        column |-> a.column, begin |-> a.begin]
    BY <1>4, <1>5 DEF UngetChar, Place
  <2> QED
    BY <1>1, <1>3, <1>4, <1>5, <2>1 DEF PlaceOK, Place
<1>6. CASE CharAt(a.pbuf - 1) # "\n"
  <2>1. UngetChar(a) = [pbuf |-> a.pbuf - 1, line |-> a.line,
                        column |-> (a.column - 1) % Columns, begin |-> a.begin]
    BY <1>4, <1>6 DEF UngetChar, Place
  <2> QED
    BY <1>1, <1>2, <1>3, <1>4, <1>6, <2>1 DEF PlaceOK, Place
<1> QED
  BY <1>5, <1>6

\* Newlines are counted in the text, which no step changes.
LEMMA NewlinesSame ==
  ASSUME text' = text, NEW p
  PROVE  Newlines(p)' = Newlines(p)
BY DEF Newlines, CharAt

(***************************************************************************)
(* Tokens and reports                                                      *)
(***************************************************************************)

Modes == {"space", "identifier", "number", "string", "char", "bad string", "bad char",
          "put back", "done"}
TokenType  == [type : TokenTypes, value : Seq(AnyChar), line : Int, loc : Int, from : Nat]
OutputType == [type : TokenTypes, value : Seq(AnyChar), line : Int, from : Nat, to : Int]
ReportType == [line : Int, from : Nat]

TokenOK  == token \in TokenType /\ OnItsLine(token)
TokensOK == tokens \in Seq(OutputType) /\ \A k \in DOMAIN tokens : OnItsLine(tokens[k])
ErrorsOK == errors \in Seq(ReportType) /\ \A k \in DOMAIN errors : OnItsLine(errors[k])

\* The inductive invariant.  There is always as much text before the lexer as
\* it still has to put back, so that it never leaves the text at its begin.
LexerInv ==
  /\ text \in Seq(Chars)
  /\ PlaceOK(at)
  /\ mode \in Modes
  /\ count \in Nat /\ count < at.pbuf
  /\ TokenOK /\ TokensOK /\ ErrorsOK

\* A character of the text is one, or the end.
LEMMA CharAtType ==
  ASSUME text \in Seq(Chars), NEW p
  PROVE  CharAt(p) \in AnyChar
<1>1. CASE p \in DOMAIN text
  <2>1. p \in 1 .. Len(text)
    BY <1>1, LenProperties
  <2> QED
    BY <1>1, <2>1, ElementOfSeq DEF CharAt, AnyChar
<1>2. CASE p \notin DOMAIN text
  BY <1>2 DEF CharAt, AnyChar
<1> QED
  BY <1>1, <1>2

\* The values of up to two characters.
LEMMA ShortValues ==
  /\ << >> \in Seq(AnyChar)
  /\ \A c \in AnyChar : << c >> \in Seq(AnyChar) /\ << c, c >> \in Seq(AnyChar)
OBVIOUS

\* A slice of the text is one, even when it ends before it begins.
LEMMA SliceType ==
  ASSUME text \in Seq(Chars), NEW l \in Int, NEW p \in Int
  PROVE  Slice(l, p) \in Seq(AnyChar)
<1> DEFINE n == IF p - l >= 0 THEN p - l ELSE 0
<1>1. n \in Nat /\ 1 .. n = 1 .. p - l
  OBVIOUS
<1>2. Slice(l, p) = [i \in 1 .. n |-> CharAt(l + i - 1)]
  BY <1>1 DEF Slice
<1>3. [i \in 1 .. n |-> CharAt(l + i - 1)] \in [1 .. n -> AnyChar]
  BY CharAtType
<1>4. \A f \in [1 .. n -> AnyChar] : f \in Seq(AnyChar)
  BY <1>1
<1> HIDE DEF n
<1> QED
  BY <1>2, <1>3, <1>4

\* A right place stays right in the next state, which has the same text.
LEMMA PlaceStep ==
  ASSUME text' = text, NEW a, PlaceOK(a), at' = a
  PROVE  PlaceOK(at)'
BY NewlinesSame DEF PlaceOK, Place

\* A new token is on the line it starts on.
LEMMA NewTokenOK ==
  ASSUME PlaceOK(at)
  PROVE  NewToken(at) \in TokenType /\ OnItsLine(NewToken(at))
<1>1. << >> \in Seq(AnyChar)
  BY EmptySeq
<1>2. at.pbuf \in Nat /\ at.line \in Int /\ at.begin \in Nat /\ at.column \in Nat
  BY DEF PlaceOK, Place
<1>3. NewToken(at) = [type |-> "NATK", value |-> << >>, line |-> at.line,
                      loc |-> at.begin + at.column - 1, from |-> at.pbuf]
  BY DEF NewToken
<1> QED
  BY <1>1, <1>2, <1>3 DEF TokenType, TokenTypes, OnItsLine, PlaceOK

\* What a step leaves alone stays right.
LEMMA Unchanged ==
  ASSUME text' = text
  PROVE  /\ TokenOK /\ token' = token => TokenOK'
         /\ TokensOK /\ tokens' = tokens => TokensOK'
         /\ ErrorsOK /\ errors' = errors => ErrorsOK'
BY NewlinesSame DEF TokenOK, TokensOK, ErrorsOK, OnItsLine

\* So does a token that only gets another value or type.
LEMMA TokenStep ==
  ASSUME text' = text, NEW t \in TokenType, OnItsLine(t), NEW ty \in TokenTypes,
         NEW v \in Seq(AnyChar), token' = [t EXCEPT !.type = ty, !.value = v]
  PROVE  TokenOK'
<1>1. token' \in TokenType /\ token'.line = t.line /\ token'.from = t.from
  BY DEF TokenType
<1> QED
  BY <1>1, NewlinesSame DEF TokenOK, OnItsLine

\* A token that is returned is on its line, like those before.
LEMMA ReturnOK ==
  ASSUME text' = text, PlaceOK(at)', TokensOK, NEW t \in TokenType, OnItsLine(t),
         NEW ty \in TokenTypes, NEW v \in Seq(AnyChar), Return(t, ty, v)
  PROVE  TokenOK' /\ TokensOK' /\ mode' \in Modes
<1> DEFINE o == [type |-> ty, value |-> v, line |-> t.line, from |-> t.from,
                 to |-> EndBefore(at'.pbuf)]
<1>1. TokenOK' /\ mode' \in Modes
  BY TokenStep DEF Return, Modes
<1>2. o \in OutputType /\ o.line = t.line /\ o.from = t.from
  BY DEF TokenType, OutputType, EndBefore, PlaceOK, Place
<1>3. tokens' = Append(tokens, o)
  BY DEF Return
<1> HIDE DEF o
<1>4. tokens' \in Seq(OutputType) /\ Len(tokens') = Len(tokens) + 1
  BY <1>2, <1>3 DEF TokensOK
<1>5. ASSUME NEW k \in DOMAIN tokens'
      PROVE  OnItsLine(tokens'[k])
  BY <1>2, <1>3, <1>4, <1>5 DEF TokensOK, OnItsLine
<1>6. \A k \in DOMAIN tokens' : OnItsLine(tokens[k])'
  BY <1>5, NewlinesSame DEF OnItsLine
<1> QED
  BY <1>1, <1>4, <1>6 DEF TokensOK

\* So is a report.
LEMMA ReportOK ==
  ASSUME text' = text, ErrorsOK, NEW t \in TokenType, OnItsLine(t), Report(t)
  PROVE  ErrorsOK'
<1> DEFINE r == [line |-> t.line, from |-> t.from]
<1>1. r \in ReportType /\ r.line = t.line /\ r.from = t.from
  BY DEF TokenType, ReportType
<1>2. errors' = Append(errors, r)
  BY DEF Report
<1> HIDE DEF r
<1>3. errors' \in Seq(ReportType) /\ Len(errors') = Len(errors) + 1
  BY <1>1, <1>2 DEF ErrorsOK
<1>4. ASSUME NEW k \in DOMAIN errors'
      PROVE  OnItsLine(errors'[k])
  BY <1>1, <1>2, <1>3, <1>4 DEF ErrorsOK, OnItsLine
<1>5. \A k \in DOMAIN errors' : OnItsLine(errors[k])'
  BY <1>4, NewlinesSame DEF OnItsLine
<1> QED
  BY <1>3, <1>5 DEF ErrorsOK

(***************************************************************************)
(* The invariant                                                           *)
(***************************************************************************)

\* Where GetChar leads from the place the lexer is at.
LEMMA ReadOn ==
  ASSUME LexerInv, text' = text, at' = GetChar(at), count' = count
  PROVE  /\ PlaceOK(at)' /\ text' \in Seq(Chars)
         /\ count' \in Nat /\ count' < at'.pbuf
<1>1. PlaceOK(GetChar(at)) /\ GetChar(at).pbuf > at.pbuf
  BY GetCharOK DEF LexerInv
<1> QED
  BY <1>1, PlaceStep DEF LexerInv, PlaceOK, Place

\* A character that is read to be looked at, and put back, leaves the lexer no
\* further back than it was.
LEMMA ReadAndPutBack ==
  ASSUME LexerInv, text' = text, at' = UngetChar(GetChar(at)), count' = count
  PROVE  /\ PlaceOK(at)' /\ text' \in Seq(Chars)
         /\ count' \in Nat /\ count' < at'.pbuf
<1>1. PlaceOK(GetChar(at)) /\ GetChar(at).pbuf > at.pbuf
  BY GetCharOK DEF LexerInv
<1>2. GetChar(at).pbuf > 1
  BY <1>1 DEF LexerInv, PlaceOK, Place
<1>3. /\ PlaceOK(UngetChar(GetChar(at)))
      /\ UngetChar(GetChar(at)).pbuf = GetChar(at).pbuf - 1
  BY <1>1, <1>2, UngetCharOK
<1> QED
  BY <1>1, <1>3, PlaceStep DEF LexerInv, PlaceOK, Place

\* A character is added to the value of the token.
LEMMA AppendOK ==
  ASSUME LexerInv, text' = text, token' = [token EXCEPT !.value = Append(@, NextChar(at))]
  PROVE  TokenOK'
<1>1. NextChar(at) \in AnyChar
  BY CharAtType DEF LexerInv, NextChar
<1>2. token \in TokenType /\ OnItsLine(token)
  BY DEF LexerInv, TokenOK
<1>3. token.value \in Seq(AnyChar)
  BY <1>2 DEF TokenType
<1>4. Append(token.value, NextChar(at)) \in Seq(AnyChar)
  BY <1>1, <1>3
<1>5. token' \in TokenType /\ token'.line = token.line /\ token'.from = token.from
  BY <1>2, <1>4 DEF TokenType
<1> QED
  BY <1>2, <1>5, NewlinesSame DEF TokenOK, OnItsLine

\* A token that is the text from its start to where the lexer goes.
LEMMA MakeTokenStep ==
  ASSUME LexerInv, mode = "space", NEW ty \in TokenTypes, NEW a,
         PlaceOK(a), a.pbuf > at.pbuf, MakeToken(ty, a)
  PROVE  LexerInv'
<1> DEFINE t == NewToken(at)
<1>1. text' = text /\ at' = a /\ count' = count /\ errors' = errors
  BY DEF MakeToken
<1>2. t \in TokenType /\ OnItsLine(t)
  BY NewTokenOK DEF LexerInv
<1>3. PlaceOK(at)' /\ count' \in Nat /\ count' < at'.pbuf
  BY <1>1, PlaceStep DEF LexerInv, PlaceOK, Place
<1>4. Slice(t.loc, a.pbuf) \in Seq(AnyChar)
  BY <1>2, SliceType DEF LexerInv, TokenType, PlaceOK, Place
<1>5. Return(t, ty, Slice(t.loc, a.pbuf))
  BY DEF MakeToken
<1> HIDE DEF t
<1>6. TokenOK' /\ TokensOK' /\ mode' \in Modes
  BY <1>1, <1>2, <1>3, <1>4, <1>5, ReturnOK DEF LexerInv
<1> QED
  BY <1>1, <1>3, <1>6, Unchanged DEF LexerInv

\* The steps of GetToken itself keep the invariant: they start a token, return
\* one, or skip a character.
LEMMA GetTokenStep ==
  ASSUME LexerInv,
         \/ SkipSpace \/ BeginIdentifier \/ BeginOther \/ GetDelimiter
         \/ GetComparison \/ GetEof \/ SkipIllegal
  PROVE  LexerInv'
<1>0. /\ NewToken(at) \in TokenType /\ OnItsLine(NewToken(at))
      /\ PlaceOK(GetChar(at)) /\ GetChar(at).pbuf > at.pbuf
      /\ NewToken(at).value = << >> /\ NewToken(at).type = "NATK"
  BY NewTokenOK, GetCharOK DEF LexerInv, NewToken
<1>1. CASE SkipSpace
  BY <1>1, ReadOn, Unchanged DEF SkipSpace, LexerInv
<1>2. CASE BeginIdentifier
  <2>1. text' = text /\ at' = at /\ token' = NewToken(at) /\ count' = count
        /\ tokens' = tokens /\ errors' = errors /\ mode' = "identifier"
    BY <1>2 DEF BeginIdentifier
  <2>2. TokenOK'
    BY <1>0, <2>1, NewlinesSame DEF TokenOK, OnItsLine
  <2> QED
    BY <2>1, <2>2, PlaceStep, Unchanged DEF LexerInv, Modes
<1>3. CASE BeginOther
  <2>1. PICK c \in Digits \union {"'", "\""} :
          /\ c = Peek /\ at' = GetChar(at)
          /\ token' = [NewToken(at) EXCEPT !.value = IF c \in Digits THEN << c >> ELSE << >>]
    BY <1>3 DEF BeginOther, Begin
  <2>2. /\ text' = text /\ count' = count /\ tokens' = tokens /\ errors' = errors
        /\ mode' \in Modes
    BY <1>3 DEF BeginOther, Modes
  <2>3. (IF c \in Digits THEN << c >> ELSE << >>) \in Seq(AnyChar)
    <3>1. c \in AnyChar
      BY <2>1, CharAtType DEF LexerInv, Peek
    <3>2. << c >> \in Seq(AnyChar) /\ << >> \in Seq(AnyChar)
      BY <3>1, ShortValues
    <3> QED
      BY <3>2
  <2>4. token' = [NewToken(at) EXCEPT !.type = "NATK",
                                      !.value = IF c \in Digits THEN << c >> ELSE << >>]
    BY <1>0, <2>1 DEF NewToken
  <2>5. TokenOK'
    BY <1>0, <2>2, <2>3, <2>4, TokenStep DEF TokenTypes
  <2> QED
    BY <2>1, <2>2, <2>5, ReadOn, Unchanged DEF LexerInv
<1>4. CASE GetDelimiter
  <2>1. PICK c \in DOMAIN Delimiters : mode = "space" /\ MakeToken(Delimiters[c], GetChar(at))
    BY <1>4 DEF GetDelimiter, Begin
  <2>2. Delimiters[c] \in TokenTypes
    BY DEF Delimiters, TokenTypes
  <2> QED
    BY <1>0, <2>1, <2>2, MakeTokenStep
<1>5. CASE GetComparison
  <2>1. PICK c \in DOMAIN Comparisons :
          /\ mode = "space"
          /\ \/ MakeToken(Comparisons[c][2], GetChar(GetChar(at)))
             \/ MakeToken(Comparisons[c][1], GetChar(at))
    BY <1>5 DEF GetComparison, Begin
  <2>2. Comparisons[c][1] \in TokenTypes /\ Comparisons[c][2] \in TokenTypes
    BY DEF Comparisons, TokenTypes
  <2>3. PlaceOK(GetChar(GetChar(at))) /\ GetChar(GetChar(at)).pbuf > at.pbuf
    <3>1. PlaceOK(GetChar(GetChar(at))) /\ GetChar(GetChar(at)).pbuf > GetChar(at).pbuf
      BY <1>0, GetCharOK
    <3> QED
      BY <1>0, <3>1 DEF LexerInv, PlaceOK, Place
  <2> QED
    BY <1>0, <2>1, <2>2, <2>3, MakeTokenStep
<1>6. CASE GetEof
  BY <1>0, <1>6, MakeTokenStep DEF GetEof, Begin, TokenTypes
<1>7. CASE SkipIllegal
  <2>1. /\ text' = text /\ at' = GetChar(at) /\ token' = NewToken(at) /\ count' = count
        /\ tokens' = tokens /\ mode' = mode /\ Report(NewToken(at))
    BY <1>7 DEF SkipIllegal
  <2>2. TokenOK'
    BY <1>0, <2>1, NewlinesSame DEF TokenOK, OnItsLine
  <2>3. ErrorsOK'
    BY <1>0, <2>1, ReportOK DEF LexerInv
  <2> QED
    BY <2>1, <2>2, <2>3, ReadOn, Unchanged DEF LexerInv
<1> QED
  BY <1>1, <1>2, <1>3, <1>4, <1>5, <1>6, <1>7

\* A character of an identifier is added to it, reported, or put back.
LEMMA SkipIdentifierStep ==
  ASSUME LexerInv, SkipIdentifier
  PROVE  LexerInv'
<1>1. text' = text /\ count' = count
  BY DEF SkipIdentifier
<1>2. CASE NextChar(at) \in EndsIdentifier
  <2> DEFINE ty == IF token.value \in Keywords THEN "keyword" ELSE "IDENFR"
  <2>1. /\ at' = UngetChar(GetChar(at)) /\ errors' = errors
        /\ Return(token, ty, token.value)
    BY <1>2 DEF SkipIdentifier
  <2>2. ty \in TokenTypes
    BY DEF TokenTypes
  <2>3. /\ token \in TokenType /\ OnItsLine(token) /\ token.value \in Seq(AnyChar)
    BY DEF LexerInv, TokenOK, TokenType
  <2> HIDE DEF ty
  <2>4. PlaceOK(at)' /\ count' \in Nat /\ count' < at'.pbuf
    BY <1>1, <2>1, ReadAndPutBack
  <2>5. TokenOK' /\ TokensOK' /\ mode' \in Modes
    BY <1>1, <2>1, <2>2, <2>3, <2>4, ReturnOK DEF LexerInv
  <2> QED
    BY <1>1, <2>1, <2>4, <2>5, Unchanged DEF LexerInv
<1>3. CASE NextChar(at) \notin EndsIdentifier
  <2>1. at' = GetChar(at) /\ mode' = mode /\ tokens' = tokens
    BY <1>3 DEF SkipIdentifier
  <2>2. CASE NextChar(at) \in AlphaNums
    <3>1. errors' = errors /\ token' = [token EXCEPT !.value = Append(@, NextChar(at))]
      BY <1>3, <2>2 DEF SkipIdentifier
    <3>2. TokenOK'
      BY <1>1, <3>1, AppendOK
    <3> QED
      BY <1>1, <2>1, <3>1, <3>2, ReadOn, Unchanged DEF LexerInv
  <2>3. CASE NextChar(at) \notin AlphaNums
    <3>1. token' = token /\ Report(token)
      BY <1>3, <2>3 DEF SkipIdentifier
    <3>2. ErrorsOK'
      BY <1>1, <3>1, ReportOK DEF LexerInv, TokenOK
    <3> QED
      BY <1>1, <2>1, <3>1, <3>2, ReadOn, Unchanged DEF LexerInv
  <2> QED
    BY <2>2, <2>3
<1> QED
  BY <1>2, <1>3

\* A digit is added to a number; anything else is put back.
LEMMA SkipNumberStep ==
  ASSUME LexerInv, SkipNumber
  PROVE  LexerInv'
<1>1. text' = text /\ count' = count /\ errors' = errors
  BY DEF SkipNumber
<1>2. CASE NextChar(at) \in Digits
  <2>1. /\ at' = GetChar(at) /\ mode' = mode /\ tokens' = tokens
        /\ token' = [token EXCEPT !.value = Append(@, NextChar(at))]
    BY <1>2 DEF SkipNumber
  <2>2. TokenOK'
    BY <1>1, <2>1, AppendOK
  <2> QED
    BY <1>1, <2>1, <2>2, ReadOn, Unchanged DEF LexerInv
<1>3. CASE NextChar(at) \notin Digits
  <2>1. at' = UngetChar(GetChar(at)) /\ Return(token, "INTCON", token.value)
    BY <1>3 DEF SkipNumber
  <2>2. /\ token \in TokenType /\ OnItsLine(token) /\ token.value \in Seq(AnyChar)
    BY DEF LexerInv, TokenOK, TokenType
  <2>3. PlaceOK(at)' /\ count' \in Nat /\ count' < at'.pbuf
    BY <1>1, <2>1, ReadAndPutBack
  <2>4. TokenOK' /\ TokensOK' /\ mode' \in Modes
    BY <1>1, <2>1, <2>2, <2>3, ReturnOK DEF LexerInv, TokenTypes
  <2> QED
    BY <1>1, <2>1, <2>3, <2>4, Unchanged DEF LexerInv
<1> QED
  BY <1>2, <1>3

\* A character of a string is added to it; others end it or start a search.
LEMMA SkipStringStep ==
  ASSUME LexerInv, SkipString
  PROVE  LexerInv'
<1> DEFINE c == NextChar(at)
<1>1. text' = text /\ errors' = errors /\ at' = GetChar(at)
  BY DEF SkipString
<1>2. /\ token \in TokenType /\ OnItsLine(token) /\ token.value \in Seq(AnyChar)
  BY DEF LexerInv, TokenOK, TokenType
<1>3. CASE IsSpecialAscii(c)
  <2>1. /\ token' = [token EXCEPT !.value = @ \o Escaped(c)]
        /\ mode' = mode /\ count' = count /\ tokens' = tokens
    BY <1>3 DEF SkipString, IsSpecialAscii, NUL
  <2>2. Escaped(c) \in Seq(AnyChar)
    <3>1. c \in AnyChar
      BY CharAtType DEF LexerInv, NextChar
    <3> QED
      BY <3>1, ShortValues DEF Escaped
  <2>3. token.value \o Escaped(c) \in Seq(AnyChar)
    BY <1>2, <2>2, ConcatProperties
  <2>4. /\ token' \in TokenType
        /\ token'.line = token.line /\ token'.from = token.from
    BY <1>2, <2>1, <2>3 DEF TokenType
  <2>5. TokenOK'
    BY <1>1, <1>2, <2>4, NewlinesSame DEF TokenOK, OnItsLine
  <2> QED
    BY <1>1, <2>1, <2>5, ReadOn, Unchanged DEF LexerInv
<1>4. CASE ~ IsSpecialAscii(c) /\ c \in {"\"", NUL}
  <2>1. count' = count /\ Return(token, IF c = NUL THEN "EOFTK" ELSE "STRCON", token.value)
    BY <1>4 DEF SkipString
  <2>2. (IF c = NUL THEN "EOFTK" ELSE "STRCON") \in TokenTypes
    BY DEF TokenTypes
  <2>3. PlaceOK(at)' /\ count' \in Nat /\ count' < at'.pbuf
    BY <1>1, <2>1, ReadOn
  <2>4. TokenOK' /\ TokensOK' /\ mode' \in Modes
    BY <1>1, <1>2, <2>1, <2>2, <2>3, ReturnOK DEF LexerInv
  <2> QED
    BY <1>1, <2>1, <2>3, <2>4, Unchanged DEF LexerInv
<1>5. CASE ~ IsSpecialAscii(c) /\ c \notin {"\"", NUL}
  <2>1. mode' = "bad string" /\ count' = 1 /\ token' = token /\ tokens' = tokens
    BY <1>5 DEF SkipString
  <2>2. PlaceOK(at)' /\ at'.pbuf > 1
    <3>1. PlaceOK(GetChar(at)) /\ GetChar(at).pbuf > at.pbuf
      BY GetCharOK DEF LexerInv
    <3> QED
      BY <1>1, <3>1, PlaceStep DEF LexerInv, PlaceOK, Place
  <2> QED
    BY <1>1, <2>1, <2>2, Unchanged DEF LexerInv, Modes
<1> QED
  BY <1>3, <1>4, <1>5

\* A character constant is two characters, or starts a search.
LEMMA SkipCharStep ==
  ASSUME LexerInv, SkipChar
  PROVE  LexerInv'
<1> DEFINE c1 == NextChar(at)
           a  == GetChar(GetChar(at))
<1>1. text' = text /\ at' = a
  BY DEF SkipChar
<1>2. /\ token \in TokenType /\ OnItsLine(token) /\ << c1 >> \in Seq(AnyChar)
  BY CharAtType, ShortValues DEF LexerInv, TokenOK, NextChar
<1>3. PlaceOK(a) /\ a.pbuf > at.pbuf /\ a.pbuf > 1
  <2>1. PlaceOK(GetChar(at)) /\ GetChar(at).pbuf > at.pbuf
    BY GetCharOK DEF LexerInv
  <2>2. PlaceOK(a) /\ a.pbuf > GetChar(at).pbuf
    BY <2>1, GetCharOK
  <2> QED
    BY <2>1, <2>2 DEF LexerInv, PlaceOK, Place
<1>4. PlaceOK(at)' /\ at'.pbuf > at.pbuf /\ at'.pbuf > 1
  BY <1>1, <1>3, PlaceStep
<1>5. CASE NextChar(GetChar(at)) = "'"
  <2>1. /\ Return(token, "CHARCON", << c1 >>) /\ count' = count
        /\ errors' = errors \/ Report(token)
    BY <1>5 DEF SkipChar
  <2>2. TokenOK' /\ TokensOK' /\ mode' \in Modes
    BY <1>1, <1>2, <1>4, <2>1, ReturnOK DEF LexerInv, TokenTypes
  <2>3. ErrorsOK'
    BY <1>1, <1>2, <2>1, ReportOK, Unchanged DEF LexerInv
  <2> QED
    BY <1>1, <1>4, <2>1, <2>2, <2>3 DEF LexerInv, PlaceOK, Place
<1>6. CASE NextChar(GetChar(at)) # "'"
  <2>1. /\ token' = [token EXCEPT !.value = << c1 >>] /\ mode' = "bad char" /\ count' = 1
        /\ tokens' = tokens /\ errors' = errors
    BY <1>6 DEF SkipChar
  <2>2. /\ token' \in TokenType
        /\ token'.line = token.line /\ token'.from = token.from
    BY <1>2, <2>1 DEF TokenType
  <2>3. TokenOK'
    BY <1>1, <1>2, <2>2, NewlinesSame DEF TokenOK, OnItsLine
  <2> QED
    BY <1>1, <1>4, <2>1, <2>3, Unchanged DEF LexerInv, Modes
<1> QED
  BY <1>5, <1>6

\* A search reads one character and has one more to put back.
LEMMA SearchQuoteStep ==
  ASSUME LexerInv, NEW m, NEW q, NEW ty \in TokenTypes, SearchQuote(m, q, ty)
  PROVE  LexerInv'
<1>1. text' = text
  BY DEF SearchQuote
<1>2. /\ token \in TokenType /\ OnItsLine(token) /\ token.value \in Seq(AnyChar)
  BY DEF LexerInv, TokenOK, TokenType
<1>3. CASE LastRead # "\n"
  <2>1. at' = GetChar(at) /\ count' = count + 1
    BY <1>3 DEF SearchQuote
  <2>2. PlaceOK(at)' /\ count' \in Nat /\ count' < at'.pbuf
    <3>1. PlaceOK(GetChar(at)) /\ GetChar(at).pbuf > at.pbuf
      BY GetCharOK DEF LexerInv
    <3> QED
      BY <1>1, <2>1, <3>1, PlaceStep DEF LexerInv, PlaceOK, Place
  <2>3. CASE NextChar(at) = q
    <3>1. Return(token, ty, token.value) /\ (errors' = errors \/ Report(token))
      BY <1>3, <2>3 DEF SearchQuote
    <3>2. TokenOK' /\ TokensOK' /\ mode' \in Modes
      BY <1>1, <1>2, <2>2, <3>1, ReturnOK DEF LexerInv
    <3>3. ErrorsOK'
      BY <1>1, <1>2, <3>1, ReportOK, Unchanged DEF LexerInv
    <3> QED
      BY <1>1, <2>2, <3>2, <3>3 DEF LexerInv
  <2>4. CASE NextChar(at) # q
    <3>1. UNCHANGED << mode, token, tokens, errors >>
      BY <1>3, <2>4 DEF SearchQuote
    <3> QED
      BY <1>1, <2>2, <3>1, Unchanged DEF LexerInv
  <2> QED
    BY <2>3, <2>4
<1>4. CASE LastRead = "\n"
  <2>1. /\ mode' = "put back" /\ token' = [token EXCEPT !.type = ty]
        /\ UNCHANGED << at, count, tokens, errors >>
    BY <1>4 DEF SearchQuote
  <2>2. /\ token' \in TokenType
        /\ token'.line = token.line /\ token'.from = token.from
    BY <1>2, <2>1 DEF TokenType
  <2>3. TokenOK'
    BY <1>1, <1>2, <2>2, NewlinesSame DEF TokenOK, OnItsLine
  <2> QED
    BY <1>1, <2>1, <2>3, PlaceStep, Unchanged DEF LexerInv, Modes
<1> QED
  BY <1>3, <1>4

\* Putting back goes back by one and has one less to put back.
LEMMA PutBackStep ==
  ASSUME LexerInv, PutBack
  PROVE  LexerInv'
<1>1. text' = text
  BY DEF PutBack
<1>2. CASE count > 0
  <2>1. /\ at' = UngetChar(at) /\ count' = count - 1
        /\ UNCHANGED << mode, token, tokens, errors >>
    BY <1>2 DEF PutBack
  <2>2. PlaceOK(UngetChar(at)) /\ UngetChar(at).pbuf = at.pbuf - 1
    BY <1>2, UngetCharOK DEF LexerInv, PlaceOK, Place
  <2>3. PlaceOK(at)' /\ count' \in Nat /\ count' < at'.pbuf
    BY <1>1, <1>2, <2>1, <2>2, PlaceStep DEF LexerInv, PlaceOK, Place
  <2> QED
    BY <1>1, <2>1, <2>3, Unchanged DEF LexerInv
<1>3. CASE ~ (count > 0)
  <2>1. /\ at' = at /\ count' = count /\ Report(token)
        /\ Return(token, token.type, token.value)
    BY <1>3 DEF PutBack
  <2>2. /\ token \in TokenType /\ OnItsLine(token)
        /\ token.value \in Seq(AnyChar) /\ token.type \in TokenTypes
    BY DEF LexerInv, TokenOK, TokenType
  <2>3. PlaceOK(at)'
    BY <1>1, <2>1, PlaceStep DEF LexerInv
  <2>4. TokenOK' /\ TokensOK' /\ mode' \in Modes
    BY <1>1, <2>1, <2>2, <2>3, ReturnOK DEF LexerInv
  <2>5. ErrorsOK'
    BY <1>1, <2>1, <2>2, ReportOK DEF LexerInv
  <2> QED
    BY <1>1, <2>1, <2>3, <2>4, <2>5 DEF LexerInv
<1> QED
  BY <1>2, <1>3

\* The invariant holds in every state of every behaviour.
LEMMA Invariance == Spec => []LexerInv
<1>1. Init => LexerInv
  <2> SUFFICES ASSUME Init PROVE LexerInv
    OBVIOUS
  <2>1. Newlines(1) = 0
    <3>1. {i \in 1 .. 1 - 1 : CharAt(i) = "\n"} = {}
      OBVIOUS
    <3> QED
      BY <3>1, FS_EmptySet DEF Newlines
  <2>2. PlaceOK(at)
    BY <2>1 DEF Init, PlaceOK, Place
  <2>3. TokenOK
    BY <2>2, NewTokenOK DEF Init, TokenOK
  <2>4. TokensOK /\ ErrorsOK
    BY DEF Init, TokensOK, ErrorsOK
  <2>5. text \in Seq(Chars)
    BY TextsAssumption DEF Init
  <2> QED
    BY <2>2, <2>3, <2>4, <2>5 DEF Init, LexerInv, Modes, Place
<1>2. LexerInv /\ [Next]_vars => LexerInv'
  <2> SUFFICES ASSUME LexerInv, [Next]_vars PROVE LexerInv'
    OBVIOUS
  <2>1. CASE \/ SkipSpace \/ BeginIdentifier \/ BeginOther \/ GetDelimiter
             \/ GetComparison \/ GetEof \/ SkipIllegal
    BY <2>1, GetTokenStep
  <2>2. CASE SkipIdentifier \/ SkipNumber
    BY <2>2, SkipIdentifierStep, SkipNumberStep
  <2>3. CASE SkipString \/ SkipChar
    BY <2>3, SkipStringStep, SkipCharStep
  <2>4. CASE SearchString \/ SearchChar
    BY <2>4, SearchQuoteStep DEF SearchString, SearchChar, TokenTypes
  <2>5. CASE PutBack
    BY <2>5, PutBackStep
  <2>6. CASE UNCHANGED vars
    BY <2>6, PlaceStep, Unchanged DEF vars, LexerInv
  <2> QED
    BY <2>1, <2>2, <2>3, <2>4, <2>5, <2>6 DEF Next
<1> QED
  BY <1>1, <1>2, PTL DEF Spec

(***************************************************************************)
(* Theorems                                                                *)
(***************************************************************************)

\* Whatever the text, the state of the lexer and its tokens and reports are
\* well typed; in particular it never has a negative number of characters to
\* put back (the loops of SkipString and SkipChar).
THEOREM TypeCorrect == Spec => []TypeOK
<1>1. LexerInv => TypeOK
  BY DEF LexerInv, TypeOK, PlaceOK, Place, Modes, TokenOK, TokensOK, ErrorsOK,
         TokenType, OutputType, ReportType
<1> QED
  BY <1>1, Invariance, PTL

\* Whatever the text, the line the lexer counts, and those of its tokens and of
\* its reports, are the lines they are on, although UngetChar goes back over
\* newlines (GetChar, UngetChar).
THEOREM LinesCorrect == Spec => []LinesAreRight
<1>1. LexerInv => LinesAreRight
  BY DEF LexerInv, LinesAreRight, PlaceOK, TokenOK, TokensOK, ErrorsOK
<1> QED
  BY <1>1, Invariance, PTL

\* Whatever the text, putting characters back never leads before its first one.
THEOREM NeverBeforeText == Spec => [](at.pbuf > count)
<1>1. LexerInv => at.pbuf > count
  BY DEF LexerInv, PlaceOK, Place
<1> QED
  BY <1>1, Invariance, PTL
==============================================================================
