-------------------------------- MODULE Lexer --------------------------------
(***************************************************************************)
(* Lexer: the tokens of a source text, called for one after another until  *)
(* the end of the text.                                                    *)
(*                                                                         *)
(* The text is a sequence of characters, which are strings; NUL follows    *)
(* the last.  One step handles one character of a token, and mode says     *)
(* which function is reading it.  Of a report of a lexical error, its line *)
(* is kept; letters and digits are represented by two of each.             *)
(***************************************************************************)
EXTENDS Integers, Sequences, FiniteSets

CONSTANTS Chars,        \* characters
          Texts,        \* source texts
          Keywords,     \* the spellings of reserved words
          Columns       \* columns are counted modulo this (2^32 in the code)

\* A program ends with the brace of main and a newline: without them
\* a token that starts at the end would be read beyond the buffer.  A carriage
\* return comes before a newline.
Closed(t) ==
  /\ Len(t) > 1 /\ t[Len(t) - 1] = "}" /\ t[Len(t)] = "\n"
  /\ \A i \in 1 .. Len(t) - 1 : t[i] = "\r" => t[i + 1] = "\n"

ASSUME TextsAssumption == \A t \in Texts : t \in Seq(Chars) /\ Closed(t)
ASSUME ColumnsAssumption == Columns \in Nat \ {0}

VARIABLES text,         \* the source text
          at,           \* m_pbuf and m_loc, as a record
          mode,         \* the function that reads the next character
          token,        \* m_token: type, value, m_loc; from is where it starts
          count,        \* how many characters SkipString or SkipChar puts back
          tokens,       \* the tokens returned, each with its end
          errors        \* the reports of error 'a': the line, and where its token starts

vars == << text, at, mode, token, count, tokens, errors >>

(***************************************************************************)
(* Characters                                                              *)
(***************************************************************************)

NUL     == "NUL"
AnyChar == Chars \union {NUL}
Spaces  == {" ", "\t", "\n", "\r"}
Digits  == {"0", "1"}
Alphas  == {"a", "b"}
AlphaNums == Alphas \union Digits \union {"_"}

\* The characters that end an identifier; "}", quotes and tabs do not.
EndsIdentifier ==
  {"\n", "(", ")", "{", " ", "=", ";", "[", "]", "+", "-", "*", "/", ">", "<", "!", ","}

IsExtendedAlnum(c) == c \in AlphaNums \union {"+", "-", "*", "/"}
\* A string holds every printable character but the quote, "#" and "~".
IsSpecialAscii(c)  == c \notin {"\"", "#", "~", "\t", "\n", "\r", NUL}

Delimiters == [c \in {"+", "-", "*", "/", ";", ",", "(", ")", "[", "]", "{", "}"} |->
  CASE c = "+" -> "PLUS" [] c = "-" -> "MINU" [] c = "*" -> "MULT" [] c = "/" -> "DIV"
    [] c = ";" -> "SEMICN" [] c = "," -> "COMMA" [] c = "(" -> "LPARENT"
    [] c = ")" -> "RPARENT" [] c = "[" -> "LBRACK" [] c = "]" -> "RBRACK"
    [] c = "{" -> "LBRACE" [] c = "}" -> "RBRACE"]

\* The types of "<" and the like, alone and with "=" after.
Comparisons == [c \in {"<", ">", "=", "!"} |->
  CASE c = "<" -> << "LSS", "LEQ" >> [] c = ">" -> << "GRE", "GEQ" >>
    [] c = "=" -> << "ASSIGN", "EQL" >> [] c = "!" -> << "NATK", "NEQ" >>]

\* The types of tokens (TokenType); the reserved words are taken together.
TokenTypes == {"NATK", "EOFTK", "IDENFR", "keyword", "INTCON", "CHARCON", "STRCON",
               "PLUS", "MINU", "MULT", "DIV", "LSS", "LEQ", "GRE", "GEQ", "EQL", "NEQ", "ASSIGN",
               "SEMICN", "COMMA", "LPARENT", "RPARENT", "LBRACK", "RBRACK", "LBRACE", "RBRACE"}

(***************************************************************************)
(* Reading                                                                 *)
(***************************************************************************)

CharAt(p) == IF p \in DOMAIN text THEN text[p] ELSE NUL
Peek      == CharAt(at.pbuf)

\* Where the character that GetChar returns is: it skips a carriage return.
NextPos(a)  == IF CharAt(a.pbuf) = "\r" THEN a.pbuf + 1 ELSE a.pbuf
NextChar(a) == CharAt(NextPos(a))

GetChar(a) ==
  LET p == NextPos(a)
  IN  IF CharAt(p) = "\n"
        THEN [pbuf |-> p + 1, line |-> a.line + 1, column |-> 1, begin |-> p + 1]
        ELSE [a EXCEPT !.pbuf = p + 1, !.column = (@ + 1) % Columns]

\* Mutation: a newline that is put back is still counted.
UngetCharOnLine(a) == [a EXCEPT !.pbuf = @ - 1, !.column = (@ - 1) % Columns]

\* Neither the column nor the begin of the line before a newline comes back.
UngetChar(a) ==
  IF CharAt(a.pbuf - 1) = "\n" THEN [a EXCEPT !.pbuf = @ - 1, !.line = @ - 1]
  ELSE [a EXCEPT !.pbuf = @ - 1, !.column = (@ - 1) % Columns]

NewToken(a) == [type |-> "NATK", value |-> << >>, line |-> a.line,
                loc |-> a.begin + a.column - 1, from |-> a.pbuf]

Init ==
  /\ text \in Texts
  /\ at = [pbuf |-> 1, line |-> 1, column |-> 1, begin |-> 1]
  /\ mode = "space"
  /\ token = NewToken(at)
  /\ count = 0
  /\ tokens = << >> /\ errors = << >>

\* The last character before p that is no carriage return.
EndBefore(p) == IF CharAt(p - 1) = "\r" THEN p - 2 ELSE p - 1

\* Token t is returned, with type ty and value v, and ends where the lexer is.
Return(t, ty, v) ==
  /\ token' = [t EXCEPT !.type = ty, !.value = v]
  /\ tokens' = Append(tokens, [type |-> ty, value |-> v, line |-> t.line,
                               from |-> t.from, to |-> EndBefore(at'.pbuf)])
  /\ mode' = IF ty = "EOFTK" THEN "done" ELSE "space"

Report(t) == errors' = Append(errors, [line |-> t.line, from |-> t.from])

(***************************************************************************)
(* GetToken                                                                *)
(***************************************************************************)

SkipSpace ==
  /\ mode = "space" /\ Peek \in Spaces
  /\ at' = GetChar(at)
  /\ UNCHANGED << text, mode, token, count, tokens, errors >>

\* c is the first character of a token.
Begin(c) == mode = "space" /\ Peek \notin Spaces /\ c = Peek

BeginIdentifier ==
  \E c \in Alphas \union {"_"} :
    /\ Begin(c)
    /\ token' = NewToken(at)
    /\ mode' = "identifier"
    /\ UNCHANGED << text, at, count, tokens, errors >>

\* A digit, a single or a double quote.
BeginOther ==
  \E c \in Digits \union {"'", "\""} :
    /\ Begin(c)
    /\ at' = GetChar(at)
    /\ token' = [NewToken(at) EXCEPT !.value = IF c \in Digits THEN << c >> ELSE << >>]
    /\ mode' = CASE c = "'" -> "char" [] c = "\"" -> "string" [] OTHER -> "number"
    /\ UNCHANGED << text, count, tokens, errors >>

\* The text from loc up to p, in which there is no newline.
Slice(loc, p) == [i \in 1 .. p - loc |-> CharAt(loc + i - 1)]

\* A token of type ty that starts here and ends where a is; its value is the
\* text since its location.
MakeToken(ty, a) ==
  LET t == NewToken(at)
  IN  /\ at' = a
      /\ Return(t, ty, Slice(t.loc, a.pbuf))
      /\ UNCHANGED << text, count, errors >>

\* Mutation: "=" is not looked for.
GetComparisonShort ==
  \E c \in DOMAIN Comparisons : Begin(c) /\ MakeToken(Comparisons[c][1], GetChar(at))

GetDelimiter ==
  \E c \in DOMAIN Delimiters : Begin(c) /\ MakeToken(Delimiters[c], GetChar(at))

\* Only the next character is looked at, so a carriage return is no "=".
GetComparison ==
  \E c \in DOMAIN Comparisons :
    LET a == GetChar(at)
    IN  /\ Begin(c)
        /\ IF CharAt(a.pbuf) = "=" THEN MakeToken(Comparisons[c][2], GetChar(a))
                                   ELSE MakeToken(Comparisons[c][1], a)

GetEof == Begin(NUL) /\ MakeToken("EOFTK", GetChar(at))

Known == Alphas \union {"_"} \union Digits \union {"'", "\"", NUL}
         \union DOMAIN Delimiters \union DOMAIN Comparisons

\* Mutation: an illegal character is reported without being read.
SkipIllegalUnread ==
  /\ mode = "space" /\ Peek \notin Spaces \union Known
  /\ UNCHANGED << text, at, mode, token, count, tokens, errors >>

\* Any other character is reported and skipped.
SkipIllegal ==
  /\ mode = "space" /\ Peek \notin Spaces \union Known
  /\ at' = GetChar(at)
  /\ token' = NewToken(at)
  /\ Report(NewToken(at))
  /\ UNCHANGED << text, mode, count, tokens >>

(***************************************************************************)
(* Identifiers and numbers                                                 *)
(***************************************************************************)

SkipIdentifier ==
  LET c == NextChar(at)
      a == GetChar(at)
  IN  /\ mode = "identifier"
      /\ IF c \in EndsIdentifier
           THEN /\ at' = UngetChar(a)
                /\ Return(token, IF token.value \in Keywords THEN "keyword" ELSE "IDENFR", token.value)
                /\ UNCHANGED errors
           ELSE /\ at' = a
                /\ IF c \in AlphaNums
                     THEN token' = [token EXCEPT !.value = Append(@, c)] /\ UNCHANGED errors
                     ELSE Report(token) /\ UNCHANGED token
                /\ UNCHANGED << mode, tokens >>
      /\ UNCHANGED << text, count >>

\* Mutation: the character after a number is not put back.
SkipNumberAndNext ==
  LET c == NextChar(at)
  IN  /\ mode = "number"
      /\ at' = GetChar(at)
      /\ IF c \in Digits
           THEN token' = [token EXCEPT !.value = Append(@, c)] /\ UNCHANGED << mode, tokens >>
           ELSE Return(token, "INTCON", token.value)
      /\ UNCHANGED << text, count, errors >>

SkipNumber ==
  LET c == NextChar(at)
      a == GetChar(at)
  IN  /\ mode = "number"
      /\ IF c \in Digits
           THEN /\ at' = a
                /\ token' = [token EXCEPT !.value = Append(@, c)]
                /\ UNCHANGED << mode, tokens >>
           ELSE at' = UngetChar(a) /\ Return(token, "INTCON", token.value)
      /\ UNCHANGED << text, count, errors >>

(***************************************************************************)
(* Strings and character constants                                         *)
(***************************************************************************)

\* A backslash is doubled, for the assembler.
Escaped(c) == IF c = "\\" THEN << c, c >> ELSE << c >>

SkipString ==
  LET c == NextChar(at)
  IN  /\ mode = "string"
      /\ at' = GetChar(at)
      /\ CASE IsSpecialAscii(c) ->
                /\ token' = [token EXCEPT !.value = @ \o Escaped(c)]
                /\ UNCHANGED << mode, count, tokens >>
           [] c \in {"\"", NUL} ->
                /\ Return(token, IF c = NUL THEN "EOFTK" ELSE "STRCON", token.value)
                /\ UNCHANGED count
           [] OTHER ->
                /\ mode' = "bad string" /\ count' = 1
                /\ UNCHANGED << token, tokens >>
      /\ UNCHANGED << text, errors >>

\* The two characters after the quote.  When the second is no quote the value
\* is the first all the same.
SkipChar ==
  LET c1 == NextChar(at)
      a1 == GetChar(at)
      c2 == NextChar(a1)
  IN  /\ mode = "char"
      /\ at' = GetChar(a1)
      /\ IF c2 = "'"
           THEN /\ Return(token, "CHARCON", << c1 >>)
                /\ IF IsExtendedAlnum(c1) THEN UNCHANGED errors ELSE Report(token)
                /\ UNCHANGED count
           ELSE /\ token' = [token EXCEPT !.value = << c1 >>]
                /\ mode' = "bad char" /\ count' = 1
                /\ UNCHANGED << tokens, errors >>
      /\ UNCHANGED text

LastRead == CharAt(at.pbuf - 1)

\* The rest of the line is searched for the closing quote q of a token of
\* type ty, and put back when there is none.
SearchQuote(m, q, ty) ==
  /\ mode = m
  /\ IF LastRead # "\n"
       THEN /\ at' = GetChar(at)
            /\ count' = count + 1
            /\ IF NextChar(at) = q
                 THEN /\ Return(token, ty, token.value)
                      /\ IF m = "bad string" THEN Report(token) ELSE UNCHANGED errors
                 ELSE UNCHANGED << mode, token, tokens, errors >>
       ELSE /\ mode' = "put back"
            /\ token' = [token EXCEPT !.type = ty]
            /\ UNCHANGED << at, count, tokens, errors >>
  /\ UNCHANGED text

SearchString == SearchQuote("bad string", "\"", "STRCON")
SearchChar   == SearchQuote("bad char", "'", "CHARCON")

\* Mutation: one character too many is put back.
PutBackOneMore ==
  /\ mode = "put back"
  /\ IF count >= 0
       THEN /\ at' = UngetChar(at) /\ count' = count - 1
            /\ UNCHANGED << mode, token, tokens, errors >>
       ELSE /\ UNCHANGED << at, count >>
            /\ Report(token)
            /\ Return(token, token.type, token.value)
  /\ UNCHANGED text

PutBack ==
  /\ mode = "put back"
  /\ IF count > 0
       THEN /\ at' = UngetChar(at) /\ count' = count - 1
            /\ UNCHANGED << mode, token, tokens, errors >>
       ELSE /\ UNCHANGED << at, count >>
            /\ Report(token)
            /\ Return(token, token.type, token.value)
  /\ UNCHANGED text

Next ==
  \/ SkipSpace \/ BeginIdentifier \/ BeginOther \/ GetDelimiter \/ GetComparison
  \/ GetEof \/ SkipIllegal \/ SkipIdentifier \/ SkipNumber \/ SkipString \/ SkipChar
  \/ SearchString \/ SearchChar \/ PutBack

\* The lexer is called as long as there is text.
Spec == Init /\ [][Next]_vars /\ WF_vars(Next)

(***************************************************************************)
(* Properties                                                              *)
(***************************************************************************)

TypeOK ==
  /\ text \in Seq(Chars)
  /\ at \in [pbuf : Nat, line : Int, column : Nat, begin : Nat]
  /\ mode \in {"space", "identifier", "number", "string", "char", "bad string", "bad char",
               "put back", "done"}
  /\ token \in [type : TokenTypes, value : Seq(AnyChar), line : Int, loc : Int, from : Nat]
  /\ count \in Nat
  /\ tokens \in Seq([type : TokenTypes, value : Seq(AnyChar), line : Int, from : Nat, to : Int])
  /\ errors \in Seq([line : Int, from : Nat])

Newlines(p) == Cardinality({i \in 1 .. p - 1 : CharAt(i) = "\n"})
OnItsLine(t) == t.line = 1 + Newlines(t.from)

\* Errors are reported by their line: the line the lexer counts is always the
\* one it is on, through characters read ahead and put back, and so are those
\* of its tokens and of the reports.
LinesAreRight ==
  /\ at.line = 1 + Newlines(at.pbuf)
  /\ OnItsLine(token)
  /\ \A k \in DOMAIN tokens : OnItsLine(tokens[k])
  /\ \A k \in DOMAIN errors : OnItsLine(errors[k])

\* What has been read so far, up to the token that is being read.
ReadUpTo == IF mode = "space" THEN at.pbuf - 1 ELSE token.from - 1

NotBackslash(c) == c # "\\"

\* What stands between the ends of a token, without the quotes around it.
Spelling(t) ==
  IF t.type \in {"CHARCON", "STRCON"} THEN Slice(t.from + 1, t.to) ELSE Slice(t.from, t.to + 1)

\* A character constant of which only the first character is kept: its closing quote
\* is found further on and nothing is reported (CharConstantsReported).
CutShort(t) == t.type = "CHARCON" /\ t.to # t.from + 2

\* As long as nothing is reported, the tokens are the text without its white space, in
\* order and once each, and the value of a token is all that stands in its place, but
\* for doubled backslashes: operators are cut from the buffer by columns, the others
\* are put together.  Only character constants that are cut short are excepted.
NothingLost ==
  errors = << >> =>
    /\ \A k \in 2 .. Len(tokens) : tokens[k].from > tokens[k - 1].to
    /\ \A i \in 1 .. ReadUpTo :
         CharAt(i) \in Spaces \/ \E k \in DOMAIN tokens : i \in tokens[k].from .. tokens[k].to
    /\ \A k \in DOMAIN tokens :
         ~ CutShort(tokens[k]) =>
           SelectSeq(tokens[k].value, NotBackslash) = SelectSeq(Spelling(tokens[k]), NotBackslash)

\* A token goes on as far as it can: the next one does not start with what
\* would have been part of it.
LongestTokens ==
  \A k \in 1 .. Len(tokens) - 1 :
    LET t == tokens[k]
        c == CharAt(t.to + 1)
    IN  tokens[k + 1].from = t.to + 1 =>
          /\ t.type \in {"LSS", "GRE", "ASSIGN", "NATK"} => c # "="
          /\ t.type = "INTCON" => c \notin Digits
          /\ t.type \in {"IDENFR", "keyword"} => c \notin AlphaNums

\* The end of the text is reached: what is put back is read on, not again.
Finishes == <>(mode = "done")

\* Error 'a' is for illegal symbols and what is not lexically correct
\* (error.cpp:90): a character constant is one character between quotes
\* ("CHARCON, // 'x'", token.h:33) or it is reported.
CharConstantsReported ==
  mode = "done" /\ errors = << >> => \A k \in DOMAIN tokens : ~ CutShort(tokens[k])
=============================================================================
