------------------------------- MODULE MCLexer -------------------------------
EXTENDS Lexer

LOCAL INSTANCE SequencesExt

\* Every kind of character the lexer tells apart, and line ends of both kinds, in
\* texts of up to MCLength of them before the last line.
MCPieces == {<< c >> : c \in {"a", "0", "'", "\"", "<", "=", "#", "}", "\\", " ", "\n"}}
            \union {<< "\r", "\n" >>}
MCLength == 4
MCEnd    == << "\n", "}", "\n" >>

MCAllChars == UNION {{p[i] : i \in DOMAIN p} : p \in MCPieces}

MCTexts ==
  {FlattenSeq(s) \o MCEnd : s \in UNION {[1 .. n -> MCPieces] : n \in 0 .. MCLength}}

MCKeywords == {<< "a", "a" >>}
==============================================================================
