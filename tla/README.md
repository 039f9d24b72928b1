# Verification of the C0 compiler

The repository is a single-threaded compiler from C0 (a small C with `int`,
`char`, one-dimensional arrays, functions and recursion) to MIPS assembly for
the MARS/SPIM simulators.  This directory holds TLA+ models of its parts, TLC
configurations that check them on small instances, and proofs, checked by
TLAPS, of what holds for every instance.

What makes this code hard is not concurrency, of which it has none: it is that
passes which are far apart agree on numbers (frame sizes, offsets, argument
words, registers), that results travel through shared members and shared
objects (`m_curqa`, `QuadAddr`, static variables), that objects are rewritten
in place, and that text is read ahead and put back.  A mistake shows only in
the generated program, in a later function, or for an input nobody tried.

## Components

| component | state | operations | hard part | model |
|---|---|---|---|---|
| `Lexer` (lexer.cpp) | `m_pbuf`, `m_loc`, `m_token` | `GetToken` and one function for each kind of token, over `GetChar` and `UngetChar` | reading ahead and putting back over line ends and carriage returns; searches for a closing quote that fail | `Lexer` |
| `TokenStream` (token.cpp) | deque of tokens | `At(n)` extends it from the lexer, `FlushFront`, `PrintFront`, `prev` | the iterator that `At` takes before the deque grows; look-ahead beyond the end token | `TokenStream` |
| `Parser` (parser.cpp, error.cpp) | `m_curscope`, `m_unit`, `error_flag` | one function per grammar rule; `Assert` and error recovery | recovery that must advance; which faults are reported, and where; results that are null after an error | `Parser` |
| `Scope` (scope.cpp) | map of names, parent | `Find`, `FindInCurScope`, `Insert` | the scope is set and reset by hand; order of insertion and use | `Scope`, inside `Parser` |
| tree (ast.h, ast.cpp, type.*) | nodes, folded constants | `New` of each node | what is folded, and in which width | `C0Ast` (partly) |
| `QuadGenerator` | `m_curqa`, `m_curfunc`, label and temporary counters, frames | one visitor per node, `NewTemp`, `AllocReg`, the resolution pass | operands handed on in `m_curqa`; nested calls; loops whose condition is emitted twice; offsets fixed up in place | `FrameLayout`, `QuadGen` |
| `CodeGenerator` | static register toggle, current function | one function per quadruple, prologue, epilogue | two scratch registers in alternation; `main` without a frame; `$ra` | `MipsGen` |
| `MemoryPool` | blocks, free list in the chunks, count | `Alloc`, `Free`, `Clear` | links live in the memory of objects | `MemoryPool` |
| driver (main.cpp) | `error_flag`, files | the passes, in order | files of different compilations side by side, processes that end early | `Driver` |
| printing (ast_visitor.*, debug.*, ...) | none | textual dumps | none | not modelled |

`main.cpp` runs the passes in order.  The parser pulls tokens from the lexer
through the token stream and builds the tree, with all nodes and tokens in
memory pools; if `error_flag` is set the compiler stops there.  Otherwise
`QuadGenerator` walks the tree once and leaves a list of `FuncInfo` (quadruples,
frame) and the data segment, and `CodeGenerator` writes out `main` first and
then the functions, from the last to the first.

What makes each part correct:

- lexer: tokens are the text, in order, each as long as it can be; lines in
  reports are right; it ends and stays in the text;
- pool: a chunk that is handed out is held by nobody, and no chunk is lost;
- layout: the slots of a frame are disjoint and inside it, pushed arguments are
  where the callee looks for them, copies of an operand agree, an offset is
  final once it is resolved;
- quadruples: they compute what C0 says of the program;
- assembly: it computes what the quadruples say, with a balanced stack, no store
  outside the frame and no load of a word that was never stored;
- token stream: what the parser sees are the lexer's tokens, in order, each once;
- parser and scopes: it ends; a well-formed text gives the tree it was written
  from and no report; a faulty one gives the report it should, at the token it
  should, and the rest of the tree; what is accepted keeps the rules of C0;
- driver: no code is made of a text with errors, and a reader of the files can
  tell which compilation they are of.

## Modules

Compiler parts:

- `Lexer` models lexer.cpp.  `at` is `m_pbuf` with `m_loc`, `token` is
  `m_token`, `count` the local of that name in `SkipString` and `SkipChar`, and
  `mode` says in which function the lexer is.  One step reads or puts back one
  character of a token (`SkipChar`, which always reads two, is one step, as are
  the tokens of one or two characters in `GetToken`).  `tokens` and `errors` are
  what has been returned and reported.  `from` and `to`, where a token starts
  and ends, are not in the code: properties compare with them.
- `TokenStream` models the class of that name in token.cpp, with the iterator
  that `At` computes before it appends (`it`), over a lexer that gives any
  tokens.  `TokenCursor` is what it promises: a position in the tokens of the
  text.  `Parser` is written over the cursor (`pos`).
- `Parser` models parser.cpp over the tokens of one text.  The call stack of the
  program is `ctl`, a sequence of what is left to do: a `Parse` function, or
  the part of one that follows a call; results are handed on through `vals`.
  `pos` counts the popped tokens, `scopes` is `m_curscope` with its parents,
  `unit` is `m_unit`, `errors` is what error.txt lists (`error_flag` is whether
  it lists anything).  `status` becomes `"crash"` where the code dereferences a
  null pointer or divides by a constant zero, and `"undefined"` where the lexer
  is asked for tokens beyond the text.  Every early return, look-ahead and
  recovery of the code is a step; what the assertions check is not, as the
  build defines `NDEBUG`.
- `Scope` has the operations of scope.cpp, on the chain of scopes as a sequence.
- `Driver` models main.cpp over several compilations in one directory.  A file is
  the number of the compilation that wrote it and whether it was closed.
  error.txt is flushed with each line, quads.txt and mips.txt only by `fclose`;
  a process may end at any point.
- `MemoryPool` models memory_pool.h, with `mem` for the first word of every
  chunk, which is the link of a free one and the program's in one that is held.
  `Allocator` is what the pool promises.
- `FrameLayout` models the part of quad_generator.cpp that computes offsets:
  `m_curoffset`, `m_frame`, `m_argbuildsz`, `m_offset` and `m_resolved` of every
  `QuadAddr` object, `m_bind` and `AllocReg`.  The order in which declarations,
  temporaries, array operands and (nested) calls come is left open, so that it
  covers every program, inside the bounds.
- `C0Ast` has the tree as records, with the constants that its constructors fold.
- `QuadGen` is the whole of `QuadGenerator`, as operators that thread the
  generator's state `g` (`g.cur` is `m_curqa`) through the visitors.
- `MipsGen` is the whole of `CodeGenerator` in the default build, as operators
  that thread the state `h` (lines, and the static variable of `VisitQuadAddr`).

What texts mean:

- `C0Text` writes the tokens of a tree by the productions in the comments of
  parser.cpp (`@Grammar`); it knows nothing of the parser.
- `C0Rules` states on the tree what the kinds of error of error.cpp forbid:
  names declared and distinct, types, returns, conditions, constants, counts.
- `ParserRules` relates the two with `Parser`: what it promises to the later
  passes, and the promises of comments that it does not keep.

What the compiled programs do:

- `C0Semantics` defines the outcomes of a program on its tree, with no compiler
  in it.  Orders of evaluation that C leaves open give several outcomes.
- `QuadMachine` executes quadruples: a stack of activations with variables by
  name and temporaries by number, and no registers, stack pointer or offsets.
- `MipsMachine` executes the assembly: registers, stack words, data segment,
  system calls of the simulator.  It is external to the repository, modelled
  from the instructions the generator writes.
- `MipsRefinement` reads the activations of `QuadMachine` off the registers and
  the stack (following saved return addresses), keeps them in the auxiliary
  variable `view`, and states that the assembly implements `QuadMachine`.
- `C0Programs` has the programs that are compiled.

How they compose: `MCParserUnits` takes the bodies of `C0Programs`, and
`BuildsTheTree` shows that `Parser` makes of their texts, 24 in one `main`,
exactly the trees of the bodies that `QuadGen` starts from; the output of `QuadGen` is what `MipsGen` takes; and
`MipsMachine` implements `QuadMachine`.  So for these programs what the assembly
prints is an outcome of the text.  `TokenStream` and `Parser` meet in the cursor,
`Parser` and `Driver` in the reports and in the two ways of not coming to an end.

`MC*` modules give the constants of each for TLC; `*Proofs` hold the theorems.
The parser's texts are in `MCParserUnits` (well-formed ones), `MCParserFaults` (one
fault each, with the reports and the tree that should come of it, and one token
less), `MCParserEdits` (one-token edits) and `MCParserFindings`.

`QuadGen`, `MipsGen`, `C0Ast`, `C0Semantics`, `C0Text` and `C0Rules` recurse over
trees with RECURSIVE operators, and `Parser` builds such trees; `FrameLayout`,
`Lexer`, `MemoryPool`, `TokenStream` and `Driver` do not, so that they can be
proved about.  A few definitions are there for TLC's evaluation
only and are commented so: `Table`, `Forced`, the `\o << >>` of the `MCUnits`.
Names that begin a comment with "Mutation:" are faulty variants of the next
definition: with one in the place of the original, a run of the property it was
written for fails, which shows that the property depends on that code.

## Runs

| run | module | states | what it shows |
|---|---|---|---|
| `lexer` | `MCLexer` | 263,390 | 22,621 texts: lines, extents, spelling and lengths of tokens, and termination |
| `token_stream` | `MCTokenStream` | 455 | looks and pops in every order: tokens in order, implements `TokenCursor` |
| `parser` | `MCParser` | 77,656 | 111 texts: well-formed ones give their tree, faulty ones the report and tree they should, all end |
| `parser_edits` | `MCParserEdits` | 426,237 | all one-token edits of two programs: whatever is accepted keeps the rules; scopes and tree agree; only flushing reads beyond the text |
| `frame_layout` | `MCFrameLayout` | 219,082 | layouts of two functions with five operands, nested calls and globals: six layout properties and the inductive invariant |
| `quad_machine` | `MCQuadMachine` | 13,641 | 575 programs: quadruples print an outcome of `C0Semantics`, use nothing before it is computed, pass each call its own arguments, exit |
| `mips_machine` | `MCMips` | 42,424 | the same programs: the assembly implements the quadruples, stays in its frames, balances the stack and exits |
| `memory_pool` | `MCMemoryPool` | 262,395 | two blocks of three chunks: free list sound and complete, implements `Allocator` |
| `driver` | `MCDriver` | 553 | three compilations, each ended at any point: whose files lie side by side |
| `global_for_loop` | `MCGlobalLoop` | - | fails: see Findings |
| `lone_variable` | `MCParserFindings` | - | fails: see Findings |
| `unreported` | `MCParserFindings` | - | fails: see Findings |

Two more configurations, `MCLexerChars.cfg` (for `MCLexer`) and
`MCLiteralArgument.cfg` (for `MCParserFindings`), give counterexamples on their
own, and are described under Findings.

Bounds, and why they are enough:

- `frame_layout`: five `QuadAddr` objects (interchangeable, hence symmetry), one
  width of 8 that is not a word, two pool registers, two functions, two
  arguments, two calls in a function, one inside the other.  That has a
  parameter, a local, an array operand, a temporary and a global in one
  function, a pool that runs out, a frame with and without `$ra`, and an operand
  shared by two functions.  The theorems lift all of these bounds.
- `quad_machine`, `mips_machine`: one program for every combination of two
  atoms (literal, local, global, constants, elements with constant and computed
  index, characters) under each operator, every comparison, every statement
  with nested and chained variants, recursion, calls nested in arguments, a
  local that hides a global.  scanf reads -1 or 2 at every point.  Values are
  mathematical integers and small: overflow is not modelled.  Programs read no
  variable before it is assigned, index within bounds, do not divide by zero
  and return a value where one is due; what other programs should do is not
  defined.  The `int` or `char` kind with which a unary plus or minus of a
  `char` is printed is left out, as no document says what it should be.
- `lexer`: texts of up to four pieces before a last line that holds a brace.  A
  piece is one of eleven characters, one for every kind the lexer treats
  differently, or a carriage return with its newline, so that both kinds of line
  end come anywhere, inside of quotes too.  Four pieces are enough for a token,
  its look-ahead, a failed search with something to put back, and a next token.
  Columns are counted modulo 256 instead of 2^32.  A text ends with a brace and
  a newline (`Closed`), as a C0 program does: the lexer would search for a quote,
  or for the end of an identifier, beyond the buffer of another one, and what it
  finds there is not defined.  These texts are left out, not shown to be right.
- `token_stream`: the parser looks at most two tokens ahead and looks at a token
  only after those before it; twelve pops are several rounds of filling and
  emptying the deque.  The theorems lift both bounds.
- `parser`: the bodies of all 575 programs, put together in functions of 24; all
  expressions of up to two operators on each side of a third; lists of every
  kind of declaration; one text for every fault that is reported (undeclared and
  repeated names, types, counts, returns, subscripts, constants, conditions, and
  a missing token of each kind that `Assert` knows); every text that lacks
  one semicolon, parenthesis, bracket or `while` of a busy program.
- `parser_edits`: every token of two programs, which between them have every
  statement and declaration, is deleted, replaced by each of twenty tokens, or
  preceded by each of five.  One edit is enough to meet every recovery; faults
  that need two to be accepted are not covered.
- `driver`: three compilations give a complete one, one that ends early and one
  after both.  The theorems lift the bound.
- `memory_pool`: two blocks show a list that goes on across blocks after
  releases, and three chunks its first, an inner and its last link.

Deadlock is not checked where a system stops: a program that has exited, a
lexer at the end of its text, a translation unit after its last function, a
pool with no further block, a directory after its last compilation.  `Parser`
has a step `Stopped` for it, and `TokenStream` has to go on for ever, so that
there TLC would report a parser or a stream that is stuck.

Fairness is `WF_vars(Next)` in all cases where something must happen (`Lexer`,
`Parser`, `QuadMachine`, `MipsMachine`): the compiler, or the compiled program on
the processor, is the only process, and it goes on as long as it can.
`FrameLayout`, `MemoryPool`, `TokenStream` and `Driver` have none.

What two of the properties do not see: `StackIsBalanced` says that `$sp` is back
where it was, not that `main`'s frame, which lies above the first `$sp` because
`main` has no prologue, is inside the simulator's stack, as memory has no end in
`MipsMachine`.  `NothingLost` compares all of what stands between the ends of a
token with its value, but for character constants that are cut to their first
character (`CutShort`; see Findings), and but for backslashes, which the lexer
doubles in strings.

## Proofs

All theorems hold for every value of the constants under the assumptions named
in the modules: `ConstantsAssumption` (widths are multiples of four, at least
one function), `TextsAssumption` and `ColumnsAssumption` (texts are sequences
of characters that end as above), `CountAssumption` and `PointersAssumption`
(blocks have a chunk; null and foreign data are no chunks), `BoundAssumption` and
`RunsAssumption` (bounds on what TLC explores are natural numbers: the theorems
hold whatever they are).

- `FrameLayoutProofs`: the layout properties of the run, and with them `TypeOK`,
  `FramesWellFormed` (a finished frame is what the compiled-out assertions of
  `GenPrologue` ask) and `RegistersExclusive` (`AllocReg` gives no register
  twice, though nothing reads the binding in the default build).  None is
  inductive.  `NoOverlap` after resolution follows from the slots' place in the
  running byte count before it, and only if the frame's size is what
  `m_curoffset`, the argument area and the saved words add up to; and `size`
  changes at every call.  `IInv` therefore adds, to the properties themselves,
  who owns an operand (`OwnerInv`), how size, mask and argument area relate
  (`SizeInv`), where unresolved and resolved slots are (`SlotInv`,
  `ParamInv`), and that copies of an array follow it (`ArrayInv`); each action
  has a lemma that shows what it keeps.  TLC checks `IInv` in `frame_layout`.
- `LexerProofs`: `TypeOK` and `LinesAreRight`, for all texts.  The invariant is
  that the line is one more than the newlines before `m_pbuf` (so that
  `GetChar` and `UngetChar` are inverse in the line, though not in the column),
  and that there is always as much text before the lexer as there is to put
  back; from it also `NeverBeforeText`.
- `MemoryPoolProofs`: `TypeOK`, `LinksAreSound` and `ImplementsAllocator`, the
  refinement of `Allocator`.  `LinksAreSound` is inductive together with
  `TypeOK`: links of free chunks go to free chunks, and no two links, `m_root`
  included, go to the same one, which is why the chunk `Alloc` takes is linked
  by no other when it is gone.

- `TokenStreamProofs`: `TypeOK`, `QueueIsInOrder` and `IsACursor`, however far
  the parser looks ahead.  `QueueIsInOrder` is inductive with `TypeOK`; it says
  that the iterator of a running call is in the deque or at its end, which is why
  one appended token is enough, and that the deque holds the tokens from `base`
  on, which makes every `Return` the answer that the cursor gives.
- `DriverProofs`: `TypeOK` and the three properties of the run, for any number of
  compilations.  The invariant adds `AgeInv`: up to the step that opens a file,
  what lies there is of an earlier process.

Only model-checked: all that depends on recursion over trees or programs
(`quad_machine`, `mips_machine`, `parser` and `parser_edits`, whose modules have
RECURSIVE operators),
what a recursive definition computes (`NoChunkLost`), what is said of values
cut from the text (`NothingLost`, `LongestTokens`), and liveness under fairness
(`Exits`, `Finishes`, `StatementListsEnd`).

## Findings

- A `for` loop over a global variable does not count (`global_for_loop`).  The
  increment is a `PLUS` quadruple whose destination is the variable
  (quad_generator.cpp:501), and `GenAdd` stores every result relative to `$sp`
  (generator.cpp:286), also that of a global, whose offset is not one.  The
  variable keeps its value and a word of the stack, perhaps the saved `$ra`, is
  overwritten.  The programs of the other runs count in locals.
- A declaration `int x` that lacks its semicolon makes the compiler loop for ever
  (`lone_variable`).  `ParseVarDecl` leaves it to the statements, whose list
  neither takes nor reports a token that starts no statement
  (parser.cpp:1022).
- Five faults are accepted without a report, all in one text (`unreported`): a call
  without arguments of a function that has parameters (parser.cpp:1821), a
  constant that scanf reads into (1670), the value of a void function (1940, an
  assertion that the build leaves out), a function defined twice (847 and 898),
  and a missing token of a kind for which `Assert` has no message (90).  The
  property fails only where each of its five parts does; each part is a
  definition of `ParserRules`.
- A character constant of several characters is taken for its first one
  (`CharConstantsReported`, `MCLexerChars.cfg`): when the character after the first
  is no quote, `SkipChar` (lexer.cpp:185) finds a quote further on in the line
  and reports nothing, where the same search in `SkipString` does report.
- A literal as an argument of the wrong type ends the compiler
  (`ArgumentsAreReported`, `MCLiteralArgument.cfg`): `ParseValueParamList` prints the
  argument through its token, which a literal does not have (parser.cpp:1846).

## Not modelled, and plan

Not modelled: the printing of trees, tokens and quadruples, the wording of
messages, comments in the assembly, options and how a file is read, and the build
options that debug.h turns off (`GLOBAL_REG_ALLOCATION`, `REG_ARGS`,
`INLINE_EPILOG`, `EXTRA_*`); overflow of 32-bit integers, in folding as in the
generated programs; the pointer arithmetic before `begin()` of
generator.cpp:782; what lies beyond the buffer of a text that is not `Closed`.

Left of the plan:

1. Constants folded in 32 bits, against the arithmetic of the target.
2. Edits of two tokens in `parser_edits`, on smaller programs.
3. Proofs: look-up in a chain of scopes (`Find` gives the innermost name, `Insert`
   changes no other), for which the operations have to be taken apart from the
   trees; that the extents of the lexer's tokens are disjoint and in order;
   `ScopesHoldTheUnit` for the operations on scopes alone.
