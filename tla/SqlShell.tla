------------------------------ MODULE SqlShell ------------------------------
(***************************************************************************)
(* A program over the database: the interactive console (cmd_shell in      *)
(* src/cli/dinodb_cli.cpp), or one that executes statements one by one     *)
(* (dinodb_cli sql, the tests).                                            *)
(*                                                                         *)
(* The console collects lines until a ';' ends a statement that is then    *)
(* executed; a line that begins with '.' is a command if nothing is        *)
(* pending.  What it reads is a script: its standard input.                *)
(***************************************************************************)
EXTENDS Catalog, FiniteSetsExt

CONSTANTS Directories,      \* directories a program may find, besides none
          Statements,       \* what is executed one by one
          MaxRows,          \* bound on the rows a table gets that way
          ConsoleDirectory, \* the directory a console is started on
          Scripts           \* sequences of lines: what it may read

VARIABLES
    shell,     \* "prompt", "loop" (over pending), "ending", or "none": no console
    script,    \* the lines not read yet
    pending,   \* the text no statement was made of
    executed,  \* history: the statements that were executed,
    typed      \* and the lines that were no commands

console == <<shell, script, pending, executed, typed>>

vars == <<database, console>>

Init ==
    /\ NotOpen
    /\ pending = <<>> /\ executed = <<>> /\ typed = <<>>
    /\ \/ /\ shell = "none" /\ script = <<>>
          /\ StartEmpty \/ \E directory \in Directories : StartWith(directory)
       \/ shell = "prompt" /\ script \in Scripts /\ StartWith(ConsoleDirectory)

-----------------------------------------------------------------------------
Dark(text) == {i \in DOMAIN text : text[i] \notin White}

trim(text) ==
    IF Dark(text) = {} THEN <<>> ELSE SubSeq(text, Min(Dark(text)), Max(Dark(text)))

\* A quote doubled within a literal is a character of it.
Doubled(text, i, in_string) == in_string /\ i < Len(text) /\ text[i + 1] = Quote

\* The loop of sql_terminator, from position i; 0 if it finds none.
RECURSIVE TerminatorFrom(_, _, _)

TerminatorFrom(text, i, in_string) ==
    IF i > Len(text) THEN 0
    ELSE IF text[i] = Quote
    THEN IF Doubled(text, i, in_string) THEN TerminatorFrom(text, i + 2, in_string)
         ELSE TerminatorFrom(text, i + 1, ~in_string)
    ELSE IF text[i] = ";" /\ ~in_string THEN i
    ELSE TerminatorFrom(text, i + 1, in_string)

\* The place of the first ';' outside a literal, or 0.
sql_terminator(text) == TerminatorFrom(text, 1, FALSE)

-----------------------------------------------------------------------------
(* cmd_shell; whether a statement throws changes nothing of the console *)

Running == stage = "open"

IsCommand(line) == pending = <<>> /\ trim(line) # <<>> /\ trim(line)[1] = "."

ReadLine ==
    /\ Running /\ shell = "prompt" /\ script # <<>>
    /\ ~IsCommand(Head(script))
    /\ pending' = pending \o Append(Head(script), "newline")
    /\ typed' = typed \o Append(Head(script), "newline")
    /\ script' = Tail(script)
    /\ shell' = "loop"
    /\ UNCHANGED <<database, executed>>

\* .help, .tables and .schema, which only read, and unknown ones.
Command ==
    /\ Running /\ shell = "prompt" /\ script # <<>>
    /\ IsCommand(Head(script))
    /\ script' = Tail(script)
    /\ UNCHANGED <<database, shell, pending, executed, typed>>

\* Mutant: what follows the terminator on its line is dropped.
NothingLeft(end) == <<>>

\* Mutant: an empty statement is not taken off the text.
EmptyLeft(end) ==
    IF trim(SubSeq(pending, 1, end)) = <<";">> THEN pending
    ELSE SubSeq(pending, end + 1, Len(pending))

TextAfter(end) == SubSeq(pending, end + 1, Len(pending))

\* One turn of the loop; an empty statement is passed over.
ExecuteNext ==
    /\ Running /\ shell = "loop"
    /\ \E end \in {sql_terminator(pending)} \ {0} :
          /\ pending' = TextAfter(end)
          /\ \E statement \in {trim(SubSeq(pending, 1, end))} :
                IF statement = <<";">>
                THEN UNCHANGED <<database, executed>>
                ELSE Execute(statement) /\ executed' = Append(executed, statement)
    /\ UNCHANGED <<shell, script, typed>>

\* What is left is trimmed, and waits for the next line.
Prompt ==
    /\ Running /\ shell = "loop" /\ sql_terminator(pending) = 0
    /\ pending' = IF trim(pending) = <<>> THEN <<>> ELSE Append(trim(pending), "newline")
    /\ shell' = "prompt"
    /\ UNCHANGED <<database, script, executed, typed>>

\* The loop ends, and a last statement needs no ';'.
EndOfInput ==
    /\ Running /\ shell = "prompt" /\ script = <<>>
    /\ IF trim(pending) = <<>>
       THEN UNCHANGED <<database, executed>>
       ELSE Execute(pending) /\ executed' = Append(executed, pending)
    /\ shell' = "ending"
    /\ UNCHANGED <<script, pending, typed>>

\* .exit and .quit: nothing is pending, and the rest is not read.
Exit ==
    /\ Running /\ shell = "prompt" /\ script # <<>>
    /\ IsCommand(Head(script))
    /\ shell' = "ending"
    /\ script' = <<>>
    /\ UNCHANGED <<database, pending, executed, typed>>

-----------------------------------------------------------------------------
(* The program as a whole *)

Gone ==
    /\ shell' = "none"
    /\ script' = <<>> /\ pending' = <<>> /\ executed' = <<>> /\ typed' = <<>>

\* The constructor and CREATE TABLE; no console outlives its constructor.
DatabaseStep ==
    /\ Persist
    /\ IF stage' = "closed" THEN Gone ELSE UNCHANGED console

\* main returns at the end of the console; or the program is killed.
Ends ==
    /\ CloseDatabase
    /\ shell \in {"none", "ending"} \/ "kill" \in Faults
    /\ Gone

HasRoom(sql) ==
    Does(sql, "insert") /\ Parse(sql).value.table \in DOMAIN schemas_
        => Len(table_files[Parse(sql).value.table]) < MaxRows

\* cmd_sql, or a test, with the database open.
ExecuteOne ==
    /\ shell = "none" /\ stage = "open"
    /\ \E sql \in Statements : HasRoom(sql) /\ Execute(sql)
    /\ UNCHANGED console

Console ==
    \/ ReadLine
    \/ Command
    \/ ExecuteNext
    \/ Prompt
    \/ EndOfInput
    \/ Exit

Next == Console \/ DatabaseStep \/ ExecuteOne \/ Ends

\* The console's program runs as long as it has something to do, and main
\* returns after it; nothing needs to kill it.
Spec ==
    /\ Init /\ [][Next]_vars
    /\ WF_vars(shell # "none" /\ (Console \/ DatabaseStep \/ (shell = "ending" /\ Ends)))

-----------------------------------------------------------------------------
InLiteral(text, i) == Cardinality({j \in 1 .. i - 1 : text[j] = Quote}) % 2 = 1

\* The statements of a text: it is cut at every ';' outside literals.  What
\* follows the last one is a statement at the end.
Cuts(text) == {i \in DOMAIN text : text[i] = ";" /\ ~InLiteral(text, i)}

CutUp(text) ==
    LET ends == SelectSeq([i \in 1 .. Len(text) + 1 |-> i - 1],
                          LAMBDA i : i \in Cuts(text) \cup {0})
        pieces == [n \in 1 .. Len(ends) - 1 |-> SubSeq(text, ends[n] + 1, ends[n + 1])]
    IN  IF shell = "ending" THEN Append(pieces, SubSeq(text, Last(ends) + 1, Len(text)))
        ELSE pieces

\* The white space that ends a line.
EndsLine(text, i) ==
    \E j \in i .. Len(text) : text[j] = "newline" /\ \A k \in i .. j : text[k] \in White

Only(text, Keep(_)) ==
    LET kept == SelectSeq([i \in DOMAIN text |-> i], Keep)
    IN  [n \in DOMAIN kept |-> text[kept[n]]]

\* The text without the white space outside literals, and with one newline
\* for the white space that ends lines within them.
Significant(text) ==
    Only(text, LAMBDA i :
        \/ text[i] \notin White
        \/ InLiteral(text, i) /\ (i < Len(text) => ~EndsLine(text, i + 1)))

Mapped(Op(_), texts) == [n \in DOMAIN texts |-> Op(texts[n])]

WrittenStatements ==
    SelectSeq(CutUp(typed), LAMBDA piece : trim(piece) \notin {<<>>, <<";">>})

(* The console "acepta sentencias de varias lineas y no interpreta un ; dentro
   de un valor TEXT como fin de sentencia" (README.md): what was executed is
   what was typed, cut at the semicolons outside literals, however it was spread
   over lines and commands; of a literal over several lines only white space at
   the ends of its lines is lost (sql_terminator, pending, trim). *)
CutsRight ==
    shell \in {"prompt", "ending"} =>
        Mapped(Significant, executed) = Mapped(Significant, WrittenStatements)

\* How a token is written.
Spelled(token) ==
    IF token.type = "string"
    THEN <<Quote>> \o FlattenSeq([i \in DOMAIN token.text |->
             IF token.text[i] = Quote THEN <<Quote, Quote>> ELSE <<token.text[i]>>]) \o <<Quote>>
    ELSE token.text

Spelling(tokens) == FlattenSeq(Mapped(Spelled, tokens))

Closed(text) == ~InLiteral(text, Len(text) + 1)

(* The console and the lexer, which look for quotes apart from each other, see
   the same literals: the lexer fails only where a character is none of SQL or a
   literal has no end, its tokens spell the statement, and the only semicolon
   among them ends it (sql_terminator, Lexer::string_literal, Parser::parse). *)
LexerAgrees ==
    \A n \in DOMAIN executed :
        LET sql == executed[n]
            tokens == tokenize(sql)
        IN  /\ tokens.ok <=>
                   /\ Closed(sql)
                   /\ \A i \in DOMAIN sql : sql[i] \in Unexpected => InLiteral(sql, i)
            /\ tokens.ok =>
                   /\ Spelling(tokens.value)
                          = Only(sql, LAMBDA i : sql[i] \notin White \/ InLiteral(sql, i))
                   /\ \A i \in DOMAIN tokens.value :
                         tokens.value[i].type = ";" => i = Len(tokens.value) - 1

(* The parser accepts the statements of the language and nothing else: keywords
   that serve as names, lists, nested conditions and literals of each type
   included (Parser, with its one token of lookahead and its cursor). *)
GrammarAccepted ==
    \A n \in DOMAIN executed :
        LET tokens == tokenize(executed[n])
        IN  tokens.ok =>
                (Parse(executed[n]).ok <=> IsStatement(Sentence(tokens.value)))

(* A SELECT returns the rows its condition asks for, with AND before OR and
   parentheses as written, dates and hours in the order of the calendar and the
   clock, each value as it was inserted, also in a table of the first version
   of the format and after the directory was closed and opened again; and it
   throws exactly when a column does not exist or a literal can be no value of
   its column (execute, compile_predicate, compare, TupleCodec, parse_or). *)
SelectRight ==
    stage = "open" =>
        IF shell = "none" THEN \A sql \in Statements : AnsweredRight(sql)
        ELSE \A n \in DOMAIN executed : AnsweredRight(executed[n])

(* A console comes to its end, whatever it reads: each of its loops ends, also
   over empty statements, and a statement that fails does not keep it. *)
ConsoleEnds == shell # "none" ~> shell = "none"

=============================================================================
