----------------------------- MODULE SqlParser -----------------------------
(***************************************************************************)
(* From the text of a statement to the statement                           *)
(* (src/query/sql_parser.cpp): the lexer and the recursive-descent parser, *)
(* an operator for each of their functions.                                *)
(*                                                                         *)
(* A text is a sequence of symbols.  A symbol is a character, or a whole   *)
(* keyword, name, number or comparator, which stands with the white space  *)
(* that keeps it apart from its neighbours; keywords and names are in      *)
(* lower case.  Names and keywords are both identifiers to the lexer.      *)
(***************************************************************************)
EXTENDS SqlValues

CONSTANTS Numbers,   \* the symbols of integers
          NumberOf   \* the value of each that fits in an int32_t

Quote == "'"
White == {" ", "newline"}
Comparators == {"=", "!=", "<>", "<", "<=", ">", ">="}
Punctuation == {",", "(", ")", "*", ";"} \cup Comparators
Unexpected == {".", "!"}

-----------------------------------------------------------------------------
(* The lexer *)

Token(type, text) == [type |-> type, text |-> text]

\* What follows a call, unless it throws.  (The call is in a set of its own for
\* TLC to evaluate it once.)
Then(result, Rest(_)) ==
    CHOOSE outcome \in {IF r.ok THEN Rest(r) ELSE Throws : r \in {result}} : TRUE

\* The literal whose opening quote is just before position i.
RECURSIVE string_literal(_, _, _)

\* Mutant: of a doubled quote nothing is kept.
quotes_dropped(input, i, value) ==
    IF i > Len(input) THEN Throws
    ELSE IF input[i] # Quote THEN string_literal(input, i + 1, Append(value, input[i]))
    ELSE IF i < Len(input) /\ input[i + 1] = Quote THEN string_literal(input, i + 2, value)
    ELSE [ok |-> TRUE, value |-> value, next |-> i + 1]

string_literal(input, i, value) ==
    IF i > Len(input) THEN Throws
    ELSE IF input[i] # Quote THEN string_literal(input, i + 1, Append(value, input[i]))
    ELSE IF i < Len(input) /\ input[i + 1] = Quote
    THEN string_literal(input, i + 2, Append(value, Quote))
    ELSE [ok |-> TRUE, value |-> value, next |-> i + 1]

TokenOf(symbol) ==
    CASE symbol = "<>" -> Token("!=", <<symbol>>)
      [] symbol \in Punctuation \ {"<>"} -> Token(symbol, <<symbol>>)
      [] symbol \in Numbers -> Token("number", <<symbol>>)
      [] OTHER -> Token("identifier", <<symbol>>)

RECURSIVE TokensFrom(_, _, _)

TokensFrom(input, i, tokens) ==
    IF i > Len(input) THEN Gives(Append(tokens, Token("end", <<>>)))
    ELSE IF input[i] \in White THEN TokensFrom(input, i + 1, tokens)
    ELSE IF input[i] \in Unexpected THEN Throws
    ELSE IF input[i] # Quote
    THEN TokensFrom(input, i + 1, Append(tokens, TokenOf(input[i])))
    ELSE Then(string_literal(input, i + 1, <<>>), LAMBDA literal :
             TokensFrom(input, literal.next, Append(tokens, Token("string", literal.value))))

tokenize(input) == TokensFrom(input, 1, <<>>)

-----------------------------------------------------------------------------
(* The parser.  A function is given the tokens t and the cursor; it returns
   the cursor behind what it consumed and what it built, or fails. *)

Parsed(cursor, node) == [ok |-> TRUE, cursor |-> cursor, node |-> node]

keyword(t, cursor, word) == t[cursor].type = "identifier" /\ t[cursor].text = <<word>>

consume_keyword(t, cursor, word) ==
    IF keyword(t, cursor, word) THEN Parsed(cursor + 1, word) ELSE Throws

consume(t, cursor, type) ==
    IF t[cursor].type = type THEN Parsed(cursor + 1, t[cursor].text) ELSE Throws

\* Keywords are names too.
consume_identifier(t, cursor) ==
    Then(consume(t, cursor, "identifier"), LAMBDA name : Parsed(name.cursor, name.node[1]))

consume_number(t, cursor) ==
    Then(consume(t, cursor, "number"), LAMBDA number :
        IF number.node[1] \in DOMAIN NumberOf
        THEN Parsed(number.cursor, Int32(NumberOf[number.node[1]])) ELSE Throws)

\* A keyword and the text it applies to, which must be of that type.
TypedText(t, cursor, Parse(_)) ==
    Then(consume(t, cursor, "string"), LAMBDA text :
        LET value == Parse(text.node)
        IN  IF value.ok THEN Parsed(text.cursor, value.value) ELSE Throws)

consume_literal(t, cursor) ==
    CASE t[cursor].type = "number" -> consume_number(t, cursor)
      [] t[cursor].type = "string" -> Parsed(cursor + 1, Text(t[cursor].text))
      [] keyword(t, cursor, "date") -> TypedText(t, cursor + 1, parse_date)
      [] keyword(t, cursor, "hour") \/ keyword(t, cursor, "time") ->
            TypedText(t, cursor + 1, parse_hour)
      [] OTHER -> Throws

TypeNames ==
    [int |-> "INT", integer |-> "INT", text |-> "TEXT", date |-> "DATE",
     hour |-> "HOUR", time |-> "HOUR"]

consume_data_type(t, cursor) ==
    IF t[cursor].type = "identifier" /\ t[cursor].text[1] \in DOMAIN TypeNames
    THEN Parsed(cursor + 1, TypeNames[t[cursor].text[1]]) ELSE Throws

consume_comparison(t, cursor) ==
    IF t[cursor].type \in Comparators THEN Parsed(cursor + 1, t[cursor].type) ELSE Throws

Comparison(column, op, value) ==
    [kind |-> "comparison", column |-> column, op |-> op, value |-> value]

logical(kind, left, right) == [kind |-> kind, left |-> left, right |-> right]

RECURSIVE parse_or(_, _), OrRest(_, _, _), AndRest(_, _, _)

parse_primary(t, cursor) ==
    IF t[cursor].type = "("
    THEN Then(parse_or(t, cursor + 1), LAMBDA inner :
             Then(consume(t, inner.cursor, ")"), LAMBDA close :
                 Parsed(close.cursor, inner.node)))
    ELSE Then(consume_identifier(t, cursor), LAMBDA column :
             Then(consume_comparison(t, column.cursor), LAMBDA op :
                 Then(consume_literal(t, op.cursor), LAMBDA value :
                     Parsed(value.cursor, Comparison(column.node, op.node, value.node)))))

\* The loops of parse_and and parse_or, with what is parsed so far.
AndRest(t, cursor, left) ==
    IF keyword(t, cursor, "and")
    THEN Then(parse_primary(t, cursor + 1), LAMBDA right :
             AndRest(t, right.cursor, logical("and", left, right.node)))
    ELSE Parsed(cursor, left)

parse_and(t, cursor) ==
    Then(parse_primary(t, cursor), LAMBDA left : AndRest(t, left.cursor, left.node))

\* Mutant: the operand after OR is a single comparison.
or_takes_primary(t, cursor, left) ==
    IF keyword(t, cursor, "or")
    THEN Then(parse_primary(t, cursor + 1), LAMBDA right :
             Then(AndRest(t, right.cursor, logical("or", left, right.node)), LAMBDA all :
                 OrRest(t, all.cursor, all.node)))
    ELSE Parsed(cursor, left)

OrRest(t, cursor, left) ==
    IF keyword(t, cursor, "or")
    THEN Then(parse_and(t, cursor + 1), LAMBDA right :
             OrRest(t, right.cursor, logical("or", left, right.node)))
    ELSE Parsed(cursor, left)

parse_or(t, cursor) ==
    Then(parse_and(t, cursor), LAMBDA left : OrRest(t, left.cursor, left.node))

-----------------------------------------------------------------------------
(* Statements; the loops over items end at the first one without a comma *)

RECURSIVE Columns(_, _, _), Literals(_, _, _), Names(_, _, _)

Columns(t, cursor, columns) ==
    Then(consume_identifier(t, cursor), LAMBDA name :
        Then(consume_data_type(t, name.cursor), LAMBDA type :
            LET all == Append(columns, [name |-> name.node, type |-> type.node])
            IN  IF t[type.cursor].type = "," THEN Columns(t, type.cursor + 1, all)
                                            ELSE Parsed(type.cursor, all)))

Literals(t, cursor, values) ==
    Then(consume_literal(t, cursor), LAMBDA value :
        LET all == Append(values, value.node)
        IN  IF t[value.cursor].type = "," THEN Literals(t, value.cursor + 1, all)
                                         ELSE Parsed(value.cursor, all))

Names(t, cursor, names) ==
    Then(consume_identifier(t, cursor), LAMBDA name :
        LET all == Append(names, name.node)
        IN  IF t[name.cursor].type = "," THEN Names(t, name.cursor + 1, all)
                                        ELSE Parsed(name.cursor, all))

\* "(" items ")"
Enclosed(t, cursor, Items(_, _, _)) ==
    Then(consume(t, cursor, "("), LAMBDA open :
        Then(Items(t, open.cursor, <<>>), LAMBDA items :
            Then(consume(t, items.cursor, ")"), LAMBDA close :
                Parsed(close.cursor, items.node))))

parse_create(t, cursor) ==
    Then(consume_keyword(t, cursor, "table"), LAMBDA word :
        Then(consume_identifier(t, word.cursor), LAMBDA table :
            Then(Enclosed(t, table.cursor, Columns), LAMBDA columns :
                Parsed(columns.cursor,
                       [kind |-> "create", table |-> table.node, columns |-> columns.node]))))

parse_insert(t, cursor) ==
    Then(consume_keyword(t, cursor, "into"), LAMBDA word :
        Then(consume_identifier(t, word.cursor), LAMBDA table :
            Then(consume_keyword(t, table.cursor, "values"), LAMBDA values :
                Then(Enclosed(t, values.cursor, Literals), LAMBDA row :
                    Parsed(row.cursor,
                           [kind |-> "insert", table |-> table.node, values |-> row.node])))))

\* No condition is an empty sequence of conditions.
Where(t, cursor) ==
    IF keyword(t, cursor, "where")
    THEN Then(parse_or(t, cursor + 1), LAMBDA where : Parsed(where.cursor, <<where.node>>))
    ELSE Parsed(cursor, <<>>)

\* SELECT * has no names.
parse_select(t, cursor) ==
    Then(IF t[cursor].type = "*" THEN Parsed(cursor + 1, <<>>) ELSE Names(t, cursor, <<>>),
         LAMBDA columns :
        Then(consume_keyword(t, columns.cursor, "from"), LAMBDA word :
            Then(consume_identifier(t, word.cursor), LAMBDA table :
                Then(Where(t, table.cursor), LAMBDA where :
                    Parsed(where.cursor,
                           [kind |-> "select", table |-> table.node,
                            columns |-> columns.node, where |-> where.node])))))

parse_describe(t, cursor) ==
    Then(consume_identifier(t, cursor), LAMBDA table :
        Parsed(table.cursor, [kind |-> "describe", table |-> table.node]))

Statement(t) ==
    CASE keyword(t, 1, "create") -> parse_create(t, 2)
      [] keyword(t, 1, "insert") -> parse_insert(t, 2)
      [] keyword(t, 1, "select") -> parse_select(t, 2)
      [] keyword(t, 1, "show") ->
            Then(consume_keyword(t, 2, "tables"), LAMBDA tables :
                Parsed(tables.cursor, [kind |-> "show"]))
      [] keyword(t, 1, "describe") \/ keyword(t, 1, "desc") -> parse_describe(t, 2)
      [] OTHER -> Throws

\* Mutant: what follows the statement is not looked at.
rest_ignored(t) == Then(Statement(t), LAMBDA statement : Gives(statement.node))

\* A semicolon may follow, and then nothing.
parse(t) ==
    Then(Statement(t), LAMBDA statement :
        LET cursor == IF t[statement.cursor].type = ";" THEN statement.cursor + 1
                                                       ELSE statement.cursor
        IN  IF t[cursor].type = "end" THEN Gives(statement.node) ELSE Throws)

\* SqlParser::parse
Parse(sql) == Then(tokenize(sql), LAMBDA tokens : parse(tokens.value))

=============================================================================
