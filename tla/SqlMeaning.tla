----------------------------- MODULE SqlMeaning -----------------------------
(***************************************************************************)
(* What the language of docs/lenguaje_consultas_sql.md means: which tokens *)
(* make a statement, and which rows a SELECT asks for, said of the tokens  *)
(* as a whole, with no parser, no tree and no encoded value.               *)
(*                                                                         *)
(* A row is the sequence of what was written for its columns: an integer,  *)
(* a text, or the numbers of a date or an hour.                            *)
(***************************************************************************)
EXTENDS SqlParser, FiniteSets, SequencesExt

CONSTANT RealDates  \* the texts that are dates of the calendar

-----------------------------------------------------------------------------
(* Parts of a sequence of tokens t, which does not include the end token *)

Is(t, i, type) == i \in DOMAIN t /\ t[i].type = type

IsWord(t, i, word) == Is(t, i, "identifier") /\ t[i].text = <<word>>

Part(t, first, last) == SubSeq(t, first, last)

\* The pieces of t between the positions Cuts.
Pieces(t, Cuts) ==
    LET ends == SelectSeq([i \in 1 .. Len(t) + 2 |-> i - 1],
                          LAMBDA i : i \in Cuts \cup {0, Len(t) + 1})
    IN  [n \in 1 .. Len(ends) - 1 |-> SubSeq(t, ends[n] + 1, ends[n + 1] - 1)]

Commas(t) == {i \in DOMAIN t : t[i].type = ","}

IsList(t, Item(_)) ==
    \A n \in 1 .. Cardinality(Commas(t)) + 1 : Item(Pieces(t, Commas(t))[n])

IsName(t) == Len(t) = 1 /\ Is(t, 1, "identifier")

\* How many parentheses are open before position i.
Depth(t, i) ==
    Cardinality({j \in 1 .. i - 1 : t[j].type = "("})
        - Cardinality({j \in 1 .. i - 1 : t[j].type = ")"})

\* AND and OR join what is around them if a condition ends before them;
\* elsewhere they are names.  Those outside all parentheses:
Joints(t, word) ==
    {i \in DOMAIN t \ {1} :
        /\ IsWord(t, i, word) /\ Depth(t, i) = 0
        /\ t[i - 1].type \in {"number", "string", ")"}}

-----------------------------------------------------------------------------
(* Literals *)

IsHourText(text) ==
    /\ text \in DOMAIN HourFields
    /\ \A i \in DOMAIN HourFields[text] : HourFields[text][i] <= IF i = 1 THEN 23 ELSE 59

IsLiteral(t) ==
    \/ Len(t) = 1 /\ Is(t, 1, "number") /\ t[1].text[1] \in DOMAIN NumberOf
    \/ Len(t) = 1 /\ Is(t, 1, "string")
    \/ /\ Len(t) = 2 /\ Is(t, 2, "string")
       /\ \/ IsWord(t, 1, "date") /\ t[2].text \in RealDates
          \/ (IsWord(t, 1, "hour") \/ IsWord(t, 1, "time")) /\ IsHourText(t[2].text)

\* The literal can stand for a value of that type.
Fits(t, type) ==
    CASE type = "INT" -> Is(t, 1, "number")
      [] type = "TEXT" -> Is(t, 1, "string")
      [] type = "DATE" -> IF Len(t) = 2 THEN IsWord(t, 1, "date")
                          ELSE Is(t, 1, "string") /\ t[1].text \in RealDates
      [] type = "HOUR" -> IF Len(t) = 2 THEN ~IsWord(t, 1, "date")
                          ELSE Is(t, 1, "string") /\ IsHourText(t[1].text)

Written(t, type) ==
    LET text == t[Len(t)].text
    IN  CASE type = "INT" -> NumberOf[text[1]]
          [] type = "TEXT" -> text
          [] type = "DATE" -> DateFields[text]
          [] type = "HOUR" -> IF Len(HourFields[text]) = 3 THEN HourFields[text]
                              ELSE Append(HourFields[text], 0)

\* Dates and hours are compared number by number.
Earlier(left, right) ==
    \E n \in 1 .. 3 : left[n] < right[n] /\ \A i \in 1 .. n - 1 : left[i] = right[i]

Before(type, left, right) ==
    CASE type = "INT" -> left < right
      [] type = "TEXT" -> TextLess(left, right)
      [] OTHER -> Earlier(left, right)

Holds(type, left, op, right) ==
    CASE op = "=" -> left = right
      [] op = "!=" -> left # right
      [] op = "<" -> Before(type, left, right)
      [] op = "<=" -> left = right \/ Before(type, left, right)
      [] op = ">" -> Before(type, right, left)
      [] op = ">=" -> left = right \/ Before(type, right, left)

-----------------------------------------------------------------------------
(* Conditions: OR joins alternatives, each of which AND joins; parentheses
   group.  A column of the schema and its type are found by its name. *)

HasColumn(schema, name) == name \in ToSet(schema.columns)

PlaceOf(schema, name) == CHOOSE i \in DOMAIN schema.columns : schema.columns[i] = name

TypeOf(schema, name) == schema.types[PlaceOf(schema, name)]

IsComparison(t) ==
    /\ Len(t) >= 3 /\ Is(t, 1, "identifier") /\ t[2].type \in Comparators
    /\ IsLiteral(Part(t, 3, Len(t)))

RECURSIVE IsCondition(_), Meant(_, _, _), Applies(_, _)

IsCondition(t) ==
    LET joints == Joints(t, "or") \cup Joints(t, "and")
    IN  IF joints # {} THEN \A n \in 1 .. Cardinality(joints) + 1 : IsCondition(Pieces(t, joints)[n])
        ELSE IF Is(t, 1, "(") THEN Is(t, Len(t), ")") /\ IsCondition(Part(t, 2, Len(t) - 1))
        ELSE IsComparison(t)

\* Every column exists, and every literal can be one of its type.
Applies(t, schema) ==
    LET joints == Joints(t, "or") \cup Joints(t, "and")
    IN  IF joints # {}
        THEN \A n \in 1 .. Cardinality(joints) + 1 : Applies(Pieces(t, joints)[n], schema)
        ELSE IF Is(t, 1, "(") THEN Applies(Part(t, 2, Len(t) - 1), schema)
        ELSE /\ HasColumn(schema, t[1].text[1])
             /\ Fits(Part(t, 3, Len(t)), TypeOf(schema, t[1].text[1]))

Meant(t, schema, row) ==
    LET ors == Joints(t, "or")
        ands == Joints(t, "and")
    IN  IF ors # {} THEN \E n \in 1 .. Cardinality(ors) + 1 : Meant(Pieces(t, ors)[n], schema, row)
        ELSE IF ands # {} THEN \A n \in 1 .. Cardinality(ands) + 1 : Meant(Pieces(t, ands)[n], schema, row)
        ELSE IF Is(t, 1, "(") THEN Meant(Part(t, 2, Len(t) - 1), schema, row)
        ELSE LET type == TypeOf(schema, t[1].text[1])
             IN  Holds(type, row[PlaceOf(schema, t[1].text[1])], t[2].type,
                       Written(Part(t, 3, Len(t)), type))

-----------------------------------------------------------------------------
(* Statements *)

\* The tokens without the end, and without the semicolon before it.
Sentence(tokens) ==
    LET t == Front(tokens)
    IN  IF t # <<>> /\ Last(t).type = ";" THEN Front(t) ELSE t

IsColumn(t) ==
    Len(t) = 2 /\ IsName(Part(t, 1, 1)) /\ Is(t, 2, "identifier")
        /\ t[2].text[1] \in {"int", "integer", "text", "date", "hour", "time"}

\* Where a SELECT has FROM: the columns before it are names, also keywords.
FromAt(t) == IF Is(t, 2, "*") THEN 3 ELSE 2 * Cardinality(Commas(t)) + 3

Asked(t) == Part(t, 2, FromAt(t) - 1)

Filter(t) == Part(t, FromAt(t) + 3, Len(t))

IsSelect(t) ==
    /\ IsWord(t, 1, "select")
    /\ IsWord(t, FromAt(t), "from") /\ Is(t, FromAt(t) + 1, "identifier")
    /\ \/ Is(t, 2, "*") /\ Commas(t) = {}
       \/ IsList(Asked(t), IsName)
    /\ Len(t) > FromAt(t) + 1 => IsWord(t, FromAt(t) + 2, "where") /\ IsCondition(Filter(t))

IsStatement(t) ==
    \/ /\ IsWord(t, 1, "create") /\ IsWord(t, 2, "table") /\ Is(t, 3, "identifier")
       /\ Is(t, 4, "(") /\ Len(t) > 5 /\ Is(t, Len(t), ")")
       /\ IsList(Part(t, 5, Len(t) - 1), IsColumn)
    \/ /\ IsWord(t, 1, "insert") /\ IsWord(t, 2, "into") /\ Is(t, 3, "identifier")
       /\ IsWord(t, 4, "values") /\ Is(t, 5, "(") /\ Len(t) > 6 /\ Is(t, Len(t), ")")
       /\ IsList(Part(t, 6, Len(t) - 1), IsLiteral)
    \/ IsSelect(t)
    \/ Len(t) = 2 /\ IsWord(t, 1, "show") /\ IsWord(t, 2, "tables")
    \/ /\ Len(t) = 2 /\ (IsWord(t, 1, "describe") \/ IsWord(t, 1, "desc"))
       /\ Is(t, 2, "identifier")

\* The row an INSERT writes into a table of that schema, which it fits.
RowOf(t, schema) ==
    LET literals == Pieces(Part(t, 6, Len(t) - 1), Commas(Part(t, 6, Len(t) - 1)))
    IN  [i \in DOMAIN literals |-> Written(literals[i], schema.types[i])]

Selected(t) == t[FromAt(t) + 1].text[1]

SelectedColumns(t, schema) ==
    IF Is(t, 2, "*") THEN schema.columns
    ELSE [n \in 1 .. Cardinality(Commas(Asked(t))) + 1 |-> Asked(t)[2 * n - 1].text[1]]

\* The SELECT has an answer for a table of that schema ...
HasAnswer(t, schema) ==
    /\ \A i \in DOMAIN SelectedColumns(t, schema) : HasColumn(schema, SelectedColumns(t, schema)[i])
    /\ Filter(t) # <<>> => Applies(Filter(t), schema)

\* ... and this is it: the rows of the condition, in the order they were
\* inserted, each with the columns asked for.
Answer(t, schema, rows) ==
    LET names == SelectedColumns(t, schema)
        wanted == SelectSeq(rows, LAMBDA row :
                      Filter(t) = <<>> \/ Meant(Filter(t), schema, row))
    IN  [n \in DOMAIN wanted |->
            [i \in DOMAIN names |-> wanted[n][PlaceOf(schema, names[i])]]]

=============================================================================
