----------------------------- MODULE MCSqlShell -----------------------------
(***************************************************************************)
(* Sessions for TLC: a small database that is created, filled and queried  *)
(* statement by statement, and consoles that read short texts of the       *)
(* characters that matter to the cutting, or one sentence, also spoiled.   *)
(***************************************************************************)
EXTENDS SqlShell

MCNumbers == {"0", "1", "7", "2147483648"}
MCNumberOf == [n \in {"0", "1", "7"} |-> CASE n = "0" -> 0 [] n = "1" -> 1 [] n = "7" -> 7]
MCByteOrder ==
    <<" ", Quote, "09:30:59", "13:05", "1900-02-29", "2000-02-29", "2019-12-31",
      "2020-01-05", "24:00", "b", "c">>

MCDateFields ==
    (<<"2000-02-29">> :> <<2000, 2, 29>>) @@ (<<"2019-12-31">> :> <<2019, 12, 31>>)
    @@ (<<"1900-02-29">> :> <<1900, 2, 29>>) @@ (<<"2020-01-05">> :> <<2020, 1, 5>>)
MCRealDates == {<<"2000-02-29">>, <<"2019-12-31">>, <<"2020-01-05">>}

MCHourFields ==
    (<<"13:05">> :> <<13, 5>>) @@ (<<"09:30:59">> :> <<9, 30, 59>>)
    @@ (<<"24:00">> :> <<24, 0>>)

-----------------------------------------------------------------------------
(* Statement by statement *)

Literal(word) == <<Quote, word, Quote>>

CreateT(type1, type2) ==
    <<"create", "table", "t", "(", "a", type1, ",", "b", type2, ")">>

InsertT(first, second) ==
    <<"insert", "into", "t", "values", "(">> \o first \o <<",">> \o second \o <<")">>

Query(columns, condition) ==
    <<"select">> \o columns \o <<"from", "t">>
    \o (IF condition = <<>> THEN <<>> ELSE <<"where">> \o condition)

MCStatements == {
    CreateT("date", "hour"),
    CreateT("int", "text"),
    <<"create", "table", "u", "(", "a", "int", ",", "a", "int", ")">>,
    <<"create", "table", "u", "(", "a", "text", ")">>,
    InsertT(Literal("2000-02-29"), Literal("13:05")),
    InsertT(<<"date">> \o Literal("2019-12-31"), <<"time">> \o Literal("09:30:59")),
    InsertT(Literal("2020-01-05"), Literal("24:00")),
    InsertT(Literal("1900-02-29"), Literal("13:05")),
    InsertT(<<"7">>, Literal("2000-02-29")),
    InsertT(<<"0">>, <<Quote, "b", Quote, Quote, "c", Quote>>),
    <<"insert", "into", "t", "values", "(", "7", ")">>,
    Query(<<"*">>, <<>>),
    Query(<<"b", ",", "a", ",", "b">>, <<"b", ">">> \o Literal("09:30:59")),
    Query(<<"b">>, <<"a", "<">> \o Literal("2020-01-05")
                   \o <<"and", "a", ">=", "date">> \o Literal("2019-12-31")),
    Query(<<"a">>, <<"a", ">", "0", "or", "b", "<=">> \o Literal("b")),
    Query(<<"c">>, <<>>),
    Query(<<"a">>, <<"b", "=">> \o Literal("13:05")),
    <<"insert", "into", "u", "values", "(", Quote, "c", Quote, ")">>,
    <<"insert", "into", "u", "values", "(", Quote, "b", Quote, Quote, Quote, ")">>,
    <<"select", "*", "from", "u", "where", "a", ">=", Quote, "b", Quote>>}

\* Of the first version of the format: integers only.
MCDirectories == {[legacy |-> TRUE, tables |-> "t" :> [columns |-> <<"a", "b">>, rows |-> <<<<7, 1>>, <<21572, 12630>>>>]]}

-----------------------------------------------------------------------------
(* Consoles *)

Up(n) == UNION {[1 .. k -> {Quote, ";", ".", " ", "b"}] : k \in 0 .. n}

ShortScripts == {<<first, second>> : first \in Up(3), second \in Up(3)}

\* Eight rows: every combination of three conditions.
Row(n) == <<n \div 4, (n \div 2) % 2, n % 2>>

MCConsoleDirectory ==
    [legacy |-> FALSE,
     tables |-> "t" :> [columns |-> <<"a", "b", "c">>,
                        rows |-> [n \in 1 .. 8 |-> Row(n - 1)]]]

Is1(column) == <<column, "=", "1">>

Conditions ==
    LET A == Is1("a")
        B == Is1("b")
        C == Is1("c")
    IN  UNION {{A \o <<x>> \o B \o <<y>> \o C,
                <<"(">> \o A \o <<x>> \o B \o <<")", y>> \o C,
                A \o <<x, "(">> \o B \o <<y>> \o C \o <<")">>} : x \in {"and", "or"}, y \in {"and", "or"}}

Sentences ==
    {Query(<<"*">>, condition) : condition \in Conditions} \cup
    {Query(<<"c", ",", "a">>, <<"a", "<>", "1", "or", "b", ">", "0">>),
     Query(<<"from", ",", "or">>, <<"and", "=", "1", "and", "or", "=">> \o Literal("b")),
     CreateT("integer", "hour"),
     InsertT(<<"7">>, <<"date">> \o Literal("2019-12-31")),
     InsertT(<<"1">>, <<"0", ",", "hour">> \o Literal("13:05")),
     <<"show", "tables">>,
     <<"desc", "t">>}

\* One symbol left out, one more, or another in its place.
Wrong == {";", ",", "(", ")", "*", "or", "a", "date", "2147483648", ">", "!"}

Spoiled(sentence) ==
    {RemoveAt(sentence, i) : i \in DOMAIN sentence}
    \cup {InsertAt(sentence, i, wrong) : i \in DOMAIN sentence, wrong \in Wrong}
    \cup {ReplaceAt(sentence, i, wrong) : i \in DOMAIN sentence, wrong \in Wrong}

SpoiledScripts ==
    {<<Append(sentence, ";")>> : sentence \in Sentences \cup UNION {Spoiled(s) : s \in Sentences}}

MCScripts == ShortScripts \cup SpoiledScripts

=============================================================================
