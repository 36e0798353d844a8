------------------------------ MODULE Catalog ------------------------------
(***************************************************************************)
(* The statements of a database (src/query/database.cpp), on the directory *)
(* of CatalogFile: what CREATE TABLE and INSERT accept and store.  SELECT  *)
(* only reads: it is an operator on the state.                             *)
(***************************************************************************)
EXTENDS SqlMeaning, CatalogFile

-----------------------------------------------------------------------------
(* CREATE TABLE *)

Acceptable(statement) ==
    /\ Creatable(statement.table)
    /\ \A i, j \in DOMAIN statement.columns :
          statement.columns[i].name = statement.columns[j].name => i = j

SchemaOf(statement) ==
    [columns |-> [i \in DOMAIN statement.columns |-> statement.columns[i].name],
     types |-> [i \in DOMAIN statement.columns |-> statement.columns[i].type]]

-----------------------------------------------------------------------------
(* INSERT and SELECT *)

Coerced(statement, schema) ==
    [i \in DOMAIN statement.values |-> coerce(statement.values[i], schema.types[i])]

Insertable(statement) ==
    /\ statement.table \in DOMAIN schemas_
    /\ Len(statement.values) = Len(schemas_[statement.table].columns)
    /\ \A i \in DOMAIN statement.values : Coerced(statement, schemas_[statement.table])[i].ok

\* All values are coerced before the table is touched.
Insert(statement, sql) ==
    LET table == statement.table
        values == Coerced(statement, schemas_[table])
        tuple == [i \in DOMAIN values |-> values[i].value]
    IN  \E tokens \in {tokenize(sql).value} :
            AppendRow(table, serialize(tuple), RowOf(Sentence(tokens), schemas_[table]))

column_index(schema, name) ==
    IF \E i \in DOMAIN schema.columns : schema.columns[i] = name
    THEN Gives(CHOOSE i \in DOMAIN schema.columns : schema.columns[i] = name)
    ELSE Throws

\* compile_predicate: the columns are found and the values coerced before any
\* row is read.
RECURSIVE Compiles(_, _), Satisfies(_, _, _)

Compiles(expression, schema) ==
    IF expression.kind = "comparison"
    THEN LET index == column_index(schema, expression.column)
         IN  index.ok /\ coerce(expression.value, schema.types[index.value]).ok
    ELSE Compiles(expression.left, schema) /\ Compiles(expression.right, schema)

Compared(expression, schema, tuple) ==
    LET index == column_index(schema, expression.column).value
    IN  compare(tuple[index], expression.op, coerce(expression.value, schema.types[index]).value)

\* The predicate on a row; what is not evaluated cannot throw.
Satisfies(expression, schema, tuple) ==
    IF expression.kind = "comparison" THEN Compared(expression, schema, tuple)
    ELSE LET left == Satisfies(expression.left, schema, tuple)
         IN  IF ~left.ok \/ (left.value <=> expression.kind = "or") THEN left
             ELSE Satisfies(expression.right, schema, tuple)

Projected(statement, schema) ==
    [i \in DOMAIN statement.columns |-> column_index(schema, statement.columns[i])]

\* The tuples SeqScan yields: PersistentTable::next passes over a record that
\* cannot be read.
Scanned(table) ==
    LET read == SelectSeq(table_files[table], LAMBDA record : deserialize(record).ok)
    IN  [n \in DOMAIN read |-> deserialize(read[n]).value]

\* What the predicate says of each.
Selection(statement, schema, tuples) ==
    IF statement.where = <<>> THEN [n \in DOMAIN tuples |-> Gives(TRUE)]
    ELSE [n \in DOMAIN tuples |-> Satisfies(statement.where[1], schema, tuples[n])]

\* execute(SelectStatement), printed: SELECT * has no names, and all columns.
Select(statement) ==
    IF statement.table \notin DOMAIN schemas_ THEN Throws
    ELSE LET schema == schemas_[statement.table]
             projection == IF statement.columns = <<>>
                           THEN [i \in DOMAIN schema.columns |-> Gives(i)]
                           ELSE Projected(statement, schema)
             tuples == Scanned(statement.table)
             selection == Selection(statement, schema, tuples)
             kept == SelectSeq([n \in DOMAIN tuples |-> n], LAMBDA n : selection[n].value)
         IN  IF \/ \E i \in DOMAIN projection : ~projection[i].ok
                \/ statement.where # <<>> /\ ~Compiles(statement.where[1], schema)
                \/ \E n \in DOMAIN tuples : ~selection[n].ok
             THEN Throws
             ELSE Gives([n \in DOMAIN kept |->
                      [i \in DOMAIN projection |->
                          to_string(tuples[kept[n]][projection[i].value])]])

Does(sql, kind) == Parse(sql).ok /\ Parse(sql).value.kind = kind

\* Database::execute; a statement that throws or reads changes nothing.
Execute(sql) ==
    /\ stage = "open"
    /\ \E parsed \in {Parse(sql)} :
          IF parsed.ok /\ parsed.value.kind = "create" /\ Acceptable(parsed.value)
          THEN CreateTable(parsed.value.table, SchemaOf(parsed.value))
          ELSE IF parsed.ok /\ parsed.value.kind = "insert" /\ Insertable(parsed.value)
          THEN Insert(parsed.value, sql)
          ELSE UNCHANGED database

-----------------------------------------------------------------------------
\* SELECT throws exactly when there is no answer to it; else it returns it.
AnsweredRight(sql) ==
    Does(sql, "select") =>
        \A t \in {Sentence(tokenize(sql).value)}, result \in {Select(Parse(sql).value)} :
            IF /\ Selected(t) \in DOMAIN schemas_
               /\ HasAnswer(t, schemas_[Selected(t)])
            THEN result.ok /\ result.value = Answer(t, schemas_[Selected(t)], inserted[Selected(t)])
            ELSE ~result.ok

=============================================================================
