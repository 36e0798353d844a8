---------------------------- MODULE CatalogFile ----------------------------
(***************************************************************************)
(* The directory of a database (src/query/database.cpp): catalog.meta and  *)
(* one file per table, and the schemas_ of the process that has it open.   *)
(*                                                                         *)
(* CREATE TABLE creates the table's file and then replaces the catalog:    *)
(* persist_catalog writes a temporary file and renames it.  Each call of   *)
(* the file system is a step, since each may fail and the process may be   *)
(* killed after it.  An insertion is one step (PersistentTable has its     *)
(* own).  Which statement does what is in Catalog.                         *)
(***************************************************************************)
EXTENDS SqlValues, Functions

CONSTANTS Tables,  \* names of tables
          Faults   \* what may fail: "write" (or creating a file), "rename",
                   \*   "kill" (the process ends within a statement)

ASSUME FaultsAssumption == Faults \subseteq {"write", "rename", "kill"}

VARIABLES
    catalog,     \* catalog.meta: its header and the line of each table
    temporary,   \* catalog.meta.tmp, as long as it is being written
    table_files, \* the table files there are: the records of each
    schemas_,    \* the member; empty while no process has the database open
    stage,       \* where persist_catalog is; "open", "closed"
    creating,    \* the table CREATE TABLE is about, if any
    acknowledged,\* history: the schemas of the tables whose creation returned
    inserted     \* history: the rows inserted in each table since

database == <<catalog, temporary, table_files, schemas_, stage, creating, acknowledged, inserted>>

NoTables == [table \in {} |-> <<>>]

\* There is no such file.
NoCatalog == [header |-> "none", lines |-> NoTables]

Extended(map, table, value) ==
    [t \in DOMAIN map \cup {table} |-> IF t = table THEN value ELSE map[t]]

Without(map, tables) == Restrict(map, DOMAIN map \ tables)

-----------------------------------------------------------------------------
(* Directories a program may find: none yet, or one with a catalog and rows
   of integers.  A directory of the first version has a catalog without
   types and records in the historical format. *)

Header(directory) == IF directory.legacy THEN "V1" ELSE "V2"

StoredRow(directory, row) ==
    IF directory.legacy THEN Historical(row)
    ELSE serialize([i \in DOMAIN row |-> Int32(row[i])])

Integers_(columns) == [columns |-> columns, types |-> [i \in DOMAIN columns |-> "INT"]]

StartEmpty ==
    /\ catalog = NoCatalog
    /\ table_files = NoTables
    /\ acknowledged = NoTables
    /\ inserted = [table \in Tables |-> <<>>]

StartWith(directory) ==
    LET tables == DOMAIN directory.tables
        schemas == [table \in tables |-> Integers_(directory.tables[table].columns)]
        Rows(table) == IF table \in tables THEN directory.tables[table].rows ELSE <<>>
    IN  /\ catalog = [header |-> Header(directory), lines |-> schemas]
        /\ table_files = [table \in tables |->
                       [n \in DOMAIN Rows(table) |-> StoredRow(directory, Rows(table)[n])]]
        /\ acknowledged = schemas
        /\ inserted = [table \in Tables |-> Rows(table)]

NotOpen == temporary = NoCatalog /\ schemas_ = NoTables /\ stage = "closed" /\ creating = {}

\* The lines of a V1 catalog name the columns only: all are integers.
Loaded ==
    IF catalog.header = "V1"
    THEN [table \in DOMAIN catalog.lines |-> Integers_(catalog.lines[table].columns)]
    ELSE catalog.lines

\* The constructor, for a directory that has a catalog ...
LoadCatalog ==
    /\ stage = "closed" /\ catalog # NoCatalog
    /\ schemas_' = Loaded
    /\ stage' = "open"
    /\ UNCHANGED <<catalog, temporary, table_files, creating, acknowledged, inserted>>

\* ... and for one that has none: an empty one is persisted.
NewCatalog ==
    /\ stage = "closed" /\ catalog = NoCatalog
    /\ schemas_' = NoTables
    /\ stage' = "write"
    /\ UNCHANGED <<catalog, temporary, table_files, creating, acknowledged, inserted>>

-----------------------------------------------------------------------------
\* CREATE TABLE of a table that is not known and has no file.
Creatable(table) == table \notin DOMAIN schemas_ /\ table \notin DOMAIN table_files

\* Up to persist_catalog; the ofstream makes an empty file.
CreateTable(table, schema) ==
    /\ stage = "open" /\ Creatable(table)
    /\ table_files' = Extended(table_files, table, <<>>)
    /\ schemas_' = Extended(schemas_, table, schema)
    /\ creating' = {table}
    /\ stage' = "write"
    /\ UNCHANGED <<catalog, temporary, acknowledged, inserted>>

\* Mutant: the catalog is persisted before the new schema is in schemas_.
ContentsBefore == [header |-> "V2", lines |-> Without(schemas_, creating)]

Contents == [header |-> "V2", lines |-> schemas_]

\* The temporary file is truncated, written and closed.
WriteTemporary ==
    /\ stage = "write"
    /\ temporary' = Contents
    /\ stage' = "rename"
    /\ UNCHANGED <<catalog, table_files, schemas_, creating, acknowledged, inserted>>

\* What execute does when persist_catalog returns.
CreationReturns ==
    /\ stage' = "open" /\ creating' = {}
    /\ acknowledged' = [t \in DOMAIN acknowledged \cup creating |->
                           IF t \in creating THEN schemas_[t] ELSE acknowledged[t]]
    /\ inserted' = [t \in Tables |-> IF t \in creating THEN <<>> ELSE inserted[t]]

\* Mutant: the schema of a failed creation stays in memory.
KeptInMemory == schemas_

SchemasAfterFailure == Without(schemas_, creating)

\* What execute does when it throws: the creation is undone, but for the file if
\* its removal fails too (std::error_code ignored).  The exception of a
\* constructor leaves no database.
Throwing ==
    /\ stage' = IF creating = {} THEN "closed" ELSE "open"
    /\ schemas_' = IF creating = {} THEN NoTables ELSE SchemasAfterFailure
    /\ table_files' \in {Without(table_files, creating), table_files}
    /\ creating' = {}
    /\ UNCHANGED <<acknowledged, inserted>>

WriteTemporaryFails ==
    /\ "write" \in Faults /\ stage = "write"
    /\ Throwing
    /\ UNCHANGED <<catalog, temporary>>

\* rename replaces the catalog at once, also in the second attempt.
Rename ==
    /\ stage \in {"rename", "rename_again"}
    /\ catalog' = temporary /\ temporary' = NoCatalog
    /\ CreationReturns
    /\ UNCHANGED <<table_files, schemas_>>

\* The first attempt fails: the catalog is removed, if that succeeds ...
RemoveCatalog ==
    /\ "rename" \in Faults /\ stage = "rename"
    /\ catalog' \in {NoCatalog, catalog}
    /\ stage' = "rename_again"
    /\ UNCHANGED <<temporary, table_files, schemas_, creating, acknowledged, inserted>>

\* ... and the second attempt fails too.
RenameFailsAgain ==
    /\ "rename" \in Faults /\ stage = "rename_again"
    /\ Throwing
    /\ UNCHANGED <<catalog, temporary>>

-----------------------------------------------------------------------------
\* INSERT: the row is what the statement says, the record what is stored of it.
AppendRow(table, record, row) ==
    /\ stage = "open" /\ table \in DOMAIN schemas_
    /\ table_files' = [table_files EXCEPT ![table] = Append(@, record)]
    /\ inserted' = [inserted EXCEPT ![table] = Append(@, row)]
    /\ UNCHANGED <<catalog, temporary, schemas_, stage, creating, acknowledged>>

\* The program ends; or it is killed within a statement.
CloseDatabase ==
    /\ stage # "closed"
    /\ stage = "open" \/ "kill" \in Faults
    /\ stage' = "closed" /\ schemas_' = NoTables /\ creating' = {}
    /\ UNCHANGED <<catalog, temporary, table_files, acknowledged, inserted>>

\* What the program does by itself while a statement or a constructor runs.
Persist ==
    \/ LoadCatalog
    \/ NewCatalog
    \/ WriteTemporary
    \/ WriteTemporaryFails
    \/ Rename
    \/ RemoveCatalog
    \/ RenameFailsAgain

-----------------------------------------------------------------------------
(* The directory alone, with any statements *)

IsDirectory(directory) ==
    /\ DOMAIN directory.tables \subseteq Tables
    /\ \A table \in DOMAIN directory.tables :
          directory.tables[table].rows \in Seq(Range(directory.tables[table].rows))

DirectoryInit ==
    /\ NotOpen
    /\ StartEmpty \/ \E directory : IsDirectory(directory) /\ StartWith(directory)

DirectoryNext ==
    \/ Persist
    \/ \E table \in Tables : \E schema : CreateTable(table, schema)
    \/ \E table \in Tables : \E record, row : AppendRow(table, record, row)
    \/ CloseDatabase

DirectorySpec == DirectoryInit /\ [][DirectoryNext]_database

-----------------------------------------------------------------------------
\* Every table whose creation returned is in the catalog, with its schema, and
\* its file has its rows.
CatalogKeeps ==
    \A table \in DOMAIN acknowledged :
        /\ table \in DOMAIN catalog.lines /\ Loaded[table] = acknowledged[table]
        /\ table \in DOMAIN table_files /\ Len(table_files[table]) = Len(inserted[table])

(* "Cerrar y volver a abrir dinodb_cli no pierde esquemas ni registros"
   (docs/lenguaje_consultas_sql.md): no failure and no end of the program, at
   any step, loses a schema or a row, except that persist_catalog removes the
   catalog when its first rename fails; until the second one succeeds, all
   schemas are in the temporary file only, which no program reads. *)
OnlyRemovalLoses ==
    [][CatalogKeeps
        => CatalogKeeps' \/ (stage = "rename" /\ stage' = "rename_again")]_database

(* Between statements the catalog, if there is one, is what the program has in
   memory: after a CREATE TABLE that failed at any step, as after one that
   succeeded, this program and the next know the same tables. *)
MemoryIsCatalog == stage = "open" => catalog = NoCatalog \/ Loaded = schemas_

=============================================================================
