# DinoDB in TLA+

DinoDB is a small single-user, single-threaded database in C++17: paged files,
a buffer pool with LRU replacement, slotted pages, a B+ tree index, tables
outside the pool, Volcano operators, an external merge sort, and a console for
a subset of SQL. These modules model its logic, TLC checks them on small
instances, and TLAPS proves for every instance the properties of the pool, its
replacer, the table files, the demo commands' two files and the sort, the shape
of the B+ tree, and that values survive their stored form.

The names of definitions follow the source. Paths below are relative to the
repository. A definition that a comment calls *Mutant* is a plausible bug: put
in place of the definition it varies, it breaks a property of this project.

## 1. Inventory

### Paged file: `storage/file_writer.cpp`, `storage/disk_manager.cpp`
*State:* a file descriptor; the page count is always the file's size.
*Operations:* read, write, allocate (write a formatted page at the end), flush
(fsync). *Hard:* a write reaches the operating system's cache, fsync the
device; the system may write any page back earlier; writes may fail, be cut
short, or be lost with the power. *Right when:* the file never ends before a
page somebody can name, and what was flushed is on the device.

### LRU replacer: `buffer/lru_replacer.cpp`
*State:* a list of frames and an index into it. *Operations:* pin, unpin,
victim. *Right when:* the list has no frame twice, and the victim is the frame
that has been evictable longest.

### Buffer pool: `buffer/buffer_manager.cpp`
*State:* frames, page table, replacer, counters. *Operations:* fetch_page,
unpin_page, new_page, flush_page, flush_all, delete_page, reset_metrics.
*Interaction:* the B+ tree calls it and holds `Page*` into the frames; it calls
the replacer and the file. *Hard:* interleaved holders of one page; every call
makes several I/O calls, and an exception leaves the steps done so far; a
process or the machine stops at any time. *Right when:* no held pointer ever
shows another page, pins are counted, table and frames mirror each other, and
to its user the whole pool is paged storage with a durability contract.

### B+ tree: `index/bplus_tree.cpp`
*State:* root and height in memory; header, leaves and internal nodes in the
pages of a pool. *Operations:* constructor (create or load), insert, search,
range_scan. *Hard:* splits write several pages, and each write may throw; the
leaf chain and the tree are two structures that must agree; after a kill the
file mixes pages of different moments. *Right when:* it is a map, balanced,
both ways in agree, no loop runs for ever.

### Slotted page: `storage/page.cpp`
*State:* counters, slot directory growing up, records growing down.
*Operations:* insert (reusing a free slot), read, remove, compact. *Right
when:* no record touches another or the directory, and the page is a list of
numbered slots.

### Persistent table: `query/persistent_table.cpp`
*State:* the file; a cursor in each scan. *Operations:* insert (at most two
page writes), read, next. *Hard:* rows are inserted under an open scan;
a failed insertion leaves a page; power losses. *Right when:* each RID leads to
its record for good, and scans are complete.

### Demo commands: `cli/dinodb_cli.cpp`, `query/index_scan.cpp`
*State:* a table file and an index file. *Operations:* init, insert,
insert-bulk, find, range, stats, reopen-check. *Hard:* two files are kept in
step without a log. *Right when:* an index entry leads to a row
of its key, and what was flushed stays.

### Catalog and SQL statements: `query/database.cpp`
*State:* `schemas_`, `catalog.meta`, one file per table. *Operations:*
constructor, CREATE TABLE, INSERT, SELECT, SHOW TABLES, DESCRIBE. *Hard:* a
creation is a file, a temporary file and up to two renames, any of which may
fail or be the last thing the program does; the directory may be of the first
version, with an untyped catalog and records of another format. *Right when:* no
schema or row is lost, memory, catalog and files agree, and SELECT returns the
rows its text asks for.

### Values and records: `query/tuple.cpp`
*State:* none. *Operations:* parsing, formatting, conversion and comparison of
INT, TEXT, DATE and HOUR; writing and reading records of two formats. *Hard:* a
date is an integer that is formatted and parsed again when it is read, and a
record that cannot be read is passed over in silence. *Right when:* what was
stored is what is read, in the order of the calendar and the clock.

### SQL parser: `query/sql_parser.cpp`
*State:* a cursor over tokens. *Operations:* a function for each part of the
grammar. *Hard:* keywords are names too, AND binds before OR, each function must
leave the cursor exactly behind what it took. *Right when:* it accepts the
language and nothing else, and the tree is the meaning.

### SQL console: `cli/dinodb_cli.cpp`
*State:* the text that is pending. *Operations:* a line, a command, a statement,
the end of the input. *Hard:* statements over several lines and several in a
line, quotes that the console and the lexer look for apart from each other.
*Right when:* what is executed is what was typed, cut at the right semicolons,
and the loop ends.

### External merge sort: `query/external_merge_sort.cpp`
*State:* run files, readers, a heap. *Hard:* no write is checked; names of run
files are used again by the next sort; exceptions. *Right when:* what it
returns is the sorted input, and its files go.

### Volcano operators: `query/seq_scan.cpp`, `selection.cpp`, `projection.cpp`, `nested_loop_join.cpp`
*State:* cursors and the right side of the join. *Hard:* any order of open,
next and close, over tables that grow. *Right when:* the tuples are those of
the join, each call returns.

### Benchmarks, demo program
Not modelled; see section 7.

## 2. Modules

| Module | Models | State and actions |
|---|---|---|
| `DiskManager` | the paged file as a value | `pages`, `page_count`: what the process sees; `synced`, `synced_count`: what the device has. Operators for write, allocate, flush, write-back, torn write, power loss |
| `LRUList` | the replacer's list as operators | `PinFrame`, `UnpinFrame`, `VictimFrame`, `PopVictim` |
| `LRUReplacer` | the replacer alone | one action per member function |
| `LRUPolicy` | its abstract specification | a set of evictable frames and the relation "evictable for longer" |
| `BufferManager` | the pool | one action per public function and outcome (hit, miss, failed read, failed eviction, ...), holders writing through their pointers, process exits, power losses |
| `PageStore` | its abstract specification | contents, and per page the `versions` a crash may bring back |
| `MCBufferManager` | instances for TLC | symmetry |
| `LRUList_proofs`, `LRUReplacer_proofs`, `BufferManager_proofs`, `BPlusTree_proofs`, `PersistentTable_proofs`, `IndexFile_proofs`, `IndexedTable_proofs`, `QueryEngine_proofs` | theorems (section 5) | |
| `BPlusNode` | nodes: splitting, searching, promoting | operators |
| `BPlusTree` | the tree over the pages of a pool | the call of insert is a step, and each of its page writes, which may throw; search and range_scan are operators |
| `IndexMap` | its abstract specification | one map, and the key and RID of the insertion that runs |
| `IndexFile` | the tree in its file over several commands | extends `BPlusTree` with the file's pages: PageOut, FlushAll, Exit |
| `SlottedPage` | `Page` as operators | bytes, directory, counters |
| `RecordPage`, `MCRecordPage` | a page under insert, remove, compact | |
| `RecordSlots` | its abstract specification | a sequence of records and free slots |
| `PersistentTable`, `MCPersistentTable` | a table file of slotted pages and one open scan | instance of `DiskManager` with slotted pages as contents |
| `IndexedTable` | table and index of the demo commands | rows and entries, each in the process, in the file, on the device; an eviction is a write and an fsync |
| `SqlValues` | values, conversions, comparison, records | pure operators; one that throws yields `Throws` |
| `SqlParser` | lexer and parser | an operator for each function: of the tokens and the cursor |
| `SqlMeaning` | the language, not the code: what is a statement, which rows a SELECT asks for | operators on the sequence of tokens as a whole, without a parser, a tree or an encoded value |
| `CatalogFile` | the directory of a database | each call of the file system in CREATE TABLE is a step, an inserted row is one; `DirectorySpec` is the directory with any statements |
| `Catalog` | its statements | what CREATE TABLE and INSERT accept, as steps of `CatalogFile`; SELECT is an operator on the state |
| `SqlShell`, `MCSqlShell` | a program over the database: `cmd_shell`, or statements one by one | a line read, a command, one turn of the loop over what is pending, the end of the input |
| `ExternalMergeSort` | one sort after the other | runs, readers, heap |
| `VolcanoPlan` | a join over a scan and a selection | a step for each turn of the loops of open and next; close |
| `MCQueryOperators` | the sort and the plan in one run | the steps of one or of the other |

How they compose: `BufferManager` is built from `LRUList` and `DiskManager`;
`BPlusTree` stands on `PageStore`'s view of a pool (its `pages` is what
`PageStore` calls `content`), which `BufferManager` is shown to implement;
`IndexFile` adds what a crash does to it; `PersistentTable` combines
`SlottedPage` and `DiskManager`; `IndexedTable` abstracts `PersistentTable`
to rows and `IndexFile` to entries. On the SQL side each module extends the one
before it: `SqlValues`, `SqlParser`, `SqlMeaning`, `Catalog`, `SqlShell`; `Catalog`
extends `CatalogFile` too, which is apart because it needs no parser. A table file
there is the sequence of records that `PersistentTable` keeps. The parts of
the query engine (sort, plan, directory) have no names in common, so that
`QueryEngine_proofs` can extend all of them.

Modelling decisions:

- The program has one thread. Where a call makes no I/O that may fail in
  between, it is one action; where a failure or a kill may come between two of
  its effects, each is an action. Interleaving is between calls: several
  holders of pages, a scan and insertions, a plan and insertions, one command
  after another.
- Contents are abstract: a page of the pool is one of a few values, a record is
  a name and a length, a row is a key. `SlottedPage` alone looks at bytes, as
  intervals of a small page.
- A `Page*` is a frame number, not a page number: a holder writes to whatever
  the frame holds, so a stale pointer would be seen.
- A text of SQL is a sequence of symbols: a character where characters matter
  (quotes, semicolons, points, white space, punctuation), else a whole keyword,
  name, number or date. The lexer's loops over letters and digits are thereby
  left out; dates and hours are texts whose numbers are known, and the checks on
  those numbers are the code's. Keywords and names are written in lower case,
  as the lexer makes them.
- A function of the parser takes a cursor and returns one. A cursor that ran off
  the tokens would stop TLC with an error, so every run also checks that none
  does. `Then` is "unless it throws"; it puts a result in a set of one element
  because TLC evaluates the bound of a quantifier once.
- `PersistentTable::next` passes over records that cannot be read, so `Select`
  does too.
- `TypeOK` of `BufferManager` has no upper bound on pins: `pin_count` is an
  `int` in the code and as many holders as would overflow it are not possible.

## 3. Runs

Each run finishes without error, except `rids_unique`, which shows a claim of
the sources violated (section 6). Bounds are the constants of the `.cfg`.

| Run | Question | Properties | Bounds |
|---|---|---|---|
| `replacer` | is the list an LRU replacer? | `ImplementsPolicy` | 5 frames, capacity 4, so a full list occurs |
| `pool` | do pins, frames, table and list agree whatever the callers do? | `HandlesStable`, `PinAccounting`, `TableMirrorsFrames`, `VictimsEvictable`, `NoFrameLost`, `CleanFramesMatchFile` | 2 frames, 3 pages, 2 holders: shared pages, evictions, full pool, exits half-way through flush_all |
| `pool_faults` | what does a user see when any I/O fails? | `TypeOK`, `CopiesAreVersions`, `FileCoversPool`, `ImplementsPageStore` | 1 frame, 2 pages, 2 holders: every miss evicts |
| `tree_orders` | is the tree right for every order of insertions? | `TypeOK`, `Balanced`, `NoPageLost`, `ScanIsIndex`, `ImplementsIndexMap` | 6 keys, 2 RIDs, 2 entries per leaf, 2 keys per node: height 3, so splits of leaves, of the root leaf and of an inner root. An inner node that is not the root never splits: that takes six leaves, and six keys make at most five. Only the proofs cover it |
| `tree_failures` | what is left of a tree whose insertions throw? | `FoundIsScanned`, `LoopsEnd`, `ImplementsIndexMap` | 3 keys, 2 RIDs, 1 entry per leaf, 7 pages |
| `index_file` | what survives the end of commands? | `FlushedIndexKept`, `ChainsEnd` | 3 keys, 6 pages; one leaf split and a root |
| `record_page` | do records keep apart? | `CompactReclaims`, `ImplementsRecordSlots` | 26 bytes, records of 0, 3 and 5: pages full by space and by directory |
| `table` | do RIDs stay good, are scans complete? | `RowsReadable`, `ScanComplete` | 2 pages of 2 rows; a record that fits in no page; one page found half-written by a power loss; of a page without a header a scan tries one slot or none (`MaxGarbage`) |
| `indexed_table` | do index and table stay in step? | `EntriesLeadToRows`, `OnlyBulkRunsAhead` | 2 keys, 3 rows |
| `rids_unique` | is a RID ever given out again while an entry has it? | `RidsUnique` (violated) | 2 keys, 3 rows, no power losses: a kill is enough |
| `catalog` | is SQL, from the line typed to the record, what it says? | `SelectRight`, `MemoryIsCatalog`, `CutsRight`, `LexerAgrees`, `GrammarAccepted`, `OnlyRemovalLoses`, `ConsoleEnds` | see below |
| `query_operators` | is what sort returns sorted, whatever fails? does a join return its tuples, and return? | `ReturnsSorted`, `RunsRemoved`, `ReturnsJoin`, `ReturnsAll`, `NextReturns` | sort: 3 rows, 2 keys, limits 0 to 3, 3 runs; join: 2 rows each side, 3 values, 5 calls |

Why these bounds are enough to be of interest: the failures of this code are
about one page, one frame or one split at a time, with one bystander. Each
instance has one more of everything than the code distinguishes (first, last,
full, empty): a second holder, a page more than frames, a third level of the
tree, a second page of the table, a second run. Every action of every next-state
relation is taken in some run.

`catalog` explores three families of sessions:

- *Statements one by one*, on a new directory or one of the first version, with
  writes, renames and creations that fail and kills at every step: two shapes of
  one table (date and hour, integer and text), a second table, insertions that
  are converted or refused, and after every step each of seven queries. At most
  3 rows per table. One of the historical rows has the integers whose bytes are
  the magic number of the other format.
- *Consoles that read every pair of lines* of up to three symbols over a quote, a
  semicolon, a point, a space and a letter: 24336 inputs. With two lines and
  three symbols a literal can be open at the end of a line, a quote doubled, a
  semicolon inside and outside, a statement empty, a command a command or not.
- *Consoles that read one sentence*, as it should be or with one symbol removed,
  added or replaced (every position, eleven wrong symbols), on a table with all
  eight combinations of three conditions; all twelve conditions of two
  connectives and a pair of parentheses or none are among the sentences.

`BufferManager` counts hits and misses up to `MetricBound`; a device has
`MaxPages` pages and is then full, which the code reports as an exception, so
the models stop growing without a state constraint.

`index_file` turns the deadlock check off, and `tree_failures` does: an index
file without a header can never be opened again, and nothing more happens.

## 4. Correctness and refinement

*Pool.* `PageStore` says what a user may rely on: a page reads as last written,
wherever it is kept; `versions[p]` are the contents it may come back with after
a crash; a flush makes that one content, a torn write adds a torn one. Under the
mapping in `BufferManager` (contents: the frame if there is one, else the
file) each call of the pool is the step of the store that it should be
(`StoreStep`): only `delete_page` discards what was not written, only the end of
the process and a power loss go back to earlier versions, and a `fetch_page` that
evicts changes nothing, but that a page whose write was cut short may now read as
torn. The parts of the contract
are also stated as invariants, which give shorter counterexamples.

*Tree.* `IndexMap` has one map, and the call of insert that is running, which the
mapping takes from the tree's. While insert is running the index is what it was
before; it cannot return without its key having its RID and all others what they
had, and so it takes effect once, at its end. One that throws may lose keys, and
give its own key its RID, but no key any other. Closing a tree may lose keys
too, after an insertion failed.

*Page.* `RecordSlots` is a sequence of slots.

*Replacer.* `LRUPolicy` has no list.

*Torn pages.* insert only appends: to the records, to the directory, and to the
counters of the header. So each row that was flushed is readable in every mixture
of an old and a new header, directory and record area, which is what
`RowsReadable` checks. Of rows that were not flushed it says nothing: `PowerLoss`
takes those it finds. In the same way a `pwrite` that stops short, in a process
that goes on, leaves the rows of the page readable: its bytes go from the header
to the end of the page, where the new entry is (`InsertCutShort`).

*A page without a header.* The device may have grown the file without the data of
the last page. The next row is written over the header of zeros, and from then on
the code takes bytes of the record for the end of the records and the number of
slots (page.cpp:87-91, 107). It goes on inserting in that page or allocates a new
one, and a scan of it reads any number of slots with any contents, within the page
or out of bounds. The model keeps the page opaque (`MangledPage`): every choice of
`can_fit` is a step, a scan reads none or up to `MaxGarbage` slots of it and
returns any record, and no row in it is claimed to be readable. The properties say
what this does not disturb: all other pages and their rows.

*SQL.* `SqlMeaning` says of the tokens of a statement, as a whole, whether it is
one and which rows it asks for: positions of OR outside parentheses cut a
condition into alternatives, those of AND each alternative, commas a list; a
date is its three numbers. The code's way is another one: a cursor, a tree,
encoded integers, records. `GrammarAccepted` and `SelectRight` compare the two
ends. In the same way `CutsRight` says what the statements of a text are by
counting quotes before each semicolon, and `LexerAgrees` that the tokens spell
the text.

### Fairness

Two specifications state fairness. `VolcanoPlan`: weak fairness of the loops of
`open` and `next` (`Running`), for `NextReturns`. `SqlShell`: weak fairness of the console's
program, its lines, statements and file system calls, and of the return of `main`
after the last line, for `ConsoleEnds`; a kill may come and is never owed, and a
program that executes statements one by one is asked nothing. Both are justified
by the code: one thread, no locks, no waiting except for the next line, which a
script has; what has begun goes on. The other loops
(`find_leaf_page`, `range_scan`) are operators with a bound on their turns, and
that they end is stated as safety: `LoopsEnd` after failures, `ChainsEnd` after
kills.

## 5. Proofs

For every value of the constants (frames, pages and holders; keys, records, rows
and sizes of node; every choice of failing I/O, kills and power losses; texts):

| Theorem | Module | Establishes |
|---|---|---|
| `ListedOnceHolds` | `LRUReplacer_proofs` | the list never has a frame twice |
| `ReplacerImplementsPolicy` | `LRUReplacer_proofs` | the replacer implements `LRUPolicy` |
| `PoolInvariant` | `BufferManager_proofs` | the inductive invariant `PoolInv` |
| `EntriesLead`, `BulkAloneRunsAhead` | `IndexedTable_proofs` | the two properties of `indexed_table`, with the two exceptions they name |
| `DatesReadBack`, `DatesInOrder`, `HoursReadBack`, `HoursInOrder` | `QueryEngine_proofs` | encodings of dates and hours come back, and are ordered as the calendar and the clock |
| `CoercedIsValue`, `TuplesReadBack`, `FormatsToldApart` | `QueryEngine_proofs` | what INSERT can store is read as it was stored; a historical record is never taken for a tagged one |
| `TypeCorrect`, `HandlesStayValid`, `PinsCountHolders`, `TableIsMirror`, `OnlyEvictableListed` | `BufferManager_proofs` | its conjuncts, which the runs check too |
| `CopiesStayVersions`, `FileCovers` | `BufferManager_proofs` | the two durability properties of `pool_faults`, whatever fails |
| `CleanInvariant`, `CleanFramesMatch` | `BufferManager_proofs` | the file has the page of a clean frame, or has it torn; if no write is cut short, it has the page |
| `FramesNotLost` | `BufferManager_proofs` | `NoFrameLost`, if writes and fsync succeed |
| `PoolImplementsStore` | `BufferManager_proofs` | each call of the pool is its step of `PageStore`, whatever fails |
| `TreeInvariant` | `BPlusTree_proofs` | the inductive invariant `TreeInv` |
| `TreeTypeOK`, `TreeBalanced`, `TreeLoopsEnd` | `BPlusTree_proofs` | nodes are well formed, all leaves are at one depth, descents and leaf chains end, whatever insertions throw |
| `MapInvariant` | `BPlusTree_proofs` | the inductive invariant `MapInv` of the keys |
| `TreeImplementsIndexMap` | `BPlusTree_proofs` | the tree implements `IndexMap`: insertions that return take effect on their key and once, those that throw give no key a RID but their own |
| `TreeFoundIsScanned` | `BPlusTree_proofs` | a range scan returns every key of its range that search finds, whatever insertions throw |
| `TreePeopled` | `BPlusTree_proofs` | the inductive invariant `PeopledInv`, if no step fails |
| `TreeNoPageLost`, `TreeScanIsIndex` | `BPlusTree_proofs` | if no step fails: every node is on the way to some key, and a range scan returns what search finds, each key once, in order, and nothing else |
| `FileInvariant` | `IndexFile_proofs` | the inductive invariant `FileInv` of the index file over several processes |
| `FileChainsEnd` | `IndexFile_proofs` | every leaf chain ends, whatever mixture of pages kills leave and whatever calls fail |
| `FileFlushedKept` | `IndexFile_proofs` | what flush_all saved is kept, if no call throws |
| `RowsReadableHolds`, `ScanCompleteHolds` | `PersistentTable_proofs` | the two properties of `table`, writes cut short, torn pages and pages without a header included |
| `ReturnsSortedHolds`, `RunsRemovedHolds` | `QueryEngine_proofs` | the two properties of the sort, whatever run is cut short or cannot be opened |
| `PlanReturnsJoin`, `PlanReturnsAll` | `QueryEngine_proofs` | the two safety properties of the plan, for any tables, predicate and sequence of calls; a left side that is empty at `open` has ended there |
| `DirectoryMemoryIsCatalog`, `DirectoryOnlyRemovalLoses` | `QueryEngine_proofs` | the two properties of `catalog` about schemas and rows, for any tables and statements, whatever fails and whenever the program is killed |
| `DirectoryKeeps` | `QueryEngine_proofs` | if no rename fails, a table whose creation returned stays in the catalog, with its schema and all its rows |

Assumptions: those named in the modules (positive numbers of frames and pages,
a finite set of holders, distinct special contents, keys that are integers,
encoded tuples that are not empty), which TLC evaluates in every run.

*The argument for the pool.* None of the invariants is inductive alone. That a
handle stays valid needs that its frame is never a victim; that needs that only
unpinned frames are listed (`VictimsEvictable`) and that pins count holders
(`PinAccounting`); that a count stays right on unpin needs the page table to
lead back to the holder's frame (`HandlesStable`), and that a miss makes no
second copy of a page needs table and frames to mirror each other
(`TableMirrorsFrames`). Two facts nobody states in the code complete them: a
handle is empty in all its fields or in none (`HandleShape`), and a page in the
pool is within the file (`ResidentInFile`), which makes the page that new_page
gets from the end of the file one that is in no frame. `PoolInv` is their
conjunction. Its proof has a step for each action of `Next`; the steps that
occupy a frame (`Occupy`), pin one and unpin one are lemmas, and what the list
operators do comes from `LRUList_proofs`.

*The argument for durability.* `CopiesAreVersions` and `FileCoversPool` say too
little to be inductive. `Sound` relates the disk to `versions` and adds two facts:
what the device has never received is a `Hole` there, and a page that the file
has and the device has not may still come back `Fresh`. `FramesSound` is the same
for the copies in frames. Each operation of the disk keeps `Sound`, one lemma each;
a flush, which takes versions away, needs that the file holds what is left.
`NoFrameLost` needs besides that the capacity of the list is never what keeps
a frame off it (`RoomForTheLast`). It is false if writes or fsync may fail, and
`CleanFramesMatchFile` if a write may be cut short (section 6): the theorems say
so in their assumptions on `Faults`.

*The argument for the refinement.* What a user sees of a page is `Visible`: its
frame, or else the file. A step that evicts shows the victim's page through the
file afterwards. `CleanOrTorn` says that the file has the same content there, or a
torn one, which the store takes for `Forget` (or, in new_page, for the pages
`Allocate` may lose); a page whose write was not cut short must look the same
before and after. The same fact gives `FlushAll` its torn pages. `QuietHandles`
(who holds no page has written none) keeps `open` right when a handle is taken,
and the two facts in `Sound` are why a page with a single version is on the
device when the power goes. `NextStore` has one lemma per action.

*The argument for the replacer.* A list without repetitions is the same as a set
and the order "stands before"; `LRUList_proofs` says what pin, unpin and victim
do to both, and the refinement theorem puts them together action by action.

*The argument for the demo commands' files.* That an entry leads to its row is
not inductive for what the process and the file have alone: what a power loss
brings back was in the file before (`DeviceBehindFile`). The order of the two
flushes appears as `StoredBeforeIndex`, and what the system may write back early is
harmless because of `FileBehindTable`: unless an eviction ran ahead (`ahead`), the
entries of the file have their rows on the device, so a power loss takes no row
from them. Two events do, and then `misled` is set: `init` cut short between its
two removals, and a power loss that takes rows away while `ahead`. `misled` says
nothing of entries, so the invariant shows that nothing else leads an entry
astray. The theorems assume nothing: kills, evictions cut short between the write
and the fsync, and power losses come at any time. That a removed file stays
removed, in the order of the removals, is taken from the file system.

*The argument for values and records.* Arithmetic: month and day are below 100,
minute and second below 60, so division takes the encoding apart again, and the
most significant number decides a comparison. A tuple is read field by field,
and each field that conversion can make passes the check of its type.

*The argument for the tree.* `Balanced` looks at the root only, and insertions
that throw leave nodes behind that no descent reaches but a leaf chain does. So
`TreeInv` speaks of every node of the file: there is a function `level` that is 0
on the leaves and goes down by one from a node to each child, and a function
`rank` that grows along `leaf.next`. Both are under an existential quantifier; a
step that makes a page gives it a level and a rank, and the rank of a new leaf
moves up all the leaves behind the one that is split. A node that was made and
not yet written (its child is page 0) is exempt, and `SplitOK` says what the
halves waiting to be written will be. From `level`, a descent is at level 0
after `height_ - 1` steps; from `rank`, a chain visits no leaf twice, and so ends
within the pages of the file. The recursive functions in `Descent`, `Depth` and
`Chain` are treated by the least index where a claim about them fails.

*The argument for the map.* `Tree` gives each page the set of keys whose descent
visits it (`span`): all of them at the root, and what the separators leave of a
node's set at each child. From it follow that a descent for a key ends on the
one leaf with this key in its set, and so what search answers (`Answers`).
`MapInv` says of which pages and which answers this holds in each state:

- During a split the halves are not linked yet, so it speaks of `View(whole)`,
  the file with the split node still in one piece (`whole`); `Halves` says how
  the two halves come from it, and `SplitKeys` that the key being inserted is in
  its set. When the parent (or a new root) has the separator, `SplitTree` makes
  the tree with both halves, and the index changes from `before` to `After`:
  before that a search could not run, since the insertion has not returned.
- A split that fails leaves the left half and no way to the right one. `CutTree`
  says that what is left is still a tree: the keys of the right half are led to
  the greatest key of the left (`hat`), where search finds nothing, and no other
  key answers otherwise than before.
- A root that was split in memory while the header was not written: the file has
  the old root. `HeaderKeys` says that it has the least keys of all, and
  `SubTree` that it is the root of a tree of its own, with the keys of the others
  lost. So whoever opens the file finds a map with fewer keys, and none wrong.

A step then changes the index and the call as `IndexStep` says (`NextMap`, one
lemma per action): `BeginInsert` begins the call of the map; the step after which
insert returns has given the call's key its RID (`After`), for which the key and
RID carried through a split must be those of the call (`CalledWith`); and a step
that throws ends in `InsertFails` (`InsertionFailed`). Between the two the call and
the index stay (`CallIsKept`).

*The argument for range scans.* `Linked` (a part of `MapInv`, by `LinkOK`) gives
each leaf the set `beyond` of the keys that the leaves after it in the chain
have: all greater than its own, and with no greater key left out. A leaf that a
failed split left in the chain has no keys in `span`, although it still has
entries; they are smaller than what is beyond it, so a scan does not stop there.
During a split the chain is that of `Ahead`, where the right half is already
written, and the order in which `LinkOK` has the halves take each other's place
is the code's: the new leaf gets the old `next`, then the left half points to
it. A scan that starts on the leaf of `start_key` then has, after each turn,
either found the key or is on a leaf with the key in its set or beyond it, and
`rank` says that it gets there within the turns the model gives it (`ScanFinds`).

That a scan returns nothing else is not true after a failed split, whose entries
stay in the chain. `Peopled` says what a failure takes away: every node has keys
in `span`, except the page a running split has made and no parent names yet
(`Awaited`), and the new root before it is written. The two halves of a node
share its keys and the separator is a key of the right one, so neither half is
left without. `PeopledInv` is `Peopled` for the same `span` as in `KeysOK`, hence
one step lemma shows both (`MapStep`). It fails at the first step of `Fails`
(a call that throws, or a full device), which is why the two theorems exclude
it. From it, `NoPageLost`: a node has a key, the descent to that key visits one
page on each level, and on one level no two pages share a key, so the page
visited is the node. And `ScanIsIndex`: all entries of a leaf with keys are of
its own interval, where search ends as well, and what was collected is smaller
than all that is still ahead in the chain (`ScanOnly`).

*The argument for the index file.* After a kill the file has pages of different
moments, and nothing of `TreeInv` is left: a node and its child may be of one
level, a child may be blank. `FileInv` therefore says what holds of each page by
itself, in the pool and in the file: it is blank or a node that fits, and its
links stay within the pages of the file. What relates the pages is one function
`rank` for all of them: every version of a leaf points to a leaf of higher rank,
those in the pool and those that a kill brings back. A split inserts the new
leaf's rank right after the old one's, so an older version, which still has the
old `next`, agrees with it. From `rank` a chain ends (`FileChainsEnd`), also
where it mixes versions. For `FileFlushedKept`, page 0 is written by
`write_header` alone (`HeaderKept`), so an open tree is always the one that the
file's header names (`FlushInv`), and while nothing was changed since
`flush_all`, pool and file are the same. This is where `~MayFail` is needed: if
the header of a new root is not written and the process goes on, `flush_all`
saves a tree that the next process does not see.

*The argument for table files.* A page under insert only grows (`Grown`): the
entries and bytes it had stay where they are. So an old and a new state of one
page, mixed by header, directory and records, still have every record of the old
one, and what the device has of a page is always an earlier state of it
(`DiskOK`). `RowsOK` says of all rows that the process finds them, and of the
flushed ones that the device does. For scans, `SlotsKnown` says that a slot that
can be read is a row's, and `ScanOK` that the cursor is past what was seen and
has passed nothing else that was due. A page that has a header keeps it in every
mixture, and one that has lost it stays without (`Grown`), so what a scan may have
read from such a page never counts for another. Both assume that no tuple is encoded in no
bytes (`TuplesAssumption`; a tuple has a count of columns): two empty records
could not be told apart.

*The argument for the sort.* Rows are told apart by their numbers, and no row is
ever in two places: the runs are apart (`RunsOK`), a reader and its row in the
heap split what is left of a run (`ReadersOK`, `HeapOK`), and what went out is in
neither (`ResultOK`), nor larger than what is still to come. A run that was cut
short loses rows and doubles none; `sort` counts what it returns, and as many
rows as the input has, none twice, are the input. That the files are removed
needs that every run of the merge has a reader, whose destructor runs however
the merge ends (`PhaseOK`).

*The argument for the join.* While `open` reads the right side, the rows kept are
those up to the cursor that the selection accepts, in order (`RightRows`). Once it
is open, a pair is `Passed` if the outer loop is beyond its left row, or at it with
the inner loop beyond its right row, or if the left side has ended. What was
returned is the passed pairs of the join, in order (`PlanInv`). A left row inserted
meanwhile is ahead of the cursor, so its pairs are not passed, and none of a pair's
rows changes. A right row inserted meanwhile is beyond the rows that were read,
which is why the join is one of the right side as it was at `open`. A left side
that ends has given all its rows, so the passed pairs are all of the join; one
that is empty at `open` has ended too, and what is inserted in it later is not
returned, although the join is then not empty (`current_left_` stays empty and
`next` does not ask the left side again).

*The argument for the directory.* `DbInv` says what the catalog has at each step of
a creation: what the program has in memory without the table being created
(`CatalogFollows`; nothing is missing between statements), or there is no catalog;
and what the temporary file has when it is renamed. A table that was created
whole keeps the path of its file taken (`TablesKnown`), even if its schema is
lost, so no later creation or failed creation touches its rows. Then the rename
is the only step that changes what the catalog says, it adds one table, and the
removal of the catalog is the only step after which something is missing. The
theorems are about `DirectorySpec`, which allows any schema and record in a
statement; each step of `SqlShell` is one of it or leaves the directory alone,
since `Execute` does its work by `CreateTable` and `AppendRow`.

Not proved, only model-checked:

- Liveness and ENABLED (`ConsoleEnds`, `NextReturns`), which the prover cannot
  state.
- `SelectRight`, `CutsRight`, `LexerAgrees`, `GrammarAccepted`: their modules
  reach the recursive operators of `SqlParser` and `SqlMeaning`, for which tlapm
  has no backend.
- `ImplementsRecordSlots` and `CompactReclaims` (bytes counted by folds).

## 6. What the models show that the code's documents do not say

The first one is a finding: TLC shows a sentence of the sources violated. No
property excludes the others; most are listed as hazards, and show if a property
is stated without its exception or a constant is changed.

- **RIDs are given out again** (run `rids_unique`). types.hpp:28 says that a RID
  identifies one record. `init` removes the table and then the index
  (dinodb_cli.cpp:270-271); a process killed between the two leaves the old index
  over a new table, whose first rows get the RIDs of old entries, and `find` of an
  old key prints a new row. The same comes of a power loss: in `insert-bulk` an
  evicted index page is forced out before the rows it names
  (buffer_manager.cpp:195-196, dinodb_cli.cpp:316-319); when those rows are lost,
  their RIDs go to the next ones. `EntriesLeadToRows` says that nothing else
  leads there.
- **A frame is lost.** `find_victim_frame` takes the victim off the list before
  `evict_frame`, which may throw in `pwrite` or `fsync`: the frame keeps its
  page, unpinned and on no list. With `Faults = {"write"}` in the configuration
  of `pool`, TLC finds `NoFrameLost` violated; "pool lleno sin victimas" then
  comes though no page is pinned.
- **An index that was only searched cannot be opened.** The constructor creates
  the tree in the pool only; `find` on a missing index leaves a file of two
  pages without header, which every later command refuses.
- **A killed insertion may hide or revive keys.** With two RIDs in `index_file`,
  a kill in the middle of a split leaves old entries in a leaf, and a later
  split puts them in front of newer ones. There is no log (README.md:458).
- **A failed split.** When the parent cannot be updated, the keys of the right
  half are on the leaf chain but not below the root; inserting one again makes
  ranges return it twice (docs/semana_08_bplus_split_rango.md:15 says "sin
  duplicarlas"). With a single usable frame the write of the right half may
  throw too, which cuts the chain; the model assumes two frames.
- **A torn page.** A power loss in the middle of a page write may leave a slot
  without a readable record, which scans skip. With two such losses
  (`MaxTorn = 2`) the bytes of a row that was lost may come back in the slot of a
  later one that was lost too; nothing that was flushed is affected.
- **A page of zeros.** After a power loss the last page of a table may be one the
  device never got; the next row is written over its header, and neither it nor
  later rows of that page can be relied on.
- **A join over a left side that was empty.** Rows inserted in it after `open` are
  not returned until the plan is opened again.
- **The catalog is removed** when its rename fails; if the second rename fails,
  or the program ends there, the next one starts with an empty catalog
  (docs/lenguaje_consultas_sql.md:171 says "no pierde esquemas ni registros").
  `OnlyRemovalLoses` says that nothing else does.
- **White space at the end of a line.** The console trims what is pending after
  each line, so a TEXT literal over several lines loses the spaces before each
  newline, and more than one newline in a row. `CutsRight` allows exactly that.
- **Keywords are names.** `CREATE TABLE date (or INT, and INT)` is accepted, and
  `WHERE or = 1 OR and = 1` is a condition.
- **A file that blocks a name.** A program killed between the creation of a
  table's file and the rename of the catalog leaves a file for which CREATE
  TABLE is refused from then on (database.cpp:267); so does a creation that fails
  and whose file cannot be removed (database.cpp:286).
- **The two formats of records** have no tag in common, but cannot be confused:
  it would take a historical record of 21572 columns (`FormatsToldApart`).

## 7. Not modelled, and why

- *Spelling*: digits, letters and upper case in the lexer, the digits of a date,
  the bytes and the truncation of a record, the text of `catalog.meta`, messages
  and printed tables. They are conversions that no property here is about.
- `stats`, `reopen-check`, SHOW TABLES, DESCRIBE: they only read, and print.
- *A row of SQL too large for a page*: `PersistentTable` has it.
- *Index file and power losses*: only kills. Page numbers that are given out
  again after a power loss are planned.
- *A torn record*: of a table page that is torn, the area of the records is old
  or new as a whole. A record that is itself cut may read as a row that nobody
  inserted.
- *The catalog and power losses*: it is renamed without fsync; what is left
  depends on the file system.
- *Errors the code ignores or passes on*: that removing a run file fails
  (external_merge_sort.cpp:48-49), and a join predicate that throws.
- *Benchmarks, demo, tests, build files*: they only call the parts above. The
  claim of the hit-rate benchmark (a larger pool has no fewer hits) is planned.

## 8. Plan

Done: the paged file, the replacer and the pool with their proofs; page, table,
tree, index file, demo commands, sort, plan; the SQL side from the console to the
record; proofs about the table, the tree (that it is a map, and what its range
scans find), the index file, the demo commands' files, the directory of a
database, the sort, the plan and values.

Next, in this order:

1. Lemmas about `SlottedPage` (records stay apart,
   `can_fit` is enough).
2. Models: two pools of different size, power losses in `IndexFile`.
