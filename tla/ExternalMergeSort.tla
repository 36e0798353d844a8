------------------------- MODULE ExternalMergeSort -------------------------
(***************************************************************************)
(* The external merge sort (src/query/external_merge_sort.cpp): the input  *)
(* is cut into runs of at most memory_limit_rows rows, each is sorted and  *)
(* written to a file of its own, and a heap merges the runs.               *)
(*                                                                         *)
(* The code does not check its writes: a run may have been cut short, at   *)
(* the end of a tuple or within one.  What fails shows when the run is     *)
(* read, or when the rows are counted at the end.  An exception leaves     *)
(* files behind, and the next sort of the same process uses their names.   *)
(***************************************************************************)
EXTENDS Integers, Sequences, FiniteSets, SequencesExt

CONSTANTS Keys,     \* the values of the key column
          MaxRows,  \* rows of the input
          Limits,   \* values of memory_limit_rows
          MaxRuns,  \* run files the directory has room for
          MayFail   \* whether writing, creating and opening files may fail

ASSUME KeysAssumption == Keys \subseteq Int
ASSUME BoundsAssumption == MaxRows \in Nat /\ MaxRuns \in Nat
ASSUME LimitsAssumption == Limits \subseteq Nat
ASSUME MayFailAssumption == MayFail \in BOOLEAN

VARIABLES
    input,    \* the table: rows with a key, told apart by their number
    limit,    \* memory_limit_rows
    next_row, \* i, the first row that is in no run yet
    runs,     \* how many runs were made
    files,    \* the run files: their rows, and whether another one is cut short
    readers,  \* per reader that was opened, the rows it has not delivered
    heap,     \* the next row of each run
    sequence, \* numbers the entries of the heap
    result,
    at        \* the loop that is running, or how sort ended

vars == <<input, limit, next_row, runs, files, readers, heap, sequence, result, at>>

NoFile == [rows |-> <<>>, cut |-> FALSE, exists |-> FALSE]

RunIds == 0 .. MaxRuns - 1

Inputs ==
    UNION {[1 .. n -> Keys] : n \in 0 .. MaxRows}

Numbered(keys) == [i \in DOMAIN keys |-> [key |-> keys[i], number |-> i]]

Sorted(rows) == \A i, j \in DOMAIN rows : i < j => rows[i].key <= rows[j].key

Rearranges(rows, others) ==
    /\ Len(rows) = Len(others)
    /\ ToSet(rows) = ToSet(others)

-----------------------------------------------------------------------------
UsedLimit(given) == IF given = 0 THEN 1 ELSE given

\* sort is called.
Begins ==
    /\ \E keys \in Inputs : input' = Numbered(keys)
    /\ \E given \in Limits : limit' = UsedLimit(given)
    /\ next_row' = 1 /\ runs' = 0
    /\ readers' = <<>> /\ heap' = {} /\ sequence' = 0
    /\ result' = <<>>
    /\ at' = "runs"

Init ==
    /\ input = <<>> /\ limit = 1
    /\ next_row = 1 /\ runs = 0
    /\ files = [run \in RunIds |-> NoFile]
    /\ readers = <<>> /\ heap = {} /\ sequence = 0
    /\ result = <<>>
    /\ at = "returned"

Call == at \in {"returned", "thrown"} /\ Begins /\ UNCHANGED files

LastOfRun ==
    IF next_row + limit - 1 < Len(input) THEN next_row + limit - 1 ELSE Len(input)

Chunk == SubSeq(input, next_row, LastOfRun)

\* std::sort is not stable: rows with equal keys may come in any order.
SortedChunks ==
    {rows \in [DOMAIN Chunk -> ToSet(Chunk)] : Rearranges(rows, Chunk) /\ Sorted(rows)}

\* One turn of the first loop: the run is sorted and written, over whatever the
\* file had, until an error cuts it short.
MakeRun ==
    /\ at = "runs" /\ next_row <= Len(input)
    /\ runs < MaxRuns
    /\ \E rows \in SortedChunks :
          \E length \in IF MayFail THEN 0 .. Len(rows) ELSE {Len(rows)},
             cut \in IF MayFail THEN BOOLEAN ELSE {FALSE} :
              /\ cut => length < Len(rows)
              /\ files' = [files EXCEPT ![runs] =
                     [rows |-> SubSeq(rows, 1, length), cut |-> cut, exists |-> TRUE]]
    /\ runs' = runs + 1
    /\ next_row' = next_row + limit
    /\ UNCHANGED <<input, limit, readers, heap, sequence, result, at>>

RunsMade ==
    /\ at = "runs" /\ next_row > Len(input)
    /\ at' = "open"
    /\ UNCHANGED <<input, limit, next_row, runs, files, readers, heap, sequence, result>>

-----------------------------------------------------------------------------
(* RunReader: the readers are destroyed, with their files, when sort ends in
   whatever way; a constructor that throws leaves its file.  Removing a file is
   taken to succeed (the destructor ignores the error). *)

\* Mutant: the destructor only closes the file.
FilesClosed == files

FilesAfterReaders ==
    [run \in RunIds |-> IF run + 1 \in DOMAIN readers THEN NoFile ELSE files[run]]

Throw ==
    /\ at' = "thrown"
    /\ files' = FilesAfterReaders
    /\ readers' = <<>> /\ heap' = {}
    /\ UNCHANGED <<input, limit, next_row, runs, sequence, result>>

\* advance: a tuple that is cut short throws; the end of the file does not.
Unreadable(rows, run) == rows = <<>> /\ files[run].cut

\* A run cannot be created.
CreateFails ==
    /\ at = "runs" /\ next_row <= Len(input)
    /\ MayFail \/ runs = MaxRuns
    /\ Throw

OpenReader ==
    /\ at = "open" /\ Len(readers) < runs
    /\ ~Unreadable(files[Len(readers)].rows, Len(readers))
    /\ readers' = Append(readers, files[Len(readers)].rows)
    /\ UNCHANGED <<input, limit, next_row, runs, files, heap, sequence, result, at>>

OpenFails ==
    /\ at = "open" /\ Len(readers) < runs
    /\ MayFail \/ Unreadable(files[Len(readers)].rows, Len(readers))
    /\ Throw

ReadersOpen ==
    /\ at = "open" /\ Len(readers) = runs
    /\ at' = "seed"
    /\ UNCHANGED <<input, limit, next_row, runs, files, readers, heap, sequence, result>>

HasValue(i) == readers[i] # <<>>

\* pop and heap.push; the row after the popped one is read at once.
Push(i, others) ==
    /\ heap' = others \cup
           {[row |-> Head(readers[i]), reader |-> i, sequence |-> sequence]}
    /\ readers' = [readers EXCEPT ![i] = Tail(@)]
    /\ sequence' = sequence + 1

\* The next reader that has not been popped once; empty ones are passed over.
Seeded == {entry.reader : entry \in heap}

ToSeed == {i \in DOMAIN readers : HasValue(i) /\ \A j \in Seeded : j < i}

Seed ==
    /\ at = "seed" /\ ToSeed # {}
    /\ LET i == Min(ToSeed)
       IN  /\ ~Unreadable(Tail(readers[i]), i - 1)
           /\ Push(i, heap)
    /\ UNCHANGED <<input, limit, next_row, runs, files, result, at>>

SeedFails ==
    /\ at = "seed" /\ ToSeed # {}
    /\ LET i == Min(ToSeed) IN Unreadable(Tail(readers[i]), i - 1)
    /\ Throw

AllSeeded ==
    /\ at = "seed" /\ ToSeed = {}
    /\ at' = "merge"
    /\ UNCHANGED <<input, limit, next_row, runs, files, readers, heap, sequence, result>>

Comes(entry, other) ==
    \/ entry.row.key < other.row.key
    \/ entry.row.key = other.row.key /\ entry.sequence <= other.sequence

\* heap.top(): entries are told apart by their sequence.
Top == CHOOSE entry \in heap : \A other \in heap : Comes(entry, other)

\* One turn of the merge: the smallest row goes out, its reader refills the heap.
Merge ==
    /\ at = "merge" /\ heap # {}
    /\ result' = Append(result, Top.row)
    /\ IF HasValue(Top.reader)
       THEN /\ ~Unreadable(Tail(readers[Top.reader]), Top.reader - 1)
            /\ Push(Top.reader, heap \ {Top})
       ELSE heap' = heap \ {Top} /\ UNCHANGED <<readers, sequence>>
    /\ UNCHANGED <<input, limit, next_row, runs, files, at>>

MergeFails ==
    /\ at = "merge" /\ heap # {}
    /\ HasValue(Top.reader) /\ Unreadable(Tail(readers[Top.reader]), Top.reader - 1)
    /\ Throw

\* Mutant: the rows are not counted.
NotCounted == TRUE

Complete == Len(result) = Len(input)

Returns ==
    /\ at = "merge" /\ heap = {}
    /\ Complete
    /\ at' = "returned"
    /\ files' = FilesAfterReaders
    /\ readers' = <<>>
    /\ UNCHANGED <<input, limit, next_row, runs, heap, sequence, result>>

Incomplete ==
    /\ at = "merge" /\ heap = {}
    /\ ~Complete
    /\ Throw

Next ==
    \/ Call
    \/ MakeRun
    \/ CreateFails
    \/ RunsMade
    \/ OpenReader
    \/ OpenFails
    \/ ReadersOpen
    \/ Seed
    \/ SeedFails
    \/ AllSeeded
    \/ Merge
    \/ MergeFails
    \/ Returns
    \/ Incomplete

Spec == Init /\ [][Next]_vars

-----------------------------------------------------------------------------
(* A sort that returns has every row of its input once, in order, whatever was
   cut short on the way and whatever files an earlier sort left (the count at
   the end, ios::trunc, the comparison of the heap). *)
ReturnsSorted ==
    at = "returned" => Sorted(result) /\ Rearranges(result, input)

(* "Las corridas temporales ... se eliminan al finalizar el merge"
   (docs/semana_13_external_merge_sort.md): once the merge has begun, the runs
   of this sort are removed however it ends (~RunReader). *)
RunsRemoved ==
    [][at = "merge" /\ at' \in {"returned", "thrown"}
          => \A run \in 0 .. runs - 1 : ~files'[run].exists]_vars

=============================================================================
