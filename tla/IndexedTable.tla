---------------------------- MODULE IndexedTable ----------------------------
(***************************************************************************)
(* The two files of the demo commands (src/cli/dinodb_cli.cpp): a table    *)
(* and a B+ tree index over its first column, which init, insert and       *)
(* insert-bulk keep in step and find and range use together (IndexScan).   *)
(*                                                                         *)
(* PersistentTable and BPlusTree are the two parts; here a row is its key, *)
(* its RID is its place in the table, and of the index only the entries    *)
(* count that some page of it may hold: in the pool, in the file, and on   *)
(* the device.  Splits and updates drop entries; the sets keep them, so a  *)
(* set is what search may find there at most.                              *)
(***************************************************************************)
EXTENDS Integers, Sequences

CONSTANTS Keys,
          MaxRows,      \* rows the device has room for
          MayLosePower

ASSUME MaxRowsAssumption == MaxRows \in Nat
ASSUME PowerAssumption == MayLosePower \in BOOLEAN

VARIABLES
    table,          \* the rows in the table file, as the system has it cached
    table_stored,   \* how many of them the device certainly has
    entries,        \* the entries the index has for the running process,
    file_entries,   \* in its file,
    device_entries, \* and on the device
    at,             \* what the running command has done
    row,            \* the row that is not in the index yet, or 0
    ahead,          \* history: the pool wrote index pages out, and the table has
                    \*   not been flushed since
    misled          \* history: what the index has is not of this table any more

vars == <<table, table_stored, entries, file_entries, device_entries, at, row,
          ahead, misled>>

history == <<ahead, misled>>

Init ==
    /\ table = <<>> /\ table_stored = 0
    /\ entries = {} /\ file_entries = {} /\ device_entries = {}
    /\ at = "none" /\ row = 0
    /\ ahead = FALSE /\ misled = FALSE

\* Mutant: init leaves the index file.
IndexKept == file_entries

NewIndex == {}

\* init removes the table ...
RemoveTable ==
    /\ at = "none"
    /\ table' = <<>> /\ table_stored' = 0
    /\ at' = "removed"
    /\ UNCHANGED <<entries, file_entries, device_entries, row, history>>

\* ... and then the index, and creates both.
RemoveIndex ==
    /\ at = "removed"
    /\ entries' = NewIndex /\ file_entries' = NewIndex /\ device_entries' = NewIndex
    /\ at' = "none"
    /\ ahead' = FALSE /\ misled' = FALSE
    /\ UNCHANGED <<table, table_stored, row>>

Open ==
    /\ at = "none"
    /\ at' = "insert"
    /\ UNCHANGED <<table, table_stored, entries, file_entries, device_entries, row,
                   history>>

\* table.insert; insert makes one turn, insert-bulk goes on with the next row.
InsertRow(key) ==
    /\ at \in {"insert", "indexed"}
    /\ Len(table) < MaxRows
    /\ table' = Append(table, key)
    /\ row' = Len(table) + 1
    /\ at' = "row"
    /\ UNCHANGED <<table_stored, entries, file_entries, device_entries, history>>

RowIndexed == row

\* index.insert
IndexRow ==
    /\ at = "row"
    /\ entries' = entries \cup {[key |-> table[row], rid |-> RowIndexed]}
    /\ row' = 0
    /\ at' = "indexed"
    /\ UNCHANGED <<table, table_stored, file_entries, device_entries, history>>

\* In insert-bulk: a pool that is full writes a page out while rows are inserted
\* (evict_frame) ...
EvictWrites ==
    /\ at \in {"row", "indexed"}
    /\ file_entries' = entries
    /\ at' = "evicting"
    /\ ahead' = TRUE
    /\ UNCHANGED <<table, table_stored, entries, device_entries, row, misled>>

\* ... and then fsyncs it.
EvictSyncs ==
    /\ at = "evicting"
    /\ device_entries' = file_entries
    /\ at' = IF row = 0 THEN "indexed" ELSE "row"
    /\ UNCHANGED <<table, table_stored, entries, file_entries, row, history>>

\* Mutant: table_disk.flush() comes last.
NotStored == table_stored

Stored == Len(table)

\* table_disk.flush()
FlushTable ==
    /\ at = "indexed"
    /\ table_stored' = Stored
    /\ at' = "flushed"
    /\ ahead' = FALSE
    /\ UNCHANGED <<table, entries, file_entries, device_entries, row, misled>>

\* buffer.flush_all(): the pages are written, or some of them before a kill ...
WriteIndex ==
    /\ at = "flushed"
    /\ file_entries' = entries
    /\ at' = "written"
    /\ UNCHANGED <<table, table_stored, entries, device_entries, row, history>>

\* ... and fsync, at the end of the command.
SyncIndex ==
    /\ at = "written"
    /\ device_entries' = file_entries
    /\ at' = "none"
    /\ UNCHANGED <<table, table_stored, entries, file_entries, row, history>>

\* A command throws or is killed, at any step; the file has what was written,
\* the table at once, and the next process reads it.
Killed ==
    /\ at # "none"
    /\ at' = "none" /\ row' = 0
    /\ entries' = file_entries
    /\ misled' = (misled \/ at = "removed")
    /\ UNCHANGED <<table, table_stored, file_entries, device_entries, ahead>>

\* The system writes cached pages of either file back.
WriteBack ==
    /\ \/ table_stored' = Len(table) /\ UNCHANGED device_entries
       \/ device_entries' = file_entries /\ UNCHANGED table_stored
    /\ UNCHANGED <<table, entries, file_entries, at, row, history>>

\* At any time; the table loses rows at its end (a page that was extended or
\* rewritten), those that are certainly on the device excepted.
PowerLoss ==
    /\ MayLosePower
    /\ \E length \in table_stored .. Len(table) : table' = SubSeq(table, 1, length)
    /\ table_stored' = Len(table')
    /\ entries' = device_entries /\ file_entries' = device_entries
    /\ at' = "none" /\ row' = 0
    /\ misled' = (misled \/ at = "removed" \/ (ahead /\ table' # table))
    /\ UNCHANGED <<device_entries, ahead>>

Next ==
    \/ RemoveTable
    \/ RemoveIndex
    \/ Open
    \/ \E key \in Keys : InsertRow(key)
    \/ IndexRow
    \/ EvictWrites
    \/ EvictSyncs
    \/ FlushTable
    \/ WriteIndex
    \/ SyncIndex
    \/ Killed
    \/ WriteBack
    \/ PowerLoss

Spec == Init /\ [][Next]_vars

-----------------------------------------------------------------------------
\* IndexScan::next: the row at a RID the index gave, whatever its key, or none.
RowAt(rid) == IF rid \in DOMAIN table THEN {table[rid]} ELSE {}

(* Every entry that the index has, in the running process or for the next one,
   leads to a row, and the row has its key, so find and range print only rows
   of the keys asked for.  Kills at any step and power losses at any time do not
   change it (table.insert before index.insert, table_disk.flush() before
   buffer.flush_all(), the index removed with the table), but for two: init cut
   short between its two removals, and a power loss that takes rows away after
   insert-bulk evicted index pages and before it flushed the table. *)
EntriesLeadToRows ==
    at # "removed" /\ ~misled
        => \A e \in entries \cup file_entries : RowAt(e.rid) = {e.key}

\* The index file has no entry of a row that the device may lack.
IndexBehindTable == \A e \in file_entries : e.rid <= table_stored

(* Only an eviction of insert-bulk brings an entry to the index file whose row
   may not be on the device yet, and only init takes the rows of entries away:
   neither the end of a command nor a kill, a power loss or the write-back of
   the system does, in whatever state they find the two files. *)
OnlyBulkRunsAhead ==
    [][IndexBehindTable
        => IndexBehindTable' \/ at' = "evicting" \/ at' = "removed"]_vars

(* A RID identifies one record: "Identifica de forma unica un registro en disco"
   (src/include/common/types.hpp:28, with an accent on the u).  Between commands,
   an entry would lead to a row of its key or, once that is gone, to none; but the
   index outlives the rows and their RIDs are given out again. *)
RidsUnique ==
    at = "none" => \A e \in entries : RowAt(e.rid) \in {{}, {e.key}}

=============================================================================
