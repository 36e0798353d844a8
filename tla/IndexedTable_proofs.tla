------------------------ MODULE IndexedTable_proofs ------------------------
(***************************************************************************)
(* The properties of IndexedTable for every set of keys and every number   *)
(* of rows, whenever commands are killed and the power is lost.            *)
(***************************************************************************)
EXTENDS IndexedTable, TLAPS

Entries == [key : Keys, rid : Nat \ {0}]

\* The entry leads to a row of its key.
Leads(e) == e.rid \in 1 .. Len(table) /\ table[e.rid] = e.key

Types ==
    /\ table \in Seq(Keys)
    /\ table_stored \in 0 .. Len(table)
    /\ entries \subseteq Entries /\ file_entries \subseteq Entries
    /\ device_entries \subseteq Entries
    /\ at \in {"none", "removed", "insert", "row", "indexed", "evicting", "flushed",
               "written"}
    /\ ahead \in BOOLEAN /\ misled \in BOOLEAN

\* The row without entry is the last one.
RowIsLast ==
    /\ at = "row" => row # 0
    /\ row # 0 => at \in {"row", "evicting"} /\ row = Len(table)

AllLead ==
    at # "removed" /\ ~misled =>
        \A e \in entries \cup file_entries : Leads(e)

\* What the device has of the index was in the file before.
DeviceBehindFile == device_entries \subseteq file_entries

\* A process knows the entries of the file, and those of the rows it has added.
EntriesKnown ==
    /\ file_entries \subseteq entries
    /\ \A e \in entries \ file_entries : e.rid <= Len(table)
    /\ at \in {"none", "removed", "written"} => entries = file_entries

\* The flush of the table comes before the writes of the index.
StoredBeforeIndex == at \in {"flushed", "written"} => table_stored = Len(table)

\* But for evictions, the index file has entries of rows on the device only.
FileBehindTable ==
    at # "removed" /\ ~misled /\ ~ahead => IndexBehindTable

Inv ==
    /\ Types
    /\ RowIsLast
    /\ AllLead
    /\ DeviceBehindFile
    /\ EntriesKnown
    /\ StoredBeforeIndex
    /\ FileBehindTable

LEMMA InitInv == Init => Inv
<1> SUFFICES ASSUME Init
             PROVE  Inv
  OBVIOUS
<1>1. Types
  <2>1. ahead \in BOOLEAN /\ misled \in BOOLEAN
    BY Zenon DEF Init
  <2> QED
    BY <2>1 DEF Init, Types
<1>2. RowIsLast /\ StoredBeforeIndex
  BY DEF Init, RowIsLast, StoredBeforeIndex
<1>3. AllLead /\ DeviceBehindFile /\ EntriesKnown /\ FileBehindTable
  BY DEF Init, AllLead, DeviceBehindFile, EntriesKnown, FileBehindTable, IndexBehindTable
<1> QED
  BY <1>1, <1>2, <1>3 DEF Inv

\* Rows at the end change no entry's row.
LEMMA AppendKeeps ==
    ASSUME NEW rows \in Seq(Keys), NEW key \in Keys, NEW rid \in 1 .. Len(rows)
    PROVE  rid \in 1 .. Len(Append(rows, key)) /\ Append(rows, key)[rid] = rows[rid]
OBVIOUS

\* Nor does it change if rows after it are lost.
LEMMA PrefixKeeps ==
    ASSUME NEW rows \in Seq(Keys), NEW length \in 0 .. Len(rows), NEW rid \in 1 .. length
    PROVE  /\ SubSeq(rows, 1, length) \in Seq(Keys)
           /\ Len(SubSeq(rows, 1, length)) = length
           /\ SubSeq(rows, 1, length)[rid] = rows[rid]
OBVIOUS

LEMMA NextInv ==
    ASSUME Inv, [Next]_vars
    PROVE  Inv'
<1> USE DEF Inv, history
<1>a. /\ table \in Seq(Keys) /\ Len(table) \in Nat /\ table_stored \in 0 .. Len(table)
      /\ \A e \in entries \cup file_entries \cup device_entries :
            e \in Entries /\ e.rid \in Nat
  BY DEF Types, Entries
<1>1. CASE RemoveTable
  BY <1>1 DEF RemoveTable, Types, RowIsLast, AllLead, DeviceBehindFile, EntriesKnown,
              StoredBeforeIndex, FileBehindTable
<1>2. CASE RemoveIndex
  BY <1>2 DEF RemoveIndex, NewIndex, Types, RowIsLast, AllLead, DeviceBehindFile,
              EntriesKnown, StoredBeforeIndex, FileBehindTable, IndexBehindTable
<1>3. CASE Open
  BY <1>3 DEF Open, Types, RowIsLast, AllLead, Leads, DeviceBehindFile, EntriesKnown,
              StoredBeforeIndex, FileBehindTable, IndexBehindTable
<1>4. ASSUME NEW key \in Keys, InsertRow(key) PROVE Inv'
  <2>1. table' = Append(table, key) /\ table' \in Seq(Keys) /\ Len(table') = Len(table) + 1
    BY <1>4 DEF InsertRow, Types
  <2>2. Types' /\ RowIsLast' /\ DeviceBehindFile' /\ StoredBeforeIndex'
    BY <1>4, <2>1 DEF InsertRow, Types, RowIsLast, DeviceBehindFile, StoredBeforeIndex
  <2>3. EntriesKnown' /\ FileBehindTable'
    BY <1>4, <1>a, <2>1
       DEF InsertRow, EntriesKnown, FileBehindTable, IndexBehindTable
  <2>4. ~misled => \A e \in entries \cup file_entries : Leads(e)'
    BY <1>4, <1>a, <2>1, AppendKeeps DEF InsertRow, AllLead, Leads
  <2> QED
    BY <1>4, <2>2, <2>3, <2>4 DEF InsertRow, AllLead
<1>5. CASE IndexRow
  <2> DEFINE new == [key |-> table[row], rid |-> row]
  <2>1. row \in 1 .. Len(table) /\ new \in Entries /\ new.rid = row
    BY <1>5, <1>a DEF IndexRow, RowIsLast, Types, Entries
  <2>2. entries' = entries \cup {new} /\ Leads(new) /\ table' = table
    BY <1>5, <2>1 DEF IndexRow, RowIndexed, Leads
  <2>3. AllLead'
    BY <1>5, <2>2 DEF IndexRow, AllLead, Leads
  <2>4. EntriesKnown'
    BY <1>5, <1>a, <2>1, <2>2 DEF IndexRow, EntriesKnown
  <2> QED
    BY <1>5, <2>1, <2>2, <2>3, <2>4
       DEF IndexRow, Types, RowIsLast, DeviceBehindFile, StoredBeforeIndex,
           FileBehindTable, IndexBehindTable
<1>6. CASE EvictWrites
  <2>1. file_entries' = entries /\ UNCHANGED <<table, entries, device_entries, row, misled>>
    BY <1>6 DEF EvictWrites
  <2>2. RowIsLast'
    BY <1>6 DEF EvictWrites, RowIsLast
  <2> QED
    <3>1. Types' /\ StoredBeforeIndex' /\ FileBehindTable'
      BY <1>6 DEF EvictWrites, Types, StoredBeforeIndex, FileBehindTable
    <3>2. AllLead' /\ EntriesKnown'
      BY <1>6, <2>1 DEF EvictWrites, AllLead, Leads, EntriesKnown
    <3>3. DeviceBehindFile'
      BY <2>1 DEF DeviceBehindFile, EntriesKnown
    <3> QED
      BY <2>2, <3>1, <3>2, <3>3
<1>7. CASE EvictSyncs
  BY <1>7 DEF EvictSyncs, Types, RowIsLast, AllLead, Leads, DeviceBehindFile, EntriesKnown,
              StoredBeforeIndex, FileBehindTable, IndexBehindTable
<1>8. CASE FlushTable
  <2>1. UNCHANGED <<table, entries, file_entries, device_entries, row, misled>>
        /\ table_stored' = Len(table)
    BY <1>8 DEF FlushTable, Stored
  <2>2. FileBehindTable'
    BY <1>8, <1>a, <2>1 DEF FlushTable, FileBehindTable, IndexBehindTable, AllLead, Leads
  <2> QED
    <3>a. ahead' \in BOOLEAN /\ misled' \in BOOLEAN
      BY <1>8, Zenon DEF FlushTable, Types
    <3>1. Types'
      BY <1>8, <1>a, <2>1, <3>a DEF FlushTable, Types
    <3>2. AllLead' /\ EntriesKnown' /\ RowIsLast'
      BY <1>8, <2>1 DEF FlushTable, AllLead, Leads, EntriesKnown, RowIsLast
    <3>3. DeviceBehindFile' /\ StoredBeforeIndex'
      BY <1>8, <2>1 DEF DeviceBehindFile, StoredBeforeIndex
    <3> QED
      BY <2>2, <3>1, <3>2, <3>3
<1>9. CASE WriteIndex
  <2>1. FileBehindTable'
    BY <1>9, <1>a DEF WriteIndex, StoredBeforeIndex, FileBehindTable, IndexBehindTable,
                      AllLead, Leads
  <2> QED
    <3>1. Types' /\ StoredBeforeIndex'
      BY <1>9 DEF WriteIndex, Types, StoredBeforeIndex
    <3>2. AllLead' /\ EntriesKnown' /\ RowIsLast'
      BY <1>9 DEF WriteIndex, AllLead, Leads, EntriesKnown, RowIsLast
    <3>3. DeviceBehindFile'
      BY <1>9 DEF WriteIndex, DeviceBehindFile, EntriesKnown
    <3> QED
      BY <2>1, <3>1, <3>2, <3>3
<1>10. CASE SyncIndex
  BY <1>10 DEF SyncIndex, Types, RowIsLast, AllLead, Leads, DeviceBehindFile, EntriesKnown,
               StoredBeforeIndex, FileBehindTable, IndexBehindTable
<1>11. CASE Killed
  BY <1>11 DEF Killed, Types, RowIsLast, AllLead, Leads, DeviceBehindFile, EntriesKnown,
               StoredBeforeIndex, FileBehindTable, IndexBehindTable
<1>12. CASE WriteBack
  <2>1. table_stored' \in 0 .. Len(table) /\ table_stored' >= table_stored
    BY <1>12, <1>a DEF WriteBack
  <2>2. FileBehindTable'
    BY <1>12, <1>a, <2>1 DEF WriteBack, FileBehindTable, IndexBehindTable
  <2>3. DeviceBehindFile' /\ Types'
    BY <1>12, <2>1 DEF WriteBack, DeviceBehindFile, Types
  <2> QED
    BY <1>12, <2>2, <2>3 DEF WriteBack, RowIsLast, AllLead, Leads, EntriesKnown,
                             StoredBeforeIndex
<1>13. CASE PowerLoss
  <2>1. PICK length \in table_stored .. Len(table) : table' = SubSeq(table, 1, length)
    BY <1>13 DEF PowerLoss
  <2>2. length \in 0 .. Len(table) /\ length >= table_stored
    BY <1>a, <2>1
  <2>3. table' \in Seq(Keys) /\ Len(table') = length
    BY <1>a, <2>1, <2>2
  <2>4. /\ entries' = device_entries /\ file_entries' = device_entries
        /\ device_entries' = device_entries /\ ahead' = ahead /\ table_stored' = length
        /\ at' = "none" /\ row' = 0
        /\ misled' = (misled \/ at = "removed" \/ (ahead /\ table' # table))
    BY <1>13, <2>3 DEF PowerLoss
  <2>5. ASSUME ~misled', NEW e \in device_entries
        PROVE  Leads(e)'
    <3>1. ~misled /\ at # "removed" /\ (ahead => table' = table)
      BY <2>4, <2>5
    <3>2. Leads(e) /\ e \in file_entries
      BY <3>1 DEF AllLead, DeviceBehindFile
    <3>3. CASE table' = table
      BY <3>2, <3>3 DEF Leads
    <3>4. CASE ~ahead
      <4>1. e.rid <= table_stored
        BY <3>1, <3>2, <3>4 DEF FileBehindTable, IndexBehindTable
      <4>2. e.rid \in 1 .. length
        BY <1>a, <2>2, <3>2, <4>1 DEF Leads
      <4>3. table'[e.rid] = table[e.rid]
        BY <1>a, <2>1, <2>2, <4>2, PrefixKeeps
      <4> QED
        BY <2>3, <3>2, <4>2, <4>3 DEF Leads
    <3> QED
      BY <3>1, <3>3, <3>4 DEF Types
  <2>6. ASSUME ~misled', ~ahead', NEW e \in device_entries
        PROVE  e.rid <= table_stored'
    <3>1. e.rid <= table_stored
      BY <2>4, <2>6 DEF FileBehindTable, IndexBehindTable, DeviceBehindFile
    <3> QED
      BY <1>a, <2>2, <2>4, <3>1
  <2>7. Types'
    BY <2>2, <2>3, <2>4 DEF Types
  <2> QED
    BY <2>3, <2>4, <2>5, <2>6, <2>7
       DEF RowIsLast, AllLead, DeviceBehindFile, EntriesKnown, StoredBeforeIndex,
           FileBehindTable, IndexBehindTable
<1>14. CASE UNCHANGED vars
  BY <1>14 DEF vars, Types, RowIsLast, AllLead, Leads, DeviceBehindFile, EntriesKnown,
               StoredBeforeIndex, FileBehindTable, IndexBehindTable
<1> QED
  BY <1>1, <1>2, <1>3, <1>4, <1>5, <1>6, <1>7, <1>8, <1>9, <1>10, <1>11, <1>12, <1>13,
     <1>14 DEF Next

LEMMA InvLeads == Inv => EntriesLeadToRows
BY DEF Inv, AllLead, Leads, EntriesLeadToRows, RowAt, Types

(* Every index entry that find or range can come upon leads to the row it was
   made for, for any keys and any number of rows, but after the two events that
   EntriesLeadToRows names (cmd_insert, cmd_insert_bulk, cmd_init). *)
THEOREM EntriesLead == Spec => []EntriesLeadToRows
<1>1. Inv /\ [Next]_vars => Inv'
  BY NextInv
<1> QED
  BY InitInv, <1>1, InvLeads, PTL DEF Spec

(* Only an eviction of insert-bulk brings an entry to the index file ahead of its
   row, and only init takes the rows of entries away (evict_frame, cmd_init). *)
THEOREM BulkAloneRunsAhead == Spec => OnlyBulkRunsAhead
<1> DEFINE Ordered ==
        IndexBehindTable => IndexBehindTable' \/ at' = "evicting" \/ at' = "removed"
<1>1. Inv /\ [Next]_vars => Inv'
  BY NextInv
<1>2. ASSUME Inv, Next PROVE Ordered
  <2> SUFFICES ASSUME IndexBehindTable, at' # "evicting", at' # "removed"
               PROVE  IndexBehindTable'
    OBVIOUS
  <2> USE DEF IndexBehindTable
  <2>a. /\ Len(table) \in Nat /\ table_stored \in 0 .. Len(table)
        /\ \A e \in entries \cup file_entries \cup device_entries : e.rid \in Nat
    BY <1>2 DEF Inv, Types, Entries
  <2>1. CASE RemoveTable \/ EvictWrites
    BY <2>1 DEF RemoveTable, EvictWrites
  <2>2. CASE RemoveIndex
    BY <2>2 DEF RemoveIndex, NewIndex
  <2>3. ASSUME NEW key \in Keys, InsertRow(key) PROVE IndexBehindTable'
    BY <2>3 DEF InsertRow
  <2>4. CASE Open \/ IndexRow \/ EvictSyncs \/ SyncIndex \/ Killed
    BY <2>4 DEF Open, IndexRow, EvictSyncs, SyncIndex, Killed
  <2>5. CASE FlushTable
    BY <2>a, <2>5 DEF FlushTable, Stored
  <2>6. CASE WriteIndex
    BY <1>2, <2>a, <2>6 DEF WriteIndex, Inv, StoredBeforeIndex, EntriesKnown
  <2>7. CASE WriteBack
    BY <2>a, <2>7 DEF WriteBack
  <2>8. CASE PowerLoss
    <3>1. Inv'
      BY <1>2, NextInv
    <3>2. table_stored' >= table_stored /\ table_stored' \in Nat
      BY <2>a, <2>8, <3>1 DEF PowerLoss, Inv, Types
    <3> QED
      BY <1>2, <2>a, <2>8, <3>2 DEF PowerLoss, Inv, DeviceBehindFile
  <2> QED
    BY <1>2, <2>1, <2>2, <2>3, <2>4, <2>5, <2>6, <2>7, <2>8 DEF Next
<1>3. Inv /\ [Next]_vars => [Ordered]_vars
  BY <1>2
<1> QED
  BY InitInv, <1>1, <1>3, PTL DEF Spec, OnlyBulkRunsAhead

=============================================================================
