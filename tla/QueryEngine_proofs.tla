------------------------ MODULE QueryEngine_proofs ------------------------
(***************************************************************************)
(* Theorems of the parts of the query engine (src/query) that have no part *)
(* in the text of a statement: its values, the external sort, the plan of  *)
(* a join, and the directory of a database.                                *)
(*                                                                         *)
(* Values, for every date, hour and tuple: they come back from a record as *)
(* they were stored, and are ordered as the calendar and the clock are.    *)
(*                                                                         *)
(* The sort, for every set of keys, every input and limit, and whatever    *)
(* was cut short on the way: it returns its input in order.  Rows are told *)
(* apart by their number, so that it is enough that no row is ever in two  *)
(* places: the runs are apart, a reader and the heap split a run between   *)
(* them, and what went out is in neither.  As many rows as the input has   *)
(* are then the input.                                                     *)
(*                                                                         *)
(* The plan, for all tables, whatever is inserted between two calls: what  *)
(* it has returned are the pairs of the join that its loops have passed.   *)
(*                                                                         *)
(* The directory, for all tables and schemas, whatever fails and whenever  *)
(* the program is killed: memory and catalog agree between statements, and *)
(* only a catalog removed by persist_catalog itself loses anything.        *)
(***************************************************************************)
EXTENDS SqlValues, ExternalMergeSort, VolcanoPlan, CatalogFile, FiniteSetTheorems,
        SequenceTheorems, WellFoundedInduction, TLAPS


\* The values a Value object can hold.
IsValue(value) ==
    \/ \E n \in Int : value = Int32(n)
    \/ \E symbols : value = Text(symbols)
    \/ \E year, month, day \in Nat :
          IsDate(year, month, day) /\ value = Date(EncodedDate(year, month, day))
    \/ \E seconds \in Nat : seconds < 24 * 3600 /\ value = Hour(seconds)

\* The order of the calendar and of the clock: number by number.
Precedes(a1, a2, a3, b1, b2, b3) ==
    \/ a1 < b1
    \/ a1 = b1 /\ a2 < b2
    \/ a1 = b1 /\ a2 = b2 /\ a3 < b3

-----------------------------------------------------------------------------
(* Dates *)

\* No month has more than 31 days.
LEMMA DateRanges ==
    ASSUME NEW year \in Nat, NEW month \in Nat, NEW day \in Nat, IsDate(year, month, day)
    PROVE  year >= 1 /\ month \in 1 .. 12 /\ day \in 1 .. 31
<1>1. month \in 1 .. 12
    BY DEF IsDate
<1>2. DAYS[month] \in 1 .. 31
    BY <1>1 DEF DAYS
<1>3. days_in_month(year, month) \in 1 .. 31
    BY <1>2 DEF days_in_month
<1> QED
    BY <1>1, <1>3 DEF IsDate

(* A date comes back from its encoding as it was, whatever the day: of a record
   with a valid date no reader ever takes offence (format_date, and parse_date
   of what it printed), so no row is passed over for it. *)
THEOREM DatesReadBack ==
    ASSUME NEW year \in Nat, NEW month \in Nat, NEW day \in Nat, IsDate(year, month, day)
    PROVE  /\ format_date(EncodedDate(year, month, day)) = <<year, month, day>>
           /\ from_date_encoded(EncodedDate(year, month, day))
                  = Gives(Date(EncodedDate(year, month, day)))
<1> DEFINE encoded == EncodedDate(year, month, day)
<1>1. month \in 1 .. 12 /\ day \in 1 .. 31
    BY DateRanges
<1>2. encoded = 10000 * year + (100 * month + day) /\ 0 <= 100 * month + day /\ 100 * month + day < 10000
    BY <1>1 DEF EncodedDate
<1>3. encoded \div 10000 = year
    BY <1>2
<1>4. encoded = 100 * (100 * year + month) + day /\ day \in 0 .. 99
    BY <1>1 DEF EncodedDate
<1>5. encoded \div 100 = 100 * year + month /\ encoded % 100 = day
    BY <1>1, <1>4
<1>6. (100 * year + month) % 100 = month
    BY <1>1
<1>7. format_date(encoded) = <<year, month, day>>
    BY <1>3, <1>5, <1>6 DEF format_date
<1>8. DateOf(<<year, month, day>>) = Gives(Date(encoded))
    BY DEF DateOf
<1> QED
    BY <1>7, <1>8 DEF from_date_encoded

(* Comparing two DATE values compares the dates: the encodings are ordered as
   the calendar is (Value::compare on date_encoded). *)
THEOREM DatesInOrder ==
    ASSUME NEW y1 \in Nat, NEW m1 \in Nat, NEW d1 \in Nat, IsDate(y1, m1, d1),
           NEW y2 \in Nat, NEW m2 \in Nat, NEW d2 \in Nat, IsDate(y2, m2, d2)
    PROVE  Less(Date(EncodedDate(y1, m1, d1)), Date(EncodedDate(y2, m2, d2)))
               <=> Precedes(y1, m1, d1, y2, m2, d2)
<1>1. m1 \in 1 .. 12 /\ d1 \in 1 .. 31 /\ m2 \in 1 .. 12 /\ d2 \in 1 .. 31
    BY DateRanges
<1>2. EncodedDate(y1, m1, d1) < EncodedDate(y2, m2, d2) <=> Precedes(y1, m1, d1, y2, m2, d2)
    BY <1>1 DEF EncodedDate, Precedes
<1> QED
    BY <1>2 DEF Less, Date

(* A year of four digits keeps the encoding within an int32_t. *)
THEOREM DatesFitInt32 ==
    ASSUME NEW year \in Nat, NEW month \in Nat, NEW day \in Nat,
           IsDate(year, month, day), year <= 9999
    PROVE  EncodedDate(year, month, day) \in Nat /\ EncodedDate(year, month, day) < 2147483648
<1>1. month \in 1 .. 12 /\ day \in 1 .. 31
    BY DateRanges
<1> QED
    BY <1>1 DEF EncodedDate

-----------------------------------------------------------------------------
(* Hours *)

(* An hour comes back from its seconds as it was (format_hour), and they are
   ordered as the clock is. *)
THEOREM HoursReadBack ==
    ASSUME NEW hour \in Nat, NEW minute \in Nat, NEW second \in Nat,
           IsHour(hour, minute, second)
    PROVE  /\ format_hour(EncodedHour(hour, minute, second)) = <<hour, minute, second>>
           /\ from_hour_seconds(EncodedHour(hour, minute, second))
                  = Gives(Hour(EncodedHour(hour, minute, second)))
<1> DEFINE seconds == EncodedHour(hour, minute, second)
<1>1. hour \in 0 .. 23 /\ minute \in 0 .. 59 /\ second \in 0 .. 59
    BY DEF IsHour
<1>2. seconds = 3600 * hour + (60 * minute + second) /\ 0 <= 60 * minute + second /\ 60 * minute + second < 3600
    BY <1>1 DEF EncodedHour
<1>3. seconds \div 3600 = hour /\ seconds % 3600 = 60 * minute + second
    BY <1>1, <1>2
<1>4. (60 * minute + second) \div 60 = minute
    BY <1>1
<1>5. seconds = 60 * (60 * hour + minute) + second
    BY <1>1 DEF EncodedHour
<1>6. seconds % 60 = second
    BY <1>1, <1>5
<1>7. seconds \in Nat /\ seconds < 24 * 3600
    BY <1>1 DEF EncodedHour
<1> QED
    BY <1>3, <1>4, <1>6, <1>7 DEF format_hour, from_hour_seconds

(* Comparing two HOUR values compares the times of day. *)
THEOREM HoursInOrder ==
    ASSUME NEW h1 \in Nat, NEW m1 \in Nat, NEW s1 \in Nat, IsHour(h1, m1, s1),
           NEW h2 \in Nat, NEW m2 \in Nat, NEW s2 \in Nat, IsHour(h2, m2, s2)
    PROVE  Less(Hour(EncodedHour(h1, m1, s1)), Hour(EncodedHour(h2, m2, s2)))
               <=> Precedes(h1, m1, s1, h2, m2, s2)
<1>1. EncodedHour(h1, m1, s1) < EncodedHour(h2, m2, s2) <=> Precedes(h1, m1, s1, h2, m2, s2)
    BY DEF IsHour, EncodedHour, Precedes
<1> QED
    BY <1>1 DEF Less, Hour

-----------------------------------------------------------------------------
(* Records *)

\* What an hour or a date of a text encodes is a value.
LEMMA ParsedIsValue ==
    ASSUME NEW text
    PROVE  /\ parse_date(text).ok => IsValue(parse_date(text).value)
           /\ parse_hour(text).ok => IsValue(parse_hour(text).value)
<1>1. ASSUME parse_date(text).ok PROVE IsValue(parse_date(text).value)
  <2>1. text \in DOMAIN DateFields
      BY <1>1 DEF parse_date, Throws
  <2> DEFINE fields == DateFields[text]
  <2>2. fields[1] \in Nat /\ fields[2] \in Nat /\ fields[3] \in Nat
      BY <2>1, TextFieldsAssumption
  <2>3. /\ IsDate(fields[1], fields[2], fields[3])
        /\ parse_date(text).value = Date(EncodedDate(fields[1], fields[2], fields[3]))
      BY <1>1, <2>1 DEF parse_date, DateOf, Throws, Gives
  <2> QED
      BY <2>2, <2>3 DEF IsValue
<1>2. ASSUME parse_hour(text).ok PROVE IsValue(parse_hour(text).value)
  <2>1. text \in DOMAIN HourFields
      BY <1>2 DEF parse_hour, Throws
  <2> DEFINE fields == HourFields[text]
             second == IF Len(fields) = 3 THEN fields[3] ELSE 0
  <2>2. fields[1] \in Nat /\ fields[2] \in Nat /\ second \in Nat
      BY <2>1, TextFieldsAssumption
  <2>3. /\ IsHour(fields[1], fields[2], second)
        /\ parse_hour(text).value = Hour(EncodedHour(fields[1], fields[2], second))
      BY <1>2, <2>1 DEF parse_hour, Throws, Gives
  <2>4. /\ EncodedHour(fields[1], fields[2], second) \in Nat
        /\ EncodedHour(fields[1], fields[2], second) < 24 * 3600
      BY <2>2, <2>3 DEF IsHour, EncodedHour
  <2> QED
      BY <2>3, <2>4 DEF IsValue
<1> QED
    BY <1>1, <1>2

(* Conversion makes values only: what INSERT puts in a tuple, or WHERE in a
   comparison, is one a Value can hold (Value::coerce). *)
THEOREM CoercedIsValue ==
    ASSUME NEW value, IsValue(value), NEW target, coerce(value, target).ok
    PROVE  IsValue(coerce(value, target).value)
<1>1. CASE value.type = target
    BY <1>1 DEF coerce, Gives
<1>2. CASE value.type # target /\ value.type = "TEXT" /\ target = "DATE"
    BY <1>2, ParsedIsValue DEF coerce
<1>3. CASE value.type # target /\ value.type = "TEXT" /\ target = "HOUR"
    BY <1>3, ParsedIsValue DEF coerce
<1>4. CASE /\ value.type # target
           /\ ~(value.type = "TEXT" /\ target = "DATE")
           /\ ~(value.type = "TEXT" /\ target = "HOUR")
    BY <1>4 DEF coerce, Throws
<1> QED
    BY <1>1, <1>2, <1>3, <1>4

\* A field is read as the value that was written.
LEMMA FieldReadBack ==
    ASSUME NEW value, IsValue(value)
    PROVE  ReadField(value) = Gives(value)
<1>1. CASE \E n \in Int : value = Int32(n)
    BY <1>1 DEF ReadField, Int32
<1>2. CASE \E symbols : value = Text(symbols)
    BY <1>2 DEF ReadField, Text
<1>3. CASE \E year, month, day \in Nat :
              IsDate(year, month, day) /\ value = Date(EncodedDate(year, month, day))
  <2>1. PICK year \in Nat, month \in Nat, day \in Nat :
            IsDate(year, month, day) /\ value = Date(EncodedDate(year, month, day))
      BY <1>3
  <2>2. from_date_encoded(EncodedDate(year, month, day)) = Gives(value)
      BY <2>1, DatesReadBack
  <2> QED
      BY <2>1, <2>2 DEF ReadField, Date
<1>4. CASE \E seconds \in Nat : seconds < 24 * 3600 /\ value = Hour(seconds)
    BY <1>4 DEF ReadField, Hour, from_hour_seconds
<1> QED
    BY <1>1, <1>2, <1>3, <1>4 DEF IsValue

(* Every tuple comes back from its record: no row that INSERT stored is passed
   over by a scan or comes back as another (TupleCodec, PersistentTable::next). *)
THEOREM TuplesReadBack ==
    ASSUME NEW S, NEW tuple \in Seq(S), \A i \in DOMAIN tuple : IsValue(tuple[i])
    PROVE  deserialize(serialize(tuple)) = Gives(tuple)
<1> DEFINE record == serialize(tuple)
<1>1. record.head = TUPLE_MAGIC /\ record.fields = tuple
    BY DEF serialize
<1>2. \A i \in DOMAIN tuple : ReadField(tuple[i]) = Gives(tuple[i])
    BY FieldReadBack
<1>3. \A i \in DOMAIN tuple : ReadField(tuple[i]).ok /\ ReadField(tuple[i]).value = tuple[i]
    BY <1>2 DEF Gives
<1>4. [i \in DOMAIN tuple |-> ReadField(tuple[i]).value] = tuple
    BY <1>3
<1>5. deserialize(record) = Gives([i \in DOMAIN tuple |-> ReadField(tuple[i]).value])
    BY <1>1, <1>3 DEF deserialize
<1> QED
    BY <1>4, <1>5

(* A historical record is never taken for a tagged one, whatever its integers:
   its first two bytes count its columns, and a record of 21572 columns has no
   room on a page of 4096 bytes (TupleCodec::deserialize). *)
THEOREM FormatsToldApart ==
    ASSUME NEW ints \in Seq(Int), ints # <<>>, 2 + 4 * Len(ints) <= 4096
    PROVE  deserialize(Historical(ints)) = Gives([i \in DOMAIN ints |-> Int32(ints[i])])
<1> DEFINE record == Historical(ints)
<1>1. record.head[1] = Len(ints) /\ record.fields = ints
    BY DEF Historical
<1>2. TUPLE_MAGIC[1] = 21572
    BY DEF TUPLE_MAGIC
<1>3. record.head # TUPLE_MAGIC
    BY <1>1, <1>2
<1> QED
    BY <1>1, <1>3 DEF deserialize

-----------------------------------------------------------------------------
(* The sort *)


Row == [key : Keys, number : Nat]

Entry == [row : Row, reader : Nat, sequence : Nat]

SortPhases == {"runs", "open", "seed", "merge"}

TypeOK ==
    /\ input \in Seq(Row)
    /\ limit \in Nat \ {0}
    /\ next_row \in Nat \ {0}
    /\ runs \in 0 .. MaxRuns
    /\ files \in [RunIds -> [rows : Seq(Row), cut : BOOLEAN, exists : BOOLEAN]]
    /\ readers \in Seq(Seq(Row)) /\ Len(readers) <= runs
    /\ heap \subseteq Entry /\ IsFiniteSet(heap)
    /\ sequence \in Nat
    /\ result \in Seq(Row)
    /\ at \in SortPhases \cup {"returned", "thrown"}

\* A part of the input in order, no row twice.
Part(rows) == Sorted(rows) /\ IsInjective(rows) /\ ToSet(rows) \subseteq ToSet(input)

Run(run) == files[run].rows

InputOK == \A i \in DOMAIN input : input[i].number = i

\* The runs of this sort are parts of the input, and apart.
RunsOK ==
    at \in SortPhases =>
        /\ \A run \in 0 .. runs - 1 : Part(Run(run))
        /\ \A run, other \in 0 .. runs - 1 :
              run # other => ToSet(Run(run)) \cap ToSet(Run(other)) = {}

\* The runs do not reach the rows that are in none.
RunsBefore ==
    at = "runs" =>
        \A run \in 0 .. runs - 1 : \A row \in ToSet(Run(run)) : row.number < next_row

\* A reader has rows of its run left.
ReadersOK ==
    \A i \in DOMAIN readers :
        Part(readers[i]) /\ ToSet(readers[i]) \subseteq ToSet(Run(i - 1))

\* A reader has one row in the heap, which comes before those it has left.
HeapOK ==
    /\ \A entry \in heap :
          /\ entry.reader \in DOMAIN readers
          /\ entry.row \in ToSet(Run(entry.reader - 1))
          /\ \A row \in ToSet(readers[entry.reader]) :
                row # entry.row /\ entry.row.key <= row.key
    /\ \A entry, other \in heap : entry.reader = other.reader => entry = other

\* What went out is in order, and neither in the heap nor left in a reader.
ResultOK ==
    /\ Part(result)
    /\ \A row \in ToSet(result) :
          /\ \A entry \in heap : row # entry.row /\ row.key <= entry.row.key
          /\ \A i \in DOMAIN readers : row \notin ToSet(readers[i])

PhaseOK ==
    /\ at = "runs" => readers = <<>>
    /\ at \in {"runs", "open"} => heap = {}
    /\ at \in {"seed", "merge"} => Len(readers) = runs
    /\ at \in {"runs", "open", "seed"} => result = <<>>
    /\ at \in {"returned", "thrown"} => readers = <<>> /\ heap = {}
    /\ at = "returned" => Len(result) = Len(input)

SortInv ==
    /\ TypeOK /\ PhaseOK
    /\ InputOK /\ RunsOK /\ RunsBefore
    /\ ReadersOK /\ HeapOK /\ ResultOK

-----------------------------------------------------------------------------
LEMMA MemberOfRows ==
    ASSUME NEW rows \in Seq(Row)
    PROVE  /\ Len(rows) \in Nat /\ DOMAIN rows = 1 .. Len(rows)
           /\ \A i \in 1 .. Len(rows) : rows[i] \in Row /\ rows[i].key \in Int
           /\ ToSet(rows) \subseteq Row
           /\ IsFiniteSet(ToSet(rows)) /\ rows \in Surjection(1 .. Len(rows), ToSet(rows))
<1>1. /\ Len(rows) \in Nat /\ DOMAIN rows = 1 .. Len(rows)
      /\ \A i \in 1 .. Len(rows) : rows[i] \in Row
      /\ rows \in [1 .. Len(rows) -> Row]
  BY LenProperties, ElementOfSeq
<1>2. rows \in [1 .. Len(rows) -> ToSet(rows)]
  BY <1>1 DEF ToSet
<1>3. \A row \in ToSet(rows) : \E i \in 1 .. Len(rows) : rows[i] = row
  BY <1>1 DEF ToSet
<1>4. rows \in Surjection(1 .. Len(rows), ToSet(rows))
  BY <1>2, <1>3 DEF Surjection
<1>5. IsFiniteSet(1 .. Len(rows))
  BY <1>1, FS_Interval
<1>6. IsFiniteSet(ToSet(rows))
  BY <1>4, <1>5, FS_Surjection
<1> QED
  BY <1>1, <1>4, <1>6, KeysAssumption DEF ToSet, Row

(* A prefix of rows in order is in order. *)
LEMMA PrefixOfRows ==
    ASSUME NEW rows \in Seq(Row), NEW length \in 0 .. Len(rows),
           Sorted(rows), IsInjective(rows)
    PROVE  LET prefix == SubSeq(rows, 1, length)
           IN  /\ prefix \in Seq(Row) /\ Len(prefix) = length
               /\ Sorted(prefix) /\ IsInjective(prefix)
               /\ ToSet(prefix) \subseteq ToSet(rows)
<1> DEFINE prefix == SubSeq(rows, 1, length)
<1>1. Len(rows) \in Nat /\ DOMAIN rows = 1 .. Len(rows) /\ length \in Int
  BY MemberOfRows
<1>2. \A i \in 1 .. length : rows[i] \in Row
  BY <1>1, MemberOfRows
<1>3. /\ prefix \in Seq(Row) /\ Len(prefix) = IF 1 <= length THEN length - 1 + 1 ELSE 0
      /\ \A i \in 1 .. length - 1 + 1 : prefix[i] = rows[1 + i - 1]
  BY <1>1, <1>2, SubSeqProperties
<1>4. /\ Len(prefix) = length /\ DOMAIN prefix = 1 .. length
      /\ \A i \in 1 .. length : prefix[i] = rows[i]
  BY <1>1, <1>3, LenProperties
<1> QED
  BY <1>1, <1>3, <1>4 DEF Sorted, IsInjective, ToSet

(* The first of rows in order comes before the others. *)
LEMMA TailOfRows ==
    ASSUME NEW rows \in Seq(Row), rows # <<>>, Sorted(rows), IsInjective(rows)
    PROVE  /\ Head(rows) \in ToSet(rows)
           /\ Tail(rows) \in Seq(Row)
           /\ Sorted(Tail(rows)) /\ IsInjective(Tail(rows))
           /\ ToSet(Tail(rows)) \subseteq ToSet(rows)
           /\ \A row \in ToSet(Tail(rows)) : row # Head(rows) /\ Head(rows).key <= row.key
<1>1. Len(rows) \in Nat \ {0} /\ DOMAIN rows = 1 .. Len(rows) /\ Head(rows) = rows[1]
  BY MemberOfRows, EmptySeq
<1>2. /\ Tail(rows) \in Seq(Row) /\ Len(Tail(rows)) = Len(rows) - 1
      /\ \A i \in 1 .. Len(Tail(rows)) : Tail(rows)[i] = rows[i + 1]
  BY HeadTailProperties
<1>3. DOMAIN Tail(rows) = 1 .. Len(rows) - 1
  BY <1>2, LenProperties
<1>4. \A i \in DOMAIN Tail(rows) :
         /\ i + 1 \in DOMAIN rows /\ i + 1 # 1 /\ 1 < i + 1 /\ Tail(rows)[i] = rows[i + 1]
  BY <1>1, <1>2, <1>3
<1>5. \A i, j \in DOMAIN Tail(rows) :
         (i < j => i + 1 < j + 1) /\ (i + 1 = j + 1 => i = j)
  BY <1>3, <1>1
<1>6. 1 \in DOMAIN rows
  BY <1>1
<1>7. Sorted(Tail(rows)) /\ IsInjective(Tail(rows))
  BY <1>4, <1>5 DEF Sorted, IsInjective
<1>8. ToSet(Tail(rows)) \subseteq ToSet(rows) /\ Head(rows) \in ToSet(rows)
  BY <1>1, <1>4, <1>6 DEF ToSet
<1>9. \A i \in DOMAIN Tail(rows) : Tail(rows)[i] # rows[1] /\ rows[1].key <= Tail(rows)[i].key
  BY <1>4, <1>6 DEF Sorted, IsInjective
<1> QED
  BY <1>1, <1>2, <1>7, <1>8, <1>9 DEF ToSet

(* Rows in order, with one that comes after them. *)
LEMMA AppendToRows ==
    ASSUME NEW rows \in Seq(Row), NEW row \in Row, Sorted(rows), IsInjective(rows),
           \A before \in ToSet(rows) : before # row /\ before.key <= row.key
    PROVE  /\ Append(rows, row) \in Seq(Row)
           /\ Sorted(Append(rows, row)) /\ IsInjective(Append(rows, row))
           /\ ToSet(Append(rows, row)) = ToSet(rows) \cup {row}
<1> DEFINE all == Append(rows, row)
<1>1. Len(rows) \in Nat /\ DOMAIN rows = 1 .. Len(rows)
  BY MemberOfRows
<1>2. /\ all \in Seq(Row) /\ Len(all) = Len(rows) + 1
      /\ \A i \in 1 .. Len(rows) : all[i] = rows[i]
      /\ all[Len(rows) + 1] = row
  BY AppendProperties
<1>3. DOMAIN all = 1 .. Len(rows) + 1
  BY <1>2, LenProperties
<1> HIDE DEF all
<1>4. \A i \in DOMAIN rows : all[i] # row /\ all[i].key <= row.key
  BY <1>1, <1>2 DEF ToSet
<1>5. \A i \in DOMAIN all : i \in DOMAIN rows \/ i = Len(rows) + 1
  BY <1>1, <1>3
<1>6. IsInjective(all)
  BY <1>1, <1>2, <1>4, <1>5 DEF IsInjective
<1>7. Sorted(all)
  BY <1>1, <1>2, <1>3, <1>4, <1>5 DEF Sorted
<1>8. ToSet(all) = ToSet(rows) \cup {row}
  BY <1>1, <1>2, <1>3, <1>5 DEF ToSet
<1> QED
  BY <1>2, <1>6, <1>7, <1>8 DEF all

(* As many rows, no one twice, all of them of the others: a rearrangement. *)
LEMMA RearrangedByCount ==
    ASSUME NEW rows \in Seq(Row), NEW others \in Seq(Row),
           IsInjective(rows), IsInjective(others),
           ToSet(rows) \subseteq ToSet(others), Len(rows) = Len(others)
    PROVE  Rearranges(rows, others)
<1>1. /\ IsFiniteSet(ToSet(rows)) /\ rows \in Surjection(1 .. Len(rows), ToSet(rows))
      /\ IsFiniteSet(ToSet(others)) /\ others \in Surjection(1 .. Len(others), ToSet(others))
      /\ Len(rows) \in Nat
  BY MemberOfRows
<1>2. /\ rows \in Injection(1 .. Len(rows), ToSet(rows))
      /\ others \in Injection(1 .. Len(others), ToSet(others))
  BY <1>1 DEF Surjection, Injection
<1>3. IsFiniteSet(1 .. Len(rows))
  BY <1>1, FS_Interval
<1>4. Cardinality(ToSet(rows)) = Cardinality(1 .. Len(rows))
  BY <1>1, <1>2, <1>3, FS_Surjection
<1>5. Cardinality(ToSet(others)) = Cardinality(1 .. Len(rows))
  BY <1>1, <1>2, <1>3, FS_Surjection
<1> QED
  BY <1>1, <1>4, <1>5, FS_Subset DEF Rearranges

(* A rearrangement of rows that are told apart has no row twice. *)
LEMMA RearrangedOnce ==
    ASSUME NEW rows \in Seq(Row), NEW others \in Seq(Row),
           IsInjective(others), Rearranges(rows, others)
    PROVE  IsInjective(rows)
<1>1. /\ rows \in Surjection(1 .. Len(rows), ToSet(rows))
      /\ others \in Surjection(1 .. Len(others), ToSet(others))
      /\ Len(rows) \in Nat
  BY MemberOfRows
<1>2. others \in Injection(1 .. Len(others), ToSet(others))
  BY <1>1 DEF Surjection, Injection
<1>3. IsFiniteSet(1 .. Len(rows))
  BY <1>1, FS_Interval
<1>4. Cardinality(ToSet(rows)) = Cardinality(1 .. Len(rows))
  BY <1>1, <1>2, <1>3, FS_Surjection DEF Rearranges
<1>5. rows \in Injection(1 .. Len(rows), ToSet(rows))
  BY <1>1, <1>3, <1>4, FS_Surjection
<1> QED
  BY <1>5 DEF Injection

-----------------------------------------------------------------------------
(* Comes orders the entries. *)
LEMMA ComesOrders ==
    ASSUME NEW e \in Entry, NEW f \in Entry, NEW g \in Entry
    PROVE  /\ Comes(e, f) \/ Comes(f, e)
           /\ Comes(e, f) /\ Comes(f, g) => Comes(e, g)
           /\ Comes(e, f) => e.row.key <= f.row.key
<1>1. \A x \in Entry : x.row.key \in Int /\ x.sequence \in Int
  <2>1. \A x \in Entry : x.row \in Row /\ x.sequence \in Nat
    BY DEF Entry
  <2>2. \A row \in Row : row.key \in Int
    BY KeysAssumption DEF Row
  <2> QED
    BY <2>1, <2>2
<1> QED
  BY <1>1 DEF Comes

(* A heap with entries has one that comes first: a smallest heap that had none
   would have one without any one of its entries. *)
LEMMA SomeEntryFirst ==
    ASSUME NEW entries \in SUBSET Entry, IsFiniteSet(entries), entries # {}
    PROVE  \E first \in entries : \A other \in entries : Comes(first, other)
<1> DEFINE HasFirst(S) == \E first \in S : \A other \in S : Comes(first, other)
           Sizes == {n \in Nat : \E S \in SUBSET entries :
                                     S # {} /\ Cardinality(S) = n /\ ~HasFirst(S)}
<1>1. SUFFICES ASSUME ~HasFirst(entries)
               PROVE  FALSE
  OBVIOUS
<1>2. Cardinality(entries) \in Sizes
  BY <1>1, FS_CardinalityType
<1>3. PICK n \in Sizes : \A m \in Sizes : ~(<<m, n>> \in OpToRel(<, Nat))
  <2>1. Sizes \subseteq Nat /\ Sizes # {}
    BY <1>2
  <2> HIDE DEF Sizes
  <2> QED
    BY <2>1, NatLessThanWellFounded, WFMin
<1>4. PICK S \in SUBSET entries : S # {} /\ Cardinality(S) = n /\ ~HasFirst(S)
  OBVIOUS
<1>5. PICK e \in S : TRUE
  BY <1>4
<1>6. IsFiniteSet(S) /\ Cardinality(S) \in Nat
  BY FS_Subset, FS_CardinalityType
<1>7. /\ IsFiniteSet(S \ {e}) /\ Cardinality(S \ {e}) = n - 1
      /\ Cardinality(S \ {e}) \in Nat /\ n \in Nat
  BY <1>4, <1>6, FS_RemoveElement, FS_CardinalityType
<1>8. ~(n - 1 \in Sizes)
  <2>1. n - 1 \in Nat /\ n - 1 < n
    BY <1>7
  <2> QED
    BY <1>3, <1>7, <2>1 DEF OpToRel
<1>9. S \ {e} = {} \/ HasFirst(S \ {e})
  BY <1>7, <1>8
<1>10. Comes(e, e) /\ e \in Entry
  BY ComesOrders
<1>11. CASE S \ {e} = {}
  BY <1>4, <1>10, <1>11
<1>12. CASE HasFirst(S \ {e})
  <2>1. PICK f \in S \ {e} : \A other \in S \ {e} : Comes(f, other)
    BY <1>12
  <2>2. f \in Entry /\ \A other \in S : other \in Entry
    OBVIOUS
  <2>3. CASE Comes(f, e)
    BY <1>4, <2>1, <2>3
  <2>4. CASE Comes(e, f)
    <3>1. \A other \in S : Comes(e, other)
      BY <1>10, <2>1, <2>2, <2>4, ComesOrders
    <3> QED
      BY <1>4, <3>1
  <2> QED
    BY <1>10, <2>2, <2>3, <2>4, ComesOrders
<1> QED
  BY <1>9, <1>11, <1>12

LEMMA TopComesFirst ==
    ASSUME heap \subseteq Entry, IsFiniteSet(heap), heap # {}
    PROVE  /\ Top \in heap
           /\ \A other \in heap : Top.row.key <= other.row.key
<1>1. \E first \in heap : \A other \in heap : Comes(first, other)
  BY SomeEntryFirst
<1>2. Top \in heap /\ \A other \in heap : Comes(Top, other)
  BY <1>1 DEF Top
<1> QED
  BY <1>2, ComesOrders

(* The reader that is seeded next has rows and no entry yet. *)
LEMMA SeedsNewReader ==
    ASSUME readers \in Seq(Seq(Row)), ToSeed # {}
    PROVE  /\ Min(ToSeed) \in DOMAIN readers
           /\ HasValue(Min(ToSeed))
           /\ \A entry \in heap : entry.reader # Min(ToSeed)
<1>1. ToSeed \subseteq Nat
  BY LenProperties DEF ToSeed
<1>2. PICK i \in ToSeed : \A j \in ToSeed : ~(<<j, i>> \in OpToRel(<, Nat))
  BY <1>1, NatLessThanWellFounded, WFMin
<1>3. \A j \in ToSeed : ~(j < i)
  BY <1>1, <1>2 DEF OpToRel
<1>b. \A j \in ToSeed : i <= j
  BY <1>1, <1>3
<1>4. Min(ToSeed) \in ToSeed
  BY <1>2, <1>b DEF Min
<1>5. \A entry \in heap : entry.reader < Min(ToSeed)
  BY <1>4 DEF ToSeed, Seeded
<1>6. \A entry \in heap : entry.reader # Min(ToSeed)
  <2>1. \A m \in Nat : ~(m < m)
    OBVIOUS
  <2> QED
    BY <1>1, <1>4, <1>5, <2>1
<1> QED
  BY <1>4, <1>6 DEF ToSeed

-----------------------------------------------------------------------------
LEMMA EmptyRows == /\ <<>> \in Seq(Row) /\ Sorted(<<>>) /\ IsInjective(<<>>)
                   /\ ToSet(<<>>) = {} /\ Len(<<>>) = 0 /\ DOMAIN <<>> = {}
<1>1. <<>> \in Seq(Row) /\ Len(<<>>) = 0 /\ DOMAIN <<>> = 1 .. 0
  BY EmptySeq, LenProperties
<1>2. DOMAIN <<>> = {}
  BY <1>1
<1> QED
  BY <1>1, <1>2 DEF Sorted, IsInjective, ToSet

LEMMA NumberedRows ==
    ASSUME NEW keys \in Inputs
    PROVE  /\ Numbered(keys) \in Seq(Row)
           /\ \A i \in DOMAIN Numbered(keys) : Numbered(keys)[i].number = i
<1>1. PICK n \in 0 .. MaxRows : keys \in [1 .. n -> Keys]
  BY DEF Inputs
<1>2. n \in Nat /\ DOMAIN keys = 1 .. n
  BY <1>1, BoundsAssumption
<1>3. Numbered(keys) \in [1 .. n -> Row]
  BY <1>1, <1>2 DEF Numbered, Row
<1>4. Numbered(keys) \in Seq(Row)
  BY <1>2, <1>3
<1> QED
  BY <1>4 DEF Numbered

(* The rows of the next run are parts of the input from next_row on. *)
LEMMA SortedChunk ==
    ASSUME TypeOK, InputOK, next_row <= Len(input), NEW rows \in SortedChunks
    PROVE  /\ rows \in Seq(Row) /\ Part(rows)
           /\ \A row \in ToSet(rows) : next_row <= row.number /\ row.number < next_row + limit
<1>1. /\ input \in Seq(Row) /\ Len(input) \in Nat /\ DOMAIN input = 1 .. Len(input)
      /\ next_row \in Nat \ {0} /\ limit \in Nat \ {0}
  BY LenProperties DEF TypeOK
<1>2. /\ LastOfRun \in Nat /\ next_row <= LastOfRun /\ LastOfRun <= Len(input)
      /\ LastOfRun < next_row + limit
  BY <1>1 DEF LastOfRun
<1>3. \A i \in next_row .. LastOfRun : input[i] \in Row
  BY <1>1, <1>2, ElementOfSeq
<1>4. /\ Chunk \in Seq(Row) /\ Len(Chunk) = LastOfRun - next_row + 1
      /\ \A i \in 1 .. LastOfRun - next_row + 1 : Chunk[i] = input[next_row + i - 1]
  <2>1. next_row \in Int /\ LastOfRun \in Int
    BY <1>1, <1>2
  <2>2. /\ SubSeq(input, next_row, LastOfRun) \in Seq(Row)
        /\ Len(SubSeq(input, next_row, LastOfRun))
              = IF next_row <= LastOfRun THEN LastOfRun - next_row + 1 ELSE 0
        /\ \A i \in 1 .. LastOfRun - next_row + 1 :
              SubSeq(input, next_row, LastOfRun)[i] = input[next_row + i - 1]
    BY <1>3, <2>1, SubSeqProperties
  <2> QED
    BY <1>2, <2>2 DEF Chunk
<1>5. DOMAIN Chunk = 1 .. LastOfRun - next_row + 1
  BY <1>4, LenProperties
<1>6. \A i \in DOMAIN Chunk :
         /\ next_row + i - 1 \in DOMAIN input
         /\ Chunk[i] = input[next_row + i - 1]
         /\ Chunk[i].number = next_row + i - 1
         /\ next_row <= next_row + i - 1 /\ next_row + i - 1 < next_row + limit
  <2> TAKE i \in DOMAIN Chunk
  <2>1. /\ next_row + i - 1 \in DOMAIN input
        /\ next_row <= next_row + i - 1 /\ next_row + i - 1 < next_row + limit
    BY <1>1, <1>2, <1>5
  <2>2. Chunk[i] = input[next_row + i - 1]
    BY <1>4, <1>5
  <2> QED
    BY <2>1, <2>2 DEF InputOK
<1>7. IsInjective(Chunk)
  <2>1. \A i, j \in DOMAIN Chunk : Chunk[i].number = Chunk[j].number => i = j
    <3> TAKE i, j \in DOMAIN Chunk
    <3>1. /\ Chunk[i].number = next_row + i - 1 /\ Chunk[j].number = next_row + j - 1
          /\ i \in Int /\ j \in Int
      BY <1>5, <1>6
    <3> QED
      BY <1>1, <3>1
  <2> QED
    BY <2>1 DEF IsInjective
<1>8. ToSet(Chunk) \subseteq ToSet(input)
  BY <1>6 DEF ToSet
<1>9. \A row \in ToSet(Chunk) : next_row <= row.number /\ row.number < next_row + limit
  BY <1>6 DEF ToSet
<1>10. /\ rows \in [1 .. Len(Chunk) -> ToSet(Chunk)]
       /\ Rearranges(rows, Chunk) /\ Sorted(rows)
  BY <1>4, <1>5 DEF SortedChunks
<1>11. ToSet(Chunk) \subseteq Row /\ Len(Chunk) \in Nat
  BY <1>4, MemberOfRows
<1>12. rows \in Seq(Row)
  <2>1. rows \in [1 .. Len(Chunk) -> Row]
    BY <1>10, <1>11
  <2> QED
    BY <1>11, <2>1
<1>13. IsInjective(rows)
  BY <1>4, <1>7, <1>10, <1>12, RearrangedOnce
<1> QED
  BY <1>8, <1>9, <1>10, <1>12, <1>13 DEF Part, Rearranges

(* What is in two readers, two entries, or an entry and another reader is from
   two runs. *)
LEMMA PlacesApart ==
    ASSUME SortInv, NEW entry \in heap
    PROVE  /\ at \in {"seed", "merge"} /\ Len(readers) = runs
           /\ entry.reader \in DOMAIN readers /\ entry.reader - 1 \in 0 .. runs - 1
           /\ entry.row \in Row /\ entry.row \in ToSet(input)
           /\ \A other \in heap : entry # other => entry.row # other.row
           /\ \A i \in DOMAIN readers : entry.row \notin ToSet(readers[i])
<1>1. at \in {"seed", "merge"} /\ Len(readers) = runs /\ at \in SortPhases
  BY DEF SortInv, TypeOK, PhaseOK, SortPhases
<1>2. /\ runs \in Nat /\ readers \in Seq(Seq(Row)) /\ DOMAIN readers = 1 .. runs
      /\ \A e \in heap : e \in Entry
  BY <1>1, LenProperties, BoundsAssumption DEF SortInv, TypeOK
<1>3. \A i \in DOMAIN readers : i \in Nat /\ i - 1 \in 0 .. runs - 1
  BY <1>2
<1>4. \A e \in heap : /\ e.reader \in DOMAIN readers
                      /\ e.row \in ToSet(Run(e.reader - 1))
  BY DEF SortInv, HeapOK
<1>5. \A i, j \in DOMAIN readers :
         i # j => ToSet(Run(i - 1)) \cap ToSet(Run(j - 1)) = {}
  <2> SUFFICES ASSUME NEW i \in DOMAIN readers, NEW j \in DOMAIN readers, i # j
               PROVE  ToSet(Run(i - 1)) \cap ToSet(Run(j - 1)) = {}
    OBVIOUS
  <2>1. i - 1 \in 0 .. runs - 1 /\ j - 1 \in 0 .. runs - 1 /\ i - 1 # j - 1
    BY <1>3
  <2> QED
    BY <1>1, <2>1 DEF SortInv, RunsOK
<1>6. \A other \in heap : entry # other => entry.reader # other.reader
  BY DEF SortInv, HeapOK
<1>7. \A other \in heap : entry # other => entry.row # other.row
  BY <1>4, <1>5, <1>6
<1>8. \A i \in DOMAIN readers : entry.row \notin ToSet(readers[i])
  <2> TAKE i \in DOMAIN readers
  <2>1. CASE i = entry.reader
    BY <2>1 DEF SortInv, HeapOK
  <2>2. CASE i # entry.reader
    <3>1. ToSet(readers[i]) \subseteq ToSet(Run(i - 1))
      BY DEF SortInv, ReadersOK
    <3> QED
      BY <1>4, <1>5, <2>2, <3>1
  <2> QED
    BY <2>1, <2>2
<1>9. Part(Run(entry.reader - 1))
  BY <1>1, <1>3, <1>4 DEF SortInv, RunsOK
<1>10. entry.row \in Row
  BY <1>2 DEF Entry
<1> QED
  BY <1>1, <1>3, <1>4, <1>7, <1>8, <1>9, <1>10 DEF Part

-----------------------------------------------------------------------------
LEMMA InitSort == Init => SortInv
<1> SUFFICES ASSUME Init
             PROVE  SortInv
  OBVIOUS
<1>1. TypeOK
  <2>1. files \in [RunIds -> [rows : Seq(Row), cut : BOOLEAN, exists : BOOLEAN]]
    BY EmptyRows DEF Init, NoFile
  <2>2. readers \in Seq(Seq(Row)) /\ Len(readers) = 0
    BY EmptySeq DEF Init
  <2>3. runs \in 0 .. MaxRuns /\ Len(readers) <= runs
    BY <2>2, BoundsAssumption DEF Init
  <2> QED
    BY <2>1, <2>2, <2>3, EmptyRows, FS_EmptySet DEF Init, TypeOK
<1>2. PhaseOK /\ RunsOK /\ RunsBefore
  BY DEF Init, PhaseOK, RunsOK, RunsBefore, SortPhases
<1>3. InputOK /\ ReadersOK /\ HeapOK /\ ResultOK
  BY EmptyRows DEF Init, InputOK, ReadersOK, HeapOK, ResultOK, Part
<1> QED
  BY <1>1, <1>2, <1>3 DEF SortInv

LEMMA CallSort ==
    ASSUME SortInv, Call
    PROVE  SortInv'
<1>1. PICK keys \in Inputs : input' = Numbered(keys)
  BY DEF Call, Begins
<1>2. /\ next_row' = 1 /\ runs' = 0 /\ readers' = <<>> /\ heap' = {} /\ sequence' = 0
      /\ result' = <<>> /\ at' = "runs" /\ files' = files
  BY DEF Call, Begins
<1>3. limit' \in Nat \ {0}
  <2>1. PICK given \in Limits : limit' = UsedLimit(given)
    BY DEF Call, Begins
  <2> QED
    BY <2>1, LimitsAssumption DEF UsedLimit
<1>4. TypeOK'
  <2>1. /\ readers' \in Seq(Seq(Row)) /\ Len(readers') <= runs'
        /\ runs' \in 0 .. MaxRuns
    BY <1>2, EmptySeq, EmptyRows, BoundsAssumption
  <2>2. input' \in Seq(Row) /\ result' \in Seq(Row)
    BY <1>1, <1>2, NumberedRows, EmptyRows
  <2>3. heap' \subseteq Entry /\ IsFiniteSet(heap')
    BY <1>2, FS_EmptySet
  <2>4. next_row' \in Nat \ {0} /\ sequence' \in Nat
    BY <1>2
  <2>5. at' \in SortPhases \cup {"returned", "thrown"}
    BY <1>2 DEF SortPhases
  <2> QED
    BY <1>2, <1>3, <2>1, <2>2, <2>3, <2>4, <2>5 DEF SortInv, TypeOK
<1>5. PhaseOK'
  BY <1>2, EmptyRows DEF PhaseOK
<1>6. InputOK'
  BY <1>1, NumberedRows DEF InputOK
<1>7. RunsOK' /\ RunsBefore'
  BY <1>2 DEF RunsOK, RunsBefore
<1>8. ReadersOK' /\ HeapOK' /\ ResultOK'
  BY <1>2, EmptyRows DEF ReadersOK, HeapOK, ResultOK, Part
<1> QED
  BY <1>4, <1>5, <1>6, <1>7, <1>8 DEF SortInv

LEMMA MakeRunSort ==
    ASSUME SortInv, MakeRun
    PROVE  SortInv'
<1>1. PICK rows \in SortedChunks :
         \E length \in 0 .. Len(rows), cut \in BOOLEAN :
            files' = [files EXCEPT ![runs] =
                [rows |-> SubSeq(rows, 1, length), cut |-> cut, exists |-> TRUE]]
  <2>1. PICK rows \in SortedChunks :
           \E length \in IF MayFail THEN 0 .. Len(rows) ELSE {Len(rows)},
              cut \in IF MayFail THEN BOOLEAN ELSE {FALSE} :
               files' = [files EXCEPT ![runs] =
                   [rows |-> SubSeq(rows, 1, length), cut |-> cut, exists |-> TRUE]]
    BY DEF MakeRun
  <2>2. Len(rows) \in Nat
    BY <2>1, SortedChunk, MemberOfRows DEF SortInv, MakeRun
  <2>3. (IF MayFail THEN 0 .. Len(rows) ELSE {Len(rows)}) \subseteq 0 .. Len(rows)
    BY <2>2
  <2>4. (IF MayFail THEN BOOLEAN ELSE {FALSE}) \subseteq BOOLEAN
    OBVIOUS
  <2> QED
    BY <2>1, <2>3, <2>4
<1>2. PICK length \in 0 .. Len(rows), cut \in BOOLEAN :
         files' = [files EXCEPT ![runs] =
             [rows |-> SubSeq(rows, 1, length), cut |-> cut, exists |-> TRUE]]
  BY <1>1
<1>3. /\ rows \in Seq(Row) /\ Part(rows)
      /\ \A row \in ToSet(rows) : next_row <= row.number /\ row.number < next_row + limit
  BY SortedChunk DEF SortInv, MakeRun
<1> DEFINE written == SubSeq(rows, 1, length)
           New(run) == files'[run].rows
<1>4. /\ written \in Seq(Row) /\ Part(written)
      /\ \A row \in ToSet(written) : next_row <= row.number /\ row.number < next_row + limit
  BY <1>3, PrefixOfRows DEF Part
<1>5. /\ at = "runs" /\ runs' = runs + 1 /\ next_row' = next_row + limit
      /\ input' = input /\ limit' = limit /\ readers' = readers /\ heap' = heap
      /\ sequence' = sequence /\ result' = result /\ at' = at
      /\ readers = <<>> /\ heap = {} /\ result = <<>>
  BY DEF MakeRun, SortInv, PhaseOK
<1>6. /\ runs \in RunIds /\ runs \in Nat /\ runs' \in 0 .. MaxRuns
      /\ next_row \in Nat /\ limit \in Nat \ {0}
      /\ files \in [RunIds -> [rows : Seq(Row), cut : BOOLEAN, exists : BOOLEAN]]
  BY <1>5, BoundsAssumption DEF MakeRun, SortInv, TypeOK, RunIds
<1> HIDE DEF written
<1>7. /\ files' \in [RunIds -> [rows : Seq(Row), cut : BOOLEAN, exists : BOOLEAN]]
      /\ New(runs) = written
      /\ \A run \in 0 .. runs - 1 : New(run) = Run(run)
  <2>1. [rows |-> written, cut |-> cut, exists |-> TRUE]
            \in [rows : Seq(Row), cut : BOOLEAN, exists : BOOLEAN]
    BY <1>4
  <2>2. files' = [files EXCEPT ![runs] = [rows |-> written, cut |-> cut, exists |-> TRUE]]
    BY <1>2 DEF written
  <2>3. \A run \in 0 .. runs - 1 : run # runs /\ run \in RunIds
    BY <1>6, BoundsAssumption DEF RunIds
  <2> QED
    BY <1>6, <2>1, <2>2, <2>3 DEF Run
<1>8. TypeOK'
  <2>1. next_row' \in Nat \ {0}
    BY <1>5, <1>6
  <2>2. readers' \in Seq(Seq(Row)) /\ Len(readers') <= runs'
    BY <1>5, <1>6, EmptyRows DEF SortInv, TypeOK
  <2> QED
    BY <1>5, <1>6, <1>7, <2>1, <2>2 DEF SortInv, TypeOK
<1>9. \A run \in 0 .. runs - 1 :
         Part(Run(run)) /\ \A row \in ToSet(Run(run)) : row.number < next_row
  BY <1>5 DEF SortInv, RunsOK, RunsBefore, SortPhases
<1>10. \A run \in 0 .. runs' - 1 : run = runs \/ run \in 0 .. runs - 1
  BY <1>5, <1>6
<1>11. \A run \in 0 .. runs - 1 : ToSet(Run(run)) \cap ToSet(written) = {}
  <2> SUFFICES ASSUME NEW run \in 0 .. runs - 1,
                      NEW row \in ToSet(Run(run)), row \in ToSet(written)
               PROVE  FALSE
    OBVIOUS
  <2>1. row.number < next_row /\ next_row <= row.number /\ row \in Row
    BY <1>4, <1>9, MemberOfRows
  <2> QED
    BY <1>6, <2>1 DEF Row
<1>12. RunsOK'
  <2>1. \A run \in 0 .. runs' - 1 : Part(New(run))
    <3> TAKE run \in 0 .. runs' - 1
    <3>1. CASE run = runs
      BY <1>4, <1>7, <3>1
    <3>2. CASE run \in 0 .. runs - 1
      BY <1>7, <1>9, <3>2
    <3> QED
      BY <1>10, <3>1, <3>2
  <2>2. \A run, other \in 0 .. runs - 1 :
           run # other => ToSet(Run(run)) \cap ToSet(Run(other)) = {}
    BY <1>5 DEF SortInv, RunsOK, SortPhases
  <2>3. \A run, other \in 0 .. runs' - 1 :
           run # other => ToSet(New(run)) \cap ToSet(New(other)) = {}
    <3> SUFFICES ASSUME NEW run \in 0 .. runs' - 1, NEW other \in 0 .. runs' - 1,
                        run # other
                 PROVE  ToSet(New(run)) \cap ToSet(New(other)) = {}
      OBVIOUS
    <3>1. CASE run = runs
      <4>1. New(run) = written /\ other \in 0 .. runs - 1 /\ New(other) = Run(other)
        BY <1>7, <1>10, <3>1
      <4> QED
        BY <1>11, <4>1
    <3>2. CASE other = runs
      <4>1. New(other) = written /\ run \in 0 .. runs - 1 /\ New(run) = Run(run)
        BY <1>7, <1>10, <3>2
      <4> QED
        BY <1>11, <4>1
    <3>3. CASE run # runs /\ other # runs
      BY <1>7, <1>10, <2>2, <3>3
    <3> QED
      BY <3>1, <3>2, <3>3
  <2> QED
    BY <1>5, <2>1, <2>3 DEF RunsOK, Run, Part
<1>13. RunsBefore'
  <2>1. \A row \in Row : row.number < next_row => row.number < next_row + limit
    BY <1>6 DEF Row
  <2>2. \A run \in 0 .. runs - 1 : \A row \in ToSet(Run(run)) : row \in Row
    <3> TAKE run \in 0 .. runs - 1
    <3>1. run \in RunIds
      BY <1>6, BoundsAssumption DEF RunIds
    <3>2. Run(run) \in Seq(Row)
      BY <1>6, <3>1 DEF Run
    <3> QED
      BY <3>2, MemberOfRows
  <2>3. \A run \in 0 .. runs' - 1 : \A row \in ToSet(New(run)) : row.number < next_row'
    <3> TAKE run \in 0 .. runs' - 1
    <3>1. CASE run = runs
      <4>1. New(run) = written
        BY <1>7, <3>1
      <4> QED
        BY <1>4, <1>5, <4>1
    <3>2. CASE run \in 0 .. runs - 1
      BY <1>5, <1>7, <1>9, <2>1, <2>2, <3>2
    <3> QED
      BY <1>10, <3>1, <3>2
  <2> QED
    BY <2>3 DEF RunsBefore, Run
<1>14. PhaseOK' /\ InputOK'
  BY <1>5 DEF SortInv, PhaseOK, InputOK
<1>15. ReadersOK' /\ HeapOK' /\ ResultOK'
  BY <1>5, EmptyRows DEF SortInv, ReadersOK, HeapOK, ResultOK, Part
<1> QED
  BY <1>8, <1>12, <1>13, <1>14, <1>15 DEF SortInv

(* A loop ends and the next one begins. *)
LEMMA SwitchSort ==
    ASSUME SortInv, RunsMade \/ ReadersOpen \/ AllSeeded
    PROVE  SortInv'
<1>1. /\ input' = input /\ limit' = limit /\ next_row' = next_row /\ runs' = runs
      /\ files' = files /\ readers' = readers /\ heap' = heap
      /\ sequence' = sequence /\ result' = result
      /\ at \in {"runs", "open", "seed"}
      /\ \/ at = "runs" /\ at' = "open"
         \/ at = "open" /\ at' = "seed" /\ Len(readers) = runs
         \/ at = "seed" /\ at' = "merge"
  BY DEF RunsMade, ReadersOpen, AllSeeded
<1>2. TypeOK'
  <2>1. at' \in SortPhases \cup {"returned", "thrown"}
    BY <1>1 DEF SortPhases
  <2> QED
    BY <1>1, <2>1 DEF SortInv, TypeOK
<1>3. PhaseOK'
  BY <1>1 DEF SortInv, PhaseOK
<1>4. RunsOK' /\ RunsBefore'
  <2>1. /\ \A run \in 0 .. runs - 1 : Part(Run(run))
        /\ \A run, other \in 0 .. runs - 1 :
              run # other => ToSet(Run(run)) \cap ToSet(Run(other)) = {}
    BY <1>1 DEF SortInv, RunsOK, SortPhases
  <2> QED
    BY <1>1, <2>1 DEF RunsOK, RunsBefore, Run, Part
<1>5. InputOK' /\ ReadersOK' /\ HeapOK' /\ ResultOK'
  BY <1>1 DEF SortInv, InputOK, ReadersOK, HeapOK, ResultOK, Run, Part
<1> QED
  BY <1>2, <1>3, <1>4, <1>5 DEF SortInv

LEMMA OpenReaderSort ==
    ASSUME SortInv, OpenReader
    PROVE  SortInv'
<1> DEFINE rows == Run(Len(readers))
<1>1. /\ input' = input /\ limit' = limit /\ next_row' = next_row /\ runs' = runs
      /\ files' = files /\ heap' = heap /\ sequence' = sequence /\ result' = result
      /\ at' = at /\ at = "open" /\ Len(readers) < runs
      /\ readers' = Append(readers, rows)
      /\ heap = {} /\ result = <<>>
  BY DEF OpenReader, SortInv, PhaseOK, Run
<1>2. /\ readers \in Seq(Seq(Row)) /\ Len(readers) \in Nat /\ runs \in 0 .. MaxRuns
      /\ DOMAIN readers = 1 .. Len(readers)
      /\ files \in [RunIds -> [rows : Seq(Row), cut : BOOLEAN, exists : BOOLEAN]]
  BY LenProperties DEF SortInv, TypeOK
<1>3. Len(readers) \in RunIds /\ Len(readers) \in 0 .. runs - 1
  BY <1>1, <1>2, BoundsAssumption DEF RunIds
<1>4. rows \in Seq(Row)
  BY <1>2, <1>3 DEF Run
<1>5. Part(rows)
  BY <1>1, <1>3 DEF SortInv, RunsOK, SortPhases
<1>6. /\ readers' \in Seq(Seq(Row)) /\ Len(readers') = Len(readers) + 1
      /\ DOMAIN readers' = 1 .. Len(readers) + 1
      /\ \A i \in DOMAIN readers : readers'[i] = readers[i]
      /\ readers'[Len(readers) + 1] = rows
  <2> HIDE DEF rows
  <2>1. /\ Append(readers, rows) \in Seq(Seq(Row))
        /\ Len(Append(readers, rows)) = Len(readers) + 1
        /\ \A i \in 1 .. Len(readers) : Append(readers, rows)[i] = readers[i]
        /\ Append(readers, rows)[Len(readers) + 1] = rows
    BY <1>2, <1>4, AppendProperties
  <2> QED
    BY <1>1, <1>2, <2>1, LenProperties
<1>7. TypeOK'
  <2>1. Len(readers') <= runs'
    BY <1>1, <1>2, <1>6
  <2> QED
    BY <1>1, <1>6, <2>1 DEF SortInv, TypeOK
<1>8. PhaseOK'
  BY <1>1 DEF PhaseOK
<1>9. ReadersOK'
  <2>1. \A i \in DOMAIN readers' :
           Part(readers'[i]) /\ ToSet(readers'[i]) \subseteq ToSet(Run(i - 1))
    <3> TAKE i \in DOMAIN readers'
    <3>1. CASE i \in DOMAIN readers
      BY <1>6, <3>1 DEF SortInv, ReadersOK
    <3>2. CASE i = Len(readers) + 1
      <4>1. i - 1 = Len(readers)
        BY <1>2, <3>2
      <4> QED
        BY <1>5, <1>6, <3>2, <4>1
    <3> QED
      BY <1>2, <1>6, <3>1, <3>2
  <2> QED
    BY <1>1, <2>1 DEF ReadersOK, Part, Run
<1>10. InputOK' /\ RunsOK' /\ RunsBefore'
  BY <1>1 DEF SortInv, InputOK, RunsOK, RunsBefore, Run, Part
<1>11. HeapOK' /\ ResultOK'
  BY <1>1, EmptyRows DEF SortInv, HeapOK, ResultOK, Part
<1> QED
  BY <1>7, <1>8, <1>9, <1>10, <1>11 DEF SortInv

LEMMA FilesAfterType ==
    ASSUME TypeOK
    PROVE  FilesAfterReaders \in [RunIds -> [rows : Seq(Row), cut : BOOLEAN, exists : BOOLEAN]]
<1>1. NoFile \in [rows : Seq(Row), cut : BOOLEAN, exists : BOOLEAN]
  BY EmptyRows DEF NoFile
<1> QED
  BY <1>1 DEF TypeOK, FilesAfterReaders

(* The sort ends, by an exception or after the last row. *)
LEMMA EndSort ==
    ASSUME SortInv, at' \in {"returned", "thrown"},
           at' = "returned" => Len(result) = Len(input),
           files' = FilesAfterReaders, readers' = <<>>, heap' = {},
           UNCHANGED <<input, limit, next_row, runs, sequence, result>>
    PROVE  SortInv'
<1>1. TypeOK'
  <2>1. readers' \in Seq(Seq(Row)) /\ Len(readers') = 0
    BY EmptySeq
  <2>2. runs \in Nat
    BY BoundsAssumption DEF SortInv, TypeOK
  <2>3. Len(readers') <= runs'
    BY <2>1, <2>2
  <2> QED
    BY <2>1, <2>3, FilesAfterType, FS_EmptySet DEF SortInv, TypeOK
<1>2. PhaseOK'
  BY DEF PhaseOK
<1>3. InputOK' /\ RunsOK' /\ RunsBefore'
  BY DEF SortInv, InputOK, RunsOK, RunsBefore, SortPhases
<1>4. ReadersOK' /\ HeapOK' /\ ResultOK'
  BY EmptyRows DEF SortInv, ReadersOK, HeapOK, ResultOK, Part
<1> QED
  BY <1>1, <1>2, <1>3, <1>4 DEF SortInv

(* A reader gives its next row to the heap, which has none of its rows. *)
LEMMA PushSort ==
    ASSUME SortInv, NEW i \in DOMAIN readers, HasValue(i),
           NEW others \in SUBSET heap,
           \A entry \in others : entry.reader # i,
           Push(i, others), at \in {"seed", "merge"}, UNCHANGED <<input, runs, files>>
    PROVE  /\ heap' \subseteq Entry /\ IsFiniteSet(heap')
           /\ readers' \in Seq(Seq(Row)) /\ Len(readers') = Len(readers)
           /\ DOMAIN readers' = DOMAIN readers
           /\ sequence' \in Nat
           /\ ReadersOK' /\ HeapOK'
           /\ \A j \in DOMAIN readers : ToSet(readers'[j]) \subseteq ToSet(readers[j])
           /\ \A entry \in heap' :
                 entry \in others \/ entry.row \in ToSet(readers[i])
<1> DEFINE entry == [row |-> Head(readers[i]), reader |-> i, sequence |-> sequence]
<1>1. /\ readers \in Seq(Seq(Row)) /\ DOMAIN readers = 1 .. Len(readers)
      /\ Len(readers) \in Nat /\ sequence \in Nat
      /\ heap \subseteq Entry /\ IsFiniteSet(heap)
  BY LenProperties DEF SortInv, TypeOK
<1>2. readers[i] \in Seq(Row) /\ readers[i] # <<>> /\ i \in Nat
  BY <1>1, ElementOfSeq DEF HasValue
<1>3. Part(readers[i]) /\ ToSet(readers[i]) \subseteq ToSet(Run(i - 1))
  BY DEF SortInv, ReadersOK
<1>4. /\ Head(readers[i]) \in ToSet(readers[i])
      /\ Tail(readers[i]) \in Seq(Row) /\ Part(Tail(readers[i]))
      /\ ToSet(Tail(readers[i])) \subseteq ToSet(readers[i])
      /\ \A row \in ToSet(Tail(readers[i])) :
            row # Head(readers[i]) /\ Head(readers[i]).key <= row.key
  BY <1>2, <1>3, TailOfRows DEF Part
<1>5. /\ heap' = others \cup {entry}
      /\ readers' = [readers EXCEPT ![i] = Tail(readers[i])]
      /\ sequence' = sequence + 1
  BY DEF Push
<1>6. /\ readers' \in Seq(Seq(Row)) /\ Len(readers') = Len(readers)
      /\ DOMAIN readers' = DOMAIN readers
      /\ \A j \in DOMAIN readers :
            readers'[j] = IF j = i THEN Tail(readers[i]) ELSE readers[j]
  BY <1>1, <1>4, <1>5, ExceptSeq, LenProperties
<1>7. Head(readers[i]) \in Row
  BY <1>2, <1>4, MemberOfRows
<1>8. entry \in Entry
  BY <1>1, <1>2, <1>7 DEF Entry
<1>9. heap' \subseteq Entry /\ IsFiniteSet(heap')
  <2>1. IsFiniteSet(others) /\ others \subseteq Entry
    BY <1>1, FS_Subset
  <2> HIDE DEF entry
  <2> QED
    BY <1>5, <1>8, <2>1, FS_AddElement
<1>10. \A j \in DOMAIN readers : ToSet(readers'[j]) \subseteq ToSet(readers[j])
  BY <1>4, <1>6
<1>11. ReadersOK'
  <2>1. \A j \in DOMAIN readers' :
           Part(readers'[j]) /\ ToSet(readers'[j]) \subseteq ToSet(Run(j - 1))
    <3> TAKE j \in DOMAIN readers'
    <3>1. CASE j = i
      BY <1>3, <1>4, <1>6, <3>1
    <3>2. CASE j # i
      BY <1>6, <3>2 DEF SortInv, ReadersOK
    <3> QED
      BY <3>1, <3>2
  <2> QED
    BY <2>1 DEF ReadersOK, Part, Run
<1>12. \A e \in others :
          /\ e.reader \in DOMAIN readers /\ e.reader # i
          /\ e.row \in ToSet(Run(e.reader - 1))
          /\ \A row \in ToSet(readers[e.reader]) : row # e.row /\ e.row.key <= row.key
  BY DEF SortInv, HeapOK
<1>13. \A e \in heap' :
          /\ e.reader \in DOMAIN readers'
          /\ e.row \in ToSet(Run(e.reader - 1))
          /\ \A row \in ToSet(readers'[e.reader]) : row # e.row /\ e.row.key <= row.key
  <2> TAKE e \in heap'
  <2>1. CASE e \in others
    BY <1>6, <1>12, <2>1
  <2>2. CASE e = entry
    <3>1. e.reader = i /\ e.row = Head(readers[i]) /\ readers'[i] = Tail(readers[i])
      BY <1>6, <2>2
    <3> QED
      BY <1>3, <1>4, <1>6, <3>1
  <2> QED
    BY <1>5, <2>1, <2>2
<1>14. \A e, f \in heap' : e.reader = f.reader => e = f
  <2>1. \A e, f \in others : e.reader = f.reader => e = f
    BY DEF SortInv, HeapOK
  <2>2. entry.reader = i
    OBVIOUS
  <2> HIDE DEF entry
  <2> QED
    BY <1>5, <1>12, <2>1, <2>2
<1>15. HeapOK'
  BY <1>13, <1>14 DEF HeapOK, Run
<1>16. \A e \in heap' : e \in others \/ e.row \in ToSet(readers[i])
  BY <1>4, <1>5
<1>17. sequence' \in Nat
  BY <1>1, <1>5
<1> QED
  BY <1>6, <1>9, <1>10, <1>11, <1>15, <1>16, <1>17

LEMMA SeedSort ==
    ASSUME SortInv, Seed
    PROVE  SortInv'
<1> DEFINE i == Min(ToSeed)
<1>1. /\ at = "seed" /\ at' = at /\ input' = input /\ limit' = limit
      /\ next_row' = next_row /\ runs' = runs /\ files' = files /\ result' = result
      /\ Push(i, heap) /\ ToSeed # {}
  BY DEF Seed
<1>2. i \in DOMAIN readers /\ HasValue(i) /\ \A entry \in heap : entry.reader # i
  BY <1>1, SeedsNewReader DEF SortInv, TypeOK
<1> HIDE DEF i
<1>3. /\ heap' \subseteq Entry /\ IsFiniteSet(heap')
      /\ readers' \in Seq(Seq(Row)) /\ Len(readers') = Len(readers)
      /\ sequence' \in Nat /\ ReadersOK' /\ HeapOK'
  BY <1>1, <1>2, PushSort
<1>4. TypeOK' /\ PhaseOK'
  BY <1>1, <1>3 DEF SortInv, TypeOK, PhaseOK
<1>5. InputOK' /\ RunsOK' /\ RunsBefore'
  BY <1>1 DEF SortInv, InputOK, RunsOK, RunsBefore, Run, Part
<1>6. ResultOK'
  <2>1. result' = <<>>
    BY <1>1 DEF SortInv, PhaseOK
  <2> QED
    BY <2>1, EmptyRows DEF ResultOK, Part
<1> QED
  BY <1>3, <1>4, <1>5, <1>6 DEF SortInv

(* The row that goes out comes after those that went, and before those left. *)
LEMMA MergeSort ==
    ASSUME SortInv, Merge
    PROVE  SortInv'
<1>1. /\ at = "merge" /\ at' = at /\ input' = input /\ limit' = limit
      /\ next_row' = next_row /\ runs' = runs /\ files' = files
      /\ result' = Append(result, Top.row) /\ heap # {}
  BY DEF Merge
<1>2. /\ heap \subseteq Entry /\ IsFiniteSet(heap) /\ result \in Seq(Row)
      /\ readers \in Seq(Seq(Row)) /\ sequence \in Nat
  BY DEF SortInv, TypeOK
<1>3. Top \in heap /\ \A other \in heap : Top.row.key <= other.row.key
  BY <1>1, <1>2, TopComesFirst
<1> DEFINE top == Top
<1> HIDE DEF top
<1>4. /\ top = Top /\ top \in heap /\ top \in Entry /\ top.row \in Row
      /\ \A other \in heap : top.row.key <= other.row.key
  BY <1>2, <1>3 DEF top, Entry
<1>5. /\ Len(readers) = runs /\ top.reader \in DOMAIN readers
      /\ top.row \in ToSet(input)
      /\ \A other \in heap : top # other => top.row # other.row
      /\ \A j \in DOMAIN readers : top.row \notin ToSet(readers[j])
  BY <1>4, PlacesApart
<1>6. \A before \in ToSet(result) :
         /\ \A entry \in heap : before # entry.row /\ before.key <= entry.row.key
         /\ \A j \in DOMAIN readers : before \notin ToSet(readers[j])
  BY DEF SortInv, ResultOK
<1>7. /\ result' \in Seq(Row)
      /\ Sorted(result') /\ IsInjective(result')
      /\ ToSet(result') = ToSet(result) \cup {top.row}
  BY <1>1, <1>2, <1>4, <1>6, AppendToRows DEF SortInv, ResultOK, Part
<1>8. Part(result')
  BY <1>5, <1>7 DEF SortInv, ResultOK, Part
<1>9. /\ heap' \subseteq Entry /\ IsFiniteSet(heap')
      /\ readers' \in Seq(Seq(Row)) /\ Len(readers') = Len(readers)
      /\ DOMAIN readers' = DOMAIN readers
      /\ sequence' \in Nat /\ ReadersOK' /\ HeapOK'
      /\ \A j \in DOMAIN readers : ToSet(readers'[j]) \subseteq ToSet(readers[j])
      /\ \A entry \in heap' :
            entry \in heap \ {top} \/ entry.row \in ToSet(readers[top.reader])
  <2>1. CASE HasValue(top.reader)
    <3>1. Push(top.reader, heap \ {top})
      BY <1>4, <2>1 DEF Merge
    <3>2. \A entry \in heap \ {top} : entry.reader # top.reader
      BY <1>4 DEF SortInv, HeapOK
    <3>3. heap \ {top} \in SUBSET heap
      OBVIOUS
    <3> QED
      BY <1>1, <1>5, <2>1, <3>1, <3>2, <3>3, PushSort
  <2>2. CASE ~HasValue(top.reader)
    <3>1. heap' = heap \ {top} /\ readers' = readers /\ sequence' = sequence
      BY <1>4, <2>2 DEF Merge
    <3>2. IsFiniteSet(heap')
      BY <1>2, <3>1, FS_RemoveElement
    <3>3. ReadersOK' /\ HeapOK'
      BY <1>1, <3>1 DEF SortInv, ReadersOK, HeapOK, Run, Part
    <3> QED
      BY <1>2, <3>1, <3>2, <3>3
  <2> QED
    BY <2>1, <2>2
<1>10. TypeOK' /\ PhaseOK'
  <2>1. Len(readers') <= runs' /\ runs' \in 0 .. MaxRuns
    BY <1>1, <1>9 DEF SortInv, TypeOK
  <2>2. PhaseOK'
    BY <1>1, <1>5, <1>9 DEF PhaseOK
  <2> QED
    BY <1>1, <1>7, <1>9, <2>1, <2>2 DEF SortInv, TypeOK
<1>11. InputOK' /\ RunsOK' /\ RunsBefore'
  BY <1>1 DEF SortInv, InputOK, RunsOK, RunsBefore, Run, Part
\* The reader's next row is not before the one it gave last.
<1>12. \A row \in ToSet(readers[top.reader]) : top.row.key <= row.key
  BY <1>4 DEF SortInv, HeapOK
<1>13. \A entry \in heap' : top.row # entry.row /\ top.row.key <= entry.row.key
  BY <1>4, <1>5, <1>9, <1>12
<1>14. \A before \in ToSet(result) :
          \A entry \in heap' : before # entry.row /\ before.key <= entry.row.key
  <2> SUFFICES ASSUME NEW before \in ToSet(result), NEW entry \in heap'
               PROVE  before # entry.row /\ before.key <= entry.row.key
    OBVIOUS
  <2>1. before # entry.row
    BY <1>5, <1>6, <1>9
  <2>2. before.key <= top.row.key /\ top.row.key <= entry.row.key
    BY <1>4, <1>6, <1>13
  <2>3. before.key \in Int /\ top.row.key \in Int /\ entry.row.key \in Int
    <3>1. before \in Row /\ entry \in Entry
      BY <1>2, <1>9, MemberOfRows
    <3>2. \A row \in Row : row.key \in Int
      BY KeysAssumption DEF Row
    <3> QED
      BY <1>4, <3>1, <3>2 DEF Entry
  <2> QED
    BY <2>1, <2>2, <2>3
<1>15. ResultOK'
  <2>1. \A row \in ToSet(result') :
           /\ \A entry \in heap' : row # entry.row /\ row.key <= entry.row.key
           /\ \A j \in DOMAIN readers' : row \notin ToSet(readers'[j])
    BY <1>5, <1>6, <1>7, <1>9, <1>13, <1>14
  <2> QED
    BY <1>1, <1>8, <2>1 DEF ResultOK, Part
<1> QED
  BY <1>9, <1>10, <1>11, <1>15 DEF SortInv

LEMMA NextSort == SortInv /\ [Next]_vars => SortInv'
<1> SUFFICES ASSUME SortInv, [Next]_vars
             PROVE  SortInv'
  OBVIOUS
<1>1. ASSUME Throw
      PROVE  SortInv'
  BY <1>1, EndSort DEF Throw
<1>2. CASE Call
  BY <1>2, CallSort
<1>3. CASE MakeRun
  BY <1>3, MakeRunSort
<1>4. CASE RunsMade \/ ReadersOpen \/ AllSeeded
  BY <1>4, SwitchSort
<1>5. CASE OpenReader
  BY <1>5, OpenReaderSort
<1>6. CASE Seed
  BY <1>6, SeedSort
<1>7. CASE Merge
  BY <1>7, MergeSort
<1>8. CASE Returns
  BY <1>8, EndSort DEF Returns, Complete
<1>9. CASE CreateFails \/ OpenFails \/ SeedFails \/ MergeFails \/ Incomplete
  BY <1>1, <1>9 DEF CreateFails, OpenFails, SeedFails, MergeFails, Incomplete
<1>10. CASE UNCHANGED vars
  BY <1>10 DEF vars, SortInv, TypeOK, PhaseOK, InputOK, RunsOK, RunsBefore,
               ReadersOK, HeapOK, ResultOK, Part, Run
<1> QED
  BY <1>2, <1>3, <1>4, <1>5, <1>6, <1>7, <1>8, <1>9, <1>10 DEF Next

LEMMA SortInvariant == Spec => []SortInv
<1> QED
  BY InitSort, NextSort, PTL DEF Spec

(* A sort that returns has every row of its input once, in order: no row went
   out twice, and as many as there are went out (external_merge_sort.cpp counts
   them at the end), so it is no matter which run was cut short. *)
THEOREM ReturnsSortedHolds == Spec => []ReturnsSorted
<1>1. ASSUME SortInv, at = "returned"
      PROVE  Sorted(result) /\ Rearranges(result, input)
  <2>1. /\ result \in Seq(Row) /\ input \in Seq(Row) /\ Part(result)
        /\ Len(result) = Len(input)
    BY <1>1 DEF SortInv, TypeOK, ResultOK, PhaseOK
  <2>2. IsInjective(input)
    BY <1>1 DEF SortInv, InputOK, IsInjective
  <2> QED
    BY <2>1, <2>2, RearrangedByCount DEF Part
<1>2. SortInv => ReturnsSorted
  BY <1>1 DEF ReturnsSorted
<1> QED
  BY <1>2, SortInvariant, PTL

(* The files of the runs are gone when a merge ends, by its last row or by an
   exception: each of them has a reader, whose destructor removes it. *)
THEOREM RunsRemovedHolds == Spec => RunsRemoved
<1>1. ASSUME SortInv, Next, at = "merge", at' \in {"returned", "thrown"},
             NEW run \in 0 .. runs - 1
      PROVE  ~files'[run].exists
  <2>1. files' = FilesAfterReaders
    BY <1>1 DEF Next, Call, MakeRun, CreateFails, RunsMade, OpenReader, OpenFails,
                ReadersOpen, Seed, SeedFails, AllSeeded, Merge, MergeFails, Returns,
                Incomplete, Throw
  <2>2. /\ Len(readers) = runs /\ DOMAIN readers = 1 .. Len(readers)
        /\ runs \in 0 .. MaxRuns
    BY <1>1, LenProperties DEF SortInv, PhaseOK, TypeOK
  <2>3. run \in RunIds /\ run + 1 \in DOMAIN readers
    BY <2>2, BoundsAssumption DEF RunIds
  <2> QED
    BY <2>1, <2>3 DEF FilesAfterReaders, NoFile
<1>2. SortInv /\ [Next]_vars =>
        [at = "merge" /\ at' \in {"returned", "thrown"}
            => \A run \in 0 .. runs - 1 : ~files'[run].exists]_vars
  BY <1>1
<1> QED
  BY <1>2, SortInvariant, PTL DEF Spec, RunsRemoved

-----------------------------------------------------------------------------
(* The plan of a join: what it has returned are the pairs of the join that its
   loops have passed. *)

PlanTypes ==
    /\ left \in Seq(Values) /\ right \in Seq(Values)
    /\ cursor_ \in 0 .. Len(left) /\ right_cursor_ \in 0 .. Len(right)
    /\ right_rows_ \in Seq(Nat)
    /\ joined \in Seq(Nat \X Nat)
    /\ doing \in {"idle", "open", "next"}

\* The rows of the right side read so far that the selection lets through.
RightRows ==
    /\ \A k, l \in DOMAIN right_rows_ : k < l => right_rows_[k] < right_rows_[l]
    /\ {right_rows_[k] : k \in DOMAIN right_rows_} = {j \in 1 .. right_cursor_ : right[j] \in Selected}

\* The loops have passed the pair.
Passed(p) ==
    \/ p[1] < cursor_
    \/ /\ p[1] = cursor_
       /\ current_left_ = 0 \/ \E k \in 1 .. right_index_ : right_rows_[k] = p[2]

PlanInv ==
    /\ PlanTypes
    /\ opened_ \/ doing = "open" => RightRows
    /\ doing = "open" => joined = <<>>
    /\ doing # "open" =>
          /\ right_index_ \in 0 .. Len(right_rows_)
          /\ current_left_ # 0 => opened_ /\ current_left_ = cursor_ /\ cursor_ > 0
    /\ opened_ /\ doing # "open" =>
          /\ \A m, n \in DOMAIN joined : m < n => Before(joined[m], joined[n])
          /\ {joined[m] : m \in DOMAIN joined} = {p \in Join : Passed(p)}

(* The plan before it is opened. *)
LEMMA InitPlan == PlanInit => PlanInv
  BY EmptySeq DEF PlanInit, PlanInv, PlanTypes, RightRows

(* What the invariant says of pairs of the join. *)
LEMMA JoinPairs ==
    ASSUME PlanInv, NEW p \in Join
    PROVE  /\ p \in Nat \X Nat /\ p[1] \in 1 .. Len(left) /\ p[2] \in 1 .. Len(right)
           /\ p = <<p[1], p[2]>>
           /\ opened_ => \E k \in DOMAIN right_rows_ : right_rows_[k] = p[2]
<1>1. /\ Len(left) \in Nat /\ Len(right) \in Nat /\ DOMAIN left = 1 .. Len(left)
      /\ right_cursor_ \in Nat /\ right_cursor_ <= Len(right)
  BY LenProperties DEF PlanInv, PlanTypes
<1>2. /\ p \in (1 .. Len(left)) \X (1 .. right_cursor_)
      /\ right[p[2]] \in Selected
  BY <1>1 DEF Join
<1>3. opened_ => p[2] \in {right_rows_[k] : k \in DOMAIN right_rows_}
  BY <1>2 DEF PlanInv, RightRows
<1> QED
  BY <1>1, <1>2, <1>3

(* The join is opened, for the first time or again. *)
LEMMA OpenPlan ==
    ASSUME PlanInv, Open
    PROVE  PlanInv'
<1>1. right_rows_' = <<>> /\ joined' = <<>> /\ DOMAIN <<>> = {} /\ right_cursor_' = 0
  BY EmptySeq DEF Open, CursorAtOpen
<1>2. PlanTypes' /\ doing' = "open"
  BY <1>1, EmptySeq, LenProperties DEF PlanInv, PlanTypes, Open
<1>3. RightRows'
  BY <1>1 DEF RightRows
<1> QED
  BY <1>1, <1>2, <1>3 DEF PlanInv

(* A row of the right side is read. *)
LEMMA ReadRightPlan ==
    ASSUME PlanInv, ReadRight
    PROVE  PlanInv'
<1>1. PICK rows, j : rows = right_rows_ /\ j = right_cursor_ + 1
  OBVIOUS
<1>2. /\ Len(right) \in Nat /\ right_cursor_ \in 0 .. Len(right) /\ right_cursor_ < Len(right)
      /\ rows \in Seq(Nat) /\ Len(rows) \in Nat /\ DOMAIN rows = 1 .. Len(rows)
      /\ j \in 1 .. Len(right) /\ j \in Nat
  BY <1>1, LenProperties DEF PlanInv, PlanTypes, ReadRight, HasRow
<1>3. /\ \A k, l \in DOMAIN rows : k < l => rows[k] < rows[l]
      /\ {rows[k] : k \in DOMAIN rows} = {i \in 1 .. right_cursor_ : right[i] \in Selected}
  BY <1>1 DEF PlanInv, RightRows, ReadRight
<1>4. /\ right_cursor_' = j /\ right' = right
      /\ right_rows_' = IF right[j] \in Selected THEN Append(rows, j) ELSE rows
  BY <1>1 DEF ReadRight, NextRow
<1>5. \A i \in 1 .. j : i \in 1 .. right_cursor_ \/ i = j
  BY <1>1, <1>2
<1>6. \A i \in 1 .. right_cursor_ : i \in 1 .. j /\ i < j
  BY <1>1, <1>2
<1>7. right_rows_' \in Seq(Nat) /\ RightRows'
  <2>1. CASE right[j] \notin Selected
    <3>1. {rows[k] : k \in DOMAIN rows} = {i \in 1 .. j : right[i] \in Selected}
      BY <1>3, <1>5, <1>6, <2>1
    <3> QED
      BY <1>2, <1>3, <1>4, <2>1, <3>1 DEF RightRows
  <2>2. CASE right[j] \in Selected
    <3>1. PICK longer : longer = Append(rows, j)
      OBVIOUS
    <3>2. /\ longer \in Seq(Nat) /\ DOMAIN longer = 1 .. Len(rows) + 1
          /\ \A k \in 1 .. Len(rows) : longer[k] = rows[k]
          /\ longer[Len(rows) + 1] = j
      BY <1>2, <3>1, AppendProperties, LenProperties
    <3>3. \A k \in 1 .. Len(rows) + 1 : k \in 1 .. Len(rows) \/ k = Len(rows) + 1
      BY <1>2
    <3>4. \A k \in 1 .. Len(rows) : k \in 1 .. Len(rows) + 1
      BY <1>2
    <3>5. {longer[k] : k \in DOMAIN longer} = {i \in 1 .. j : right[i] \in Selected}
      <4>1. {longer[k] : k \in DOMAIN longer} = {rows[k] : k \in DOMAIN rows} \cup {j}
        BY <1>2, <3>2, <3>3, <3>4
      <4>2. j \in 1 .. j
        BY <1>2
      <4> QED
        BY <1>3, <1>5, <1>6, <2>2, <4>1, <4>2
    <3>6. \A k \in 1 .. Len(rows) : rows[k] < j
      BY <1>2, <1>3, <1>6
    <3>7. ASSUME NEW k \in DOMAIN longer, NEW l \in DOMAIN longer, k < l
          PROVE  longer[k] < longer[l]
      <4>1. k \in 1 .. Len(rows)
        BY <1>2, <3>2, <3>3, <3>7
      <4>2. l \in 1 .. Len(rows) \/ l = Len(rows) + 1
        BY <3>2, <3>3
      <4> QED
        BY <1>2, <1>3, <3>2, <3>6, <3>7, <4>1, <4>2
    <3> QED
      BY <1>4, <2>2, <3>1, <3>2, <3>5, <3>7 DEF RightRows
  <2> QED
    BY <2>1, <2>2
<1>8. /\ PlanTypes' /\ doing' = "open" /\ joined' = <<>>
  BY <1>2, <1>4, <1>7 DEF PlanInv, PlanTypes, ReadRight
<1> QED
  BY <1>7, <1>8 DEF PlanInv

(* The right side has been read, the left side begins. *)
LEMMA OpenLeftPlan ==
    ASSUME PlanInv, OpenLeft
    PROVE  PlanInv'
<1>1. /\ left \in Seq(Values) /\ Len(left) \in Nat /\ Len(right_rows_) \in Nat /\ joined = <<>>
      /\ DOMAIN left = 1 .. Len(left)
      /\ RightRows /\ right_rows_ \in Seq(Nat)
  BY LenProperties DEF PlanInv, PlanTypes, OpenLeft
<1>2. /\ UNCHANGED <<left, right, right_cursor_, right_rows_, joined>>
      /\ opened_' /\ right_index_' = 0 /\ doing' = "idle"
      /\ \/ 0 < Len(left) /\ cursor_' = 1 /\ current_left_' = 1
         \/ cursor_' = 0 /\ current_left_' = 0
  BY DEF OpenLeft, CursorAtOpen, HasRow, NextRow
<1>3. PlanTypes' /\ RightRows' /\ right_index_' \in 0 .. Len(right_rows_')
  BY <1>1, <1>2 DEF PlanInv, PlanTypes, RightRows
<1>4. \A p \in Join' : ~Passed(p)'
  <2>1. SUFFICES ASSUME NEW p \in Join'
                 PROVE  ~Passed(p)'
    OBVIOUS
  <2>2. p[1] \in 1 .. Len(left)
    BY <1>1, <1>2 DEF Join
  <2> QED
    BY <1>1, <1>2, <2>2 DEF Passed
<1>5. DOMAIN joined' = {}
  BY <1>1, <1>2, EmptySeq
<1>6. {joined'[m] : m \in DOMAIN joined'} = {p \in Join' : Passed(p)'}
  BY <1>4, <1>5
<1>7. opened_' /\ doing' = "idle" /\ (current_left_' # 0 => current_left_' = cursor_' /\ cursor_' > 0)
  BY <1>2
<1> QED
  BY <1>3, <1>5, <1>6, <1>7 DEF PlanInv

(* A right row is compared. *)
LEMMA CompareNextPlan ==
    ASSUME PlanInv, CompareNext
    PROVE  PlanInv'
<1>1. PICK index, j, pair : index = right_index_ + 1 /\ j = right_rows_[index] /\ pair = <<cursor_, j>>
  OBVIOUS
<1>2. /\ doing = "next" /\ opened_ /\ current_left_ = cursor_ /\ cursor_ > 0 /\ RightRows
      /\ right_rows_ \in Seq(Nat) /\ Len(right_rows_) \in Nat
      /\ DOMAIN right_rows_ = 1 .. Len(right_rows_)
      /\ right_index_ \in 0 .. Len(right_rows_) /\ right_index_ < Len(right_rows_)
      /\ index \in 1 .. Len(right_rows_) /\ j \in Nat
      /\ cursor_ \in Nat /\ cursor_ \in 1 .. Len(left) /\ DOMAIN left = 1 .. Len(left)
      /\ joined \in Seq(Nat \X Nat)
  BY <1>1, LenProperties, ElementOfSeq DEF PlanInv, PlanTypes, CompareNext
<1>3. /\ UNCHANGED <<left, right, cursor_, opened_, right_cursor_, current_left_, right_rows_>>
      /\ right_index_' = index
      /\ \/ Joins(cursor_, j) /\ joined' = Append(joined, pair) /\ doing' = "idle"
         \/ ~Joins(cursor_, j) /\ joined' = joined /\ doing' = doing
  BY <1>1, <1>2 DEF CompareNext
<1>4. j \in 1 .. right_cursor_ /\ right[j] \in Selected
  BY <1>1, <1>2 DEF RightRows
<1>5. pair \in Join <=> Joins(cursor_, j)
  BY <1>1, <1>2, <1>4 DEF Join
<1>6. Join' = Join
  BY <1>3 DEF Join, Joins
<1>7. /\ \A m, n \in DOMAIN joined : m < n => Before(joined[m], joined[n])
      /\ {joined[m] : m \in DOMAIN joined} = {p \in Join : Passed(p)}
  BY <1>2 DEF PlanInv
<1>8. ASSUME NEW p \in Join
      PROVE  /\ Passed(p)' <=> Passed(p) \/ p = pair
             /\ Passed(p) => Before(p, pair)
  <2>1. p = <<p[1], p[2]>> /\ p[1] \in Nat /\ p[2] \in Nat
    BY JoinPairs
  <2>2. pair[1] = cursor_ /\ pair[2] = j /\ (p = pair <=> p[1] = cursor_ /\ p[2] = j)
    BY <1>1, <2>1
  <2>3. \A k \in 1 .. index : k \in 1 .. right_index_ \/ k = index
    BY <1>1, <1>2
  <2>4. \A k \in 1 .. right_index_ : k \in 1 .. index /\ k < index /\ k \in DOMAIN right_rows_
    BY <1>1, <1>2
  <2>5. index \in 1 .. index /\ index \in DOMAIN right_rows_ /\ current_left_ # 0
    BY <1>2
  <2>6. (\E k \in 1 .. index : right_rows_[k] = p[2])
           <=> (\E k \in 1 .. right_index_ : right_rows_[k] = p[2]) \/ j = p[2]
    BY <1>1, <2>3, <2>4, <2>5
  <2>7. Passed(p)' <=> p[1] < cursor_ \/ (p[1] = cursor_ /\ \E k \in 1 .. index : right_rows_[k] = p[2])
    BY <1>3, <2>5 DEF Passed
  <2>8. Passed(p) <=> p[1] < cursor_ \/ (p[1] = cursor_ /\ \E k \in 1 .. right_index_ : right_rows_[k] = p[2])
    BY <2>5 DEF Passed
  <2>9. \A k \in 1 .. right_index_ : right_rows_[k] < j
    BY <1>1, <1>2, <2>4, <2>5 DEF RightRows
  <2> QED
    BY <2>2, <2>6, <2>7, <2>8, <2>9 DEF Before
<1>9. /\ joined' \in Seq(Nat \X Nat)
      /\ \A m, n \in DOMAIN joined' : m < n => Before(joined'[m], joined'[n])
      /\ {joined'[m] : m \in DOMAIN joined'} = {p \in Join : Passed(p)'}
  <2>1. CASE ~Joins(cursor_, j) /\ joined' = joined
    BY <1>2, <1>5, <1>7, <1>8, <2>1
  <2>2. CASE Joins(cursor_, j) /\ joined' = Append(joined, pair)
    <3>1. PICK count, longer : count = Len(joined) /\ longer = Append(joined, pair)
      OBVIOUS
    <3>2. pair \in Nat \X Nat
      BY <1>1, <1>2
    <3>3. /\ count \in Nat /\ DOMAIN joined = 1 .. count
          /\ longer \in Seq(Nat \X Nat) /\ DOMAIN longer = 1 .. count + 1
          /\ \A m \in 1 .. count : longer[m] = joined[m]
          /\ longer[count + 1] = pair
      BY <1>2, <3>1, <3>2, AppendProperties, LenProperties
    <3>4. /\ \A m \in 1 .. count + 1 : m \in 1 .. count \/ m = count + 1
          /\ \A m \in 1 .. count : m \in 1 .. count + 1
      BY <3>3
    <3>5. {longer[m] : m \in DOMAIN longer} = {joined[m] : m \in DOMAIN joined} \cup {pair}
      <4>1. \A m \in DOMAIN longer :
               longer[m] = pair \/ \E n \in DOMAIN joined : longer[m] = joined[n]
        BY <3>3, <3>4
      <4>2. \A m \in DOMAIN joined : m \in DOMAIN longer /\ longer[m] = joined[m]
        BY <3>3, <3>4
      <4>3. count + 1 \in DOMAIN longer
        BY <3>3
      <4> QED
        BY <3>3, <4>1, <4>2, <4>3
    <3>6. {longer[m] : m \in DOMAIN longer} = {p \in Join : Passed(p)'}
      BY <1>5, <1>7, <1>8, <2>2, <3>5
    <3>7. ASSUME NEW m \in DOMAIN longer, NEW n \in DOMAIN longer, m < n
          PROVE  Before(longer[m], longer[n])
      <4>1. m \in 1 .. count /\ (n \in 1 .. count \/ n = count + 1)
        <5>1. m \in 1 .. count + 1 /\ n \in 1 .. count + 1 /\ count \in Nat
          BY <3>3
        <5> QED
          BY ONLY <5>1, <3>7
      <4>2. joined[m] \in Join /\ Passed(joined[m])
        BY <1>7, <3>3, <4>1
      <4>3. Before(joined[m], pair)
        BY <1>8, <4>2
      <4> QED
        BY <1>7, <3>3, <3>7, <4>1, <4>3
    <3> QED
      BY <2>2, <3>1, <3>3, <3>6, <3>7
  <2> QED
    BY <1>3, <2>1, <2>2
<1>10. PlanTypes' /\ RightRows' /\ doing' \in {"idle", "next"}
  BY <1>2, <1>3, <1>9 DEF PlanInv, PlanTypes, RightRows
<1>11. /\ right_index_' \in 0 .. Len(right_rows_')
       /\ opened_' /\ current_left_' = cursor_' /\ cursor_' > 0
  BY <1>2, <1>3
<1> QED
  BY <1>6, <1>9, <1>10, <1>11 DEF PlanInv

(* The last right row is passed: so is the left row with all its pairs. *)
LEMMA LeftRowPassed ==
    ASSUME PlanInv, NextLeft, NEW p \in Join
    PROVE  Passed(p) <=> p[1] <= cursor_
<1>1. /\ p[1] \in Nat /\ \E k \in DOMAIN right_rows_ : right_rows_[k] = p[2]
      /\ cursor_ \in Nat /\ DOMAIN right_rows_ = 1 .. right_index_
  <2>1. opened_ /\ right_rows_ \in Seq(Nat) /\ right_index_ \in 0 .. Len(right_rows_)
        /\ right_index_ >= Len(right_rows_) /\ cursor_ \in Nat
    BY LenProperties DEF PlanInv, PlanTypes, NextLeft
  <2>2. PICK n \in Nat : n = Len(right_rows_) /\ DOMAIN right_rows_ = 1 .. n
    BY <2>1, LenProperties
  <2>3. right_index_ = n
    <3>1. right_index_ \in 0 .. n /\ right_index_ >= n
      BY <2>1, <2>2
    <3> QED
      BY <3>1
  <2> QED
    BY <2>1, <2>2, <2>3, JoinPairs
<1> QED
  BY <1>1 DEF Passed

(* The next left row, or none. *)
LEMMA NextLeftPlan ==
    ASSUME PlanInv, NextLeft
    PROVE  /\ PlanInv'
           /\ current_left_' = 0 => {joined[m] : m \in DOMAIN joined} = Join
<1>1. /\ doing = "next" /\ opened_ /\ current_left_ = cursor_ /\ cursor_ > 0 /\ RightRows
      /\ right_rows_ \in Seq(Nat) /\ Len(right_rows_) \in Nat
      /\ left \in Seq(Values) /\ Len(left) \in Nat /\ cursor_ \in 0 .. Len(left)
  BY LenProperties DEF PlanInv, PlanTypes, NextLeft
<1>2. /\ UNCHANGED <<left, right, opened_, right_cursor_, right_rows_, doing, joined>>
      /\ right_index_' = 0
      /\ \/ cursor_ < Len(left) /\ cursor_' = cursor_ + 1 /\ current_left_' = cursor_ + 1
         \/ ~(cursor_ < Len(left)) /\ cursor_' = cursor_ /\ current_left_' = 0
  BY <1>1 DEF NextLeft, HasRow, NextRow, IndexOfNextLeft
<1>3. Join' = Join
  BY <1>2 DEF Join, Joins
<1>4. /\ \A m, n \in DOMAIN joined : m < n => Before(joined[m], joined[n])
      /\ {joined[m] : m \in DOMAIN joined} = {p \in Join : p[1] <= cursor_}
  <2>1. /\ \A m, n \in DOMAIN joined : m < n => Before(joined[m], joined[n])
        /\ {joined[m] : m \in DOMAIN joined} = {p \in Join : Passed(p)}
    BY <1>1 DEF PlanInv
  <2> QED
    BY <2>1, LeftRowPassed
<1>5. \A p \in Join : Passed(p)' <=> p[1] <= cursor_
  <2>1. SUFFICES ASSUME NEW p \in Join
                 PROVE  Passed(p)' <=> p[1] <= cursor_
    OBVIOUS
  <2>2. p[1] \in Nat
    BY JoinPairs
  <2>3. CASE cursor_' = cursor_ + 1 /\ current_left_' = cursor_ + 1
    BY <1>1, <1>2, <2>2, <2>3 DEF Passed
  <2>4. CASE cursor_' = cursor_ /\ current_left_' = 0
    BY <1>1, <1>2, <2>2, <2>4 DEF Passed
  <2> QED
    BY <1>2, <2>3, <2>4
<1>6. PlanTypes' /\ RightRows'
  BY <1>1, <1>2 DEF PlanInv, PlanTypes, RightRows
<1>7. /\ right_index_' \in 0 .. Len(right_rows_') /\ opened_'
      /\ current_left_' # 0 => current_left_' = cursor_' /\ cursor_' > 0
  BY <1>1, <1>2
<1>8. {joined'[m] : m \in DOMAIN joined'} = {p \in Join : Passed(p)'}
  BY <1>2, <1>4, <1>5
<1>9. PlanInv'
  BY <1>1, <1>2, <1>3, <1>4, <1>6, <1>7, <1>8 DEF PlanInv
<1>10. current_left_' = 0 => \A p \in Join : p[1] <= cursor_
  <2>1. \A p \in Join : p[1] \in 1 .. Len(left)
    BY JoinPairs
  <2> QED
    BY <1>1, <1>2, <2>1
<1> QED
  BY <1>4, <1>9, <1>10

(* A row more leaves the others where they were. *)
LEMMA RowInserted ==
    ASSUME NEW table \in Seq(Values), NEW value \in Values,
           NEW longer, longer = table \/ longer = Append(table, value)
    PROVE  /\ longer \in Seq(Values) /\ Len(longer) \in Nat /\ DOMAIN longer = 1 .. Len(longer)
           /\ Len(longer) >= Len(table)
           /\ \A i \in 1 .. Len(table) : longer[i] = table[i]
<1>1. CASE longer = table
  BY <1>1, LenProperties
<1>2. CASE longer = Append(table, value)
  <2>1. /\ Append(table, value) \in Seq(Values) /\ Len(Append(table, value)) = Len(table) + 1
        /\ \A i \in 1 .. Len(table) : Append(table, value)[i] = table[i]
    BY AppendProperties
  <2> QED
    BY <1>2, <2>1, LenProperties
<1> QED
  BY <1>1, <1>2

(* A row is inserted between two calls. *)
LEMMA InsertPlan ==
    ASSUME PlanInv, NEW value \in Values, InsertLeft(value) \/ InsertRight(value)
    PROVE  PlanInv'
<1>1. /\ left \in Seq(Values) /\ right \in Seq(Values) /\ Len(left) \in Nat /\ Len(right) \in Nat
      /\ DOMAIN left = 1 .. Len(left) /\ DOMAIN right = 1 .. Len(right)
      /\ cursor_ \in 0 .. Len(left) /\ right_cursor_ \in 0 .. Len(right) /\ doing = "idle"
  BY LenProperties DEF PlanInv, PlanTypes, InsertLeft, InsertRight
<1>2. /\ UNCHANGED <<cursor_, opened_, right_cursor_, current_left_, right_rows_, right_index_,
                     doing, joined>>
      /\ left' = left \/ left' = Append(left, value)
      /\ right' = right \/ right' = Append(right, value)
  BY DEF InsertLeft, InsertRight, plan
<1>3. /\ left' \in Seq(Values) /\ Len(left') \in Nat /\ Len(left') >= Len(left)
      /\ DOMAIN left' = 1 .. Len(left')
      /\ \A i \in 1 .. Len(left) : left'[i] = left[i]
  <2>1. PICK longer : longer = left' /\ (longer = left \/ longer = Append(left, value))
    BY <1>2
  <2>2. /\ longer \in Seq(Values) /\ Len(longer) \in Nat /\ DOMAIN longer = 1 .. Len(longer)
        /\ Len(longer) >= Len(left)
        /\ \A i \in 1 .. Len(left) : longer[i] = left[i]
    BY <1>1, <2>1, RowInserted
  <2> QED
    BY <2>1, <2>2
<1>4. /\ right' \in Seq(Values) /\ Len(right') \in Nat /\ Len(right') >= Len(right)
      /\ \A i \in 1 .. Len(right) : right'[i] = right[i]
  <2>1. PICK longer : longer = right' /\ (longer = right \/ longer = Append(right, value))
    BY <1>2
  <2>2. /\ longer \in Seq(Values) /\ Len(longer) \in Nat /\ DOMAIN longer = 1 .. Len(longer)
        /\ Len(longer) >= Len(right)
        /\ \A i \in 1 .. Len(right) : longer[i] = right[i]
    BY <1>1, <2>1, RowInserted
  <2> QED
    BY <2>1, <2>2
<1>5. PlanTypes'
  <2>1. \A m, n \in Nat : m <= n => 0 .. m \subseteq 0 .. n
    OBVIOUS
  <2>2. cursor_ \in 0 .. Len(left') /\ right_cursor_ \in 0 .. Len(right')
    BY <1>1, <1>3, <1>4, <2>1
  <2> QED
    BY <1>2, <1>3, <1>4, <2>2 DEF PlanInv, PlanTypes
<1>6. RightRows => RightRows'
  <2>1. \A j \in 1 .. right_cursor_ : right'[j] = right[j]
    BY <1>1, <1>4
  <2> QED
    BY <1>2, <2>1 DEF RightRows
<1>7. {p \in Join' : Passed(p)'} = {p \in Join : Passed(p)}
  <2>1. \A p : Passed(p)' <=> Passed(p)
    BY <1>2 DEF Passed
  <2>2. ASSUME NEW p, p[1] \in 1 .. Len(left)
        PROVE  p \in Join' <=> p \in Join
    <3>1. p[1] \in 1 .. Len(left') /\ left'[p[1]] = left[p[1]]
      BY <1>1, <1>3, <2>2
    <3>2. \A j \in 1 .. right_cursor_ : right'[j] = right[j]
      BY <1>1, <1>4
    <3>3. p \in Join' <=> /\ p \in (1 .. Len(left')) \X (1 .. right_cursor_)
                               /\ right'[p[2]] \in Selected /\ left'[p[1]] = right'[p[2]]
      BY <1>2, <1>3 DEF Join, Joins
    <3>4. p \in Join <=> /\ p \in (1 .. Len(left)) \X (1 .. right_cursor_)
                              /\ right[p[2]] \in Selected /\ left[p[1]] = right[p[2]]
      BY <1>1 DEF Join, Joins
    <3>5. /\ p \in (1 .. Len(left')) \X (1 .. right_cursor_) => p[2] \in 1 .. right_cursor_
          /\ p \in (1 .. Len(left)) \X (1 .. right_cursor_) => p[2] \in 1 .. right_cursor_
          /\ p \in (1 .. Len(left')) \X (1 .. right_cursor_)
                <=> p \in (1 .. Len(left)) \X (1 .. right_cursor_)
      BY <2>2, <3>1
    <3> QED
      BY <3>1, <3>2, <3>3, <3>4, <3>5
  <2>3. \A p \in Join : p[1] \in 1 .. Len(left)
    BY <1>1 DEF Join
  <2>4. ASSUME NEW p \in Join', Passed(p)
        PROVE  p[1] \in 1 .. Len(left)
    <3>1. p[1] \in 1 .. Len(left')
      BY <1>3 DEF Join
    <3>2. p[1] <= cursor_
      BY <1>1, <2>4, <3>1 DEF Passed
    <3> QED
      BY <1>1, <1>3, <3>1, <3>2
  <2> QED
    BY <2>1, <2>2, <2>3, <2>4
<1> QED
  BY <1>1, <1>2, <1>5, <1>6, <1>7 DEF PlanInv

(* Whatever the caller does, in any order. *)
LEMMA NextPlan == PlanInv /\ [PlanNext]_(plan_vars) => PlanInv'
<1> SUFFICES ASSUME PlanInv, [PlanNext]_(plan_vars)
             PROVE  PlanInv'
  OBVIOUS
<1>1. CASE CallNext \/ ReturnNothing
  <2>1. /\ UNCHANGED <<left, right, cursor_, opened_, right_cursor_, current_left_, right_rows_,
                       right_index_, joined>>
        /\ doing # "open" /\ doing' \in {"idle", "next"}
    BY <1>1 DEF CallNext, ReturnNothing, plan
  <2>2. Join' = Join /\ (\A p : Passed(p)' <=> Passed(p)) /\ RightRows' = RightRows
    BY <2>1 DEF Join, Joins, Passed, RightRows
  <2>3. PlanTypes'
    BY <2>1 DEF PlanInv, PlanTypes
  <2> QED
    BY <2>1, <2>2, <2>3 DEF PlanInv
<1>2. CASE ClosePlan
  <2>1. /\ UNCHANGED <<left, right, cursor_, right_cursor_, joined>> /\ ~opened_' /\ doing' = "idle"
        /\ current_left_' = 0 /\ right_rows_' = <<>> /\ right_index_' = 0
    BY <1>2 DEF ClosePlan
  <2>2. PlanTypes' /\ right_index_' \in 0 .. Len(right_rows_')
    BY <2>1, EmptySeq DEF PlanInv, PlanTypes
  <2> QED
    BY <2>1, <2>2 DEF PlanInv
<1>3. CASE UNCHANGED plan_vars
  <2>1. UNCHANGED <<left, right, cursor_, opened_, right_cursor_, current_left_, right_rows_,
                    right_index_, doing, joined>>
    BY <1>3 DEF plan_vars
  <2>2. Join' = Join /\ (\A p : Passed(p)' <=> Passed(p)) /\ RightRows' = RightRows
    BY <2>1 DEF Join, Joins, Passed, RightRows
  <2>3. PlanTypes'
    BY <2>1 DEF PlanInv, PlanTypes
  <2> QED
    BY <2>1, <2>2, <2>3 DEF PlanInv
<1>4. CASE Running
  BY <1>1, <1>4, ReadRightPlan, OpenLeftPlan, CompareNextPlan, NextLeftPlan DEF Running
<1> QED
  BY <1>1, <1>2, <1>3, <1>4, OpenPlan, InsertPlan DEF PlanNext

(* The invariant of the plan. *)
LEMMA PlanInvariant == PlanSpec => []PlanInv
  BY InitPlan, NextPlan, PTL DEF PlanSpec

(* An open plan has returned a beginning of its join, for any tables and
   whatever was inserted, opened and closed before (NestedLoopJoin, with
   Selection and SeqScan). *)
THEOREM PlanReturnsJoin == PlanSpec => []ReturnsJoin
<1>1. PlanInv => ReturnsJoin
  <2>1. SUFFICES ASSUME PlanInv, opened_
                 PROVE  /\ \A m, n \in DOMAIN joined : m < n => Before(joined[m], joined[n])
                        /\ {joined[m] : m \in DOMAIN joined} \subseteq Join
                        /\ \A p \in Join \ {joined[m] : m \in DOMAIN joined},
                              q \in {joined[m] : m \in DOMAIN joined} : Before(q, p)
    BY DEF ReturnsJoin, ToSet
  <2>2. CASE doing = "open"
    <3>1. DOMAIN joined = {}
      BY <2>1, <2>2, EmptySeq DEF PlanInv
    <3> QED
      BY <3>1
  <2>3. CASE doing # "open"
    <3>1. /\ \A m, n \in DOMAIN joined : m < n => Before(joined[m], joined[n])
          /\ {joined[m] : m \in DOMAIN joined} = {p \in Join : Passed(p)}
      BY <2>1, <2>3 DEF PlanInv
    <3>2. ASSUME NEW p \in Join, ~Passed(p), NEW q \in Join, Passed(q)
          PROVE  Before(q, p)
      <4>1. p[1] \in Nat /\ p[2] \in Nat /\ q[1] \in Nat /\ q[2] \in Nat
        BY <2>1, JoinPairs
      <4>2. cursor_ \in Nat
        BY <2>1 DEF PlanInv, PlanTypes
      <4>3. q[1] <= cursor_ /\ p[1] >= cursor_
        BY <3>2, <4>1, <4>2 DEF Passed
      <4>4. CASE q[1] < cursor_ \/ p[1] > cursor_
        BY <4>1, <4>2, <4>3, <4>4 DEF Before
      <4>5. CASE q[1] = cursor_ /\ p[1] = cursor_
        <5>1. PICK k \in 1 .. right_index_ : right_rows_[k] = q[2]
          BY <3>2, <4>2, <4>5 DEF Passed
        <5>2. PICK l \in DOMAIN right_rows_ : right_rows_[l] = p[2]
          BY <2>1, JoinPairs
        <5>3. /\ DOMAIN right_rows_ = 1 .. Len(right_rows_) /\ Len(right_rows_) \in Nat
              /\ right_index_ \in 0 .. Len(right_rows_)
          BY <2>1, <2>3, LenProperties DEF PlanInv, PlanTypes
        <5>4. l \notin 1 .. right_index_
          BY <3>2, <4>5, <5>2 DEF Passed
        <5>5. k < l /\ k \in DOMAIN right_rows_
          BY <5>3, <5>4
        <5>6. q[2] < p[2]
          BY <2>1, <5>1, <5>2, <5>5 DEF PlanInv, RightRows
        <5> QED
          BY <4>5, <5>6 DEF Before
      <4> QED
        BY <4>1, <4>2, <4>3, <4>4, <4>5
    <3> QED
      BY <3>1, <3>2
  <2> QED
    BY <2>2, <2>3
<1> QED
  BY <1>1, PlanInvariant, PTL

(* When the left side ends, within next or because it is empty at open, the plan
   has returned the whole join of that moment; rows that the left side gets
   afterwards are not returned. *)
THEOREM PlanReturnsAll == PlanSpec => ReturnsAll
<1> DEFINE ends == \/ current_left_ # 0 /\ doing' = "next"
                   \/ doing = "open" /\ doing' = "idle"
<1>1. PlanInv /\ [PlanNext]_(plan_vars)
         => [opened_' /\ ends /\ current_left_' = 0 => ToSet(joined') = Join']_(plan_vars)
  <2> SUFFICES ASSUME PlanInv, PlanNext, opened_', ends, current_left_' = 0
               PROVE  ToSet(joined') = Join'
    OBVIOUS
  <2>1. NextLeft \/ OpenLeft
    BY DEF PlanNext, Open, CallNext, Running, ReadRight, OpenLeft,
           CompareNext, ReturnNothing, ClosePlan, InsertLeft, InsertRight,
           plan
  <2>2. CASE NextLeft
    <3>1. current_left_ # 0 /\ UNCHANGED <<left, right, right_cursor_, joined>>
      BY <2>2 DEF NextLeft
    <3>2. ToSet(joined) = Join
      BY <2>2, <3>1, NextLeftPlan DEF ToSet
    <3>3. Join' = Join
      BY <3>1 DEF Join, Joins
    <3> QED
      BY <3>1, <3>2, <3>3
  <2>3. CASE OpenLeft
    <3>1. joined' = <<>> /\ ~HasRow(left, 0) /\ left' = left
      BY <2>3 DEF OpenLeft, PlanInv, CursorAtOpen, NextRow
    <3>2. DOMAIN left = {}
      BY <3>1, LenProperties DEF HasRow, PlanInv, PlanTypes
    <3>3. Join' = {}
      BY <3>1, <3>2 DEF Join
    <3>4. ToSet(joined') = {}
      BY <3>1, EmptySeq DEF ToSet
    <3> QED
      BY <3>3, <3>4
  <2> QED
    BY <2>1, <2>2, <2>3
<1> QED
  BY <1>1, PlanInvariant, PTL DEF PlanSpec, ReturnsAll

-----------------------------------------------------------------------------
(* The directory of a database: what the catalog and the files have of the
   tables the program knows, while it persists them and after it failed to. *)

IsMap(map) == map = [t \in DOMAIN map |-> map[t]]

IsSequence(s) == \E S : s \in Seq(S)

\* What is known of tables has a file; a table is acknowledged, and in the
\* catalog, only after its creation.
TablesKnown ==
    /\ DOMAIN schemas_ \subseteq DOMAIN table_files
    /\ DOMAIN table_files \subseteq Tables
    /\ creating \subseteq DOMAIN schemas_
    /\ DOMAIN acknowledged \subseteq DOMAIN table_files \ creating
    /\ DOMAIN catalog.lines \subseteq DOMAIN table_files \ creating

FilesFilled ==
    /\ \A t \in DOMAIN table_files : IsSequence(table_files[t])
    /\ DOMAIN inserted = Tables
    /\ \A t \in Tables : IsSequence(inserted[t])
    /\ \A t \in creating : table_files[t] = <<>>

CatalogFollows ==
    /\ stage \in {"open", "closed", "write", "rename", "rename_again"}
    /\ stage \in {"open", "closed"} => creating = {}
    /\ stage # "closed" => catalog = NoCatalog \/ Loaded = SchemasAfterFailure
    /\ stage \in {"rename", "rename_again"} => temporary = Contents

\* The catalog and the files of a database, whatever failed.
DbInv ==
    /\ IsMap(schemas_) /\ IsMap(table_files) /\ IsMap(catalog.lines) /\ IsMap(inserted)
    /\ TablesKnown
    /\ FilesFilled
    /\ CatalogFollows

(* What load_catalog makes of the lines. *)
LEMMA LoadedMap ==
    ASSUME IsMap(catalog.lines)
    PROVE  IsMap(Loaded) /\ DOMAIN Loaded = DOMAIN catalog.lines
  BY DEF IsMap, Loaded

(* An empty catalog, and none. *)
LEMMA NoTablesMap ==
    /\ IsMap(NoTables) /\ DOMAIN NoTables = {}
    /\ NoCatalog.lines = NoTables /\ NoCatalog.header = "none"
  BY DEF IsMap, NoTables, NoCatalog

(* Nothing is taken away. *)
LEMMA WithoutNothing ==
    ASSUME NEW m, IsMap(m)
    PROVE  Without(m, {}) = m
  BY DEF IsMap, Without, Restrict

(* Some tables are taken away. *)
LEMMA WithoutMap ==
    ASSUME NEW m, NEW T
    PROVE  /\ IsMap(Without(m, T)) /\ DOMAIN Without(m, T) = DOMAIN m \ T
           /\ \A t \in DOMAIN m \ T : Without(m, T)[t] = m[t]
  BY DEF IsMap, Without, Restrict

(* A table is added, and taken away again. *)
LEMMA ExtendedMap ==
    ASSUME NEW m, NEW table, NEW value
    PROVE  /\ IsMap(Extended(m, table, value))
           /\ DOMAIN Extended(m, table, value) = DOMAIN m \cup {table}
           /\ Extended(m, table, value)[table] = value
           /\ \A t \in DOMAIN m : t # table => Extended(m, table, value)[t] = m[t]
           /\ IsMap(m) /\ table \notin DOMAIN m => Without(Extended(m, table, value), {table}) = m
<1>1. /\ IsMap(Extended(m, table, value))
           /\ DOMAIN Extended(m, table, value) = DOMAIN m \cup {table}
           /\ Extended(m, table, value)[table] = value
           /\ \A t \in DOMAIN m : t # table => Extended(m, table, value)[t] = m[t]
  BY DEF IsMap, Extended
<1>2. ASSUME IsMap(m), table \notin DOMAIN m
      PROVE  Without(Extended(m, table, value), {table}) = m
  <2>1. PICK longer : longer = Extended(m, table, value)
    OBVIOUS
  <2>2. (DOMAIN longer) \ {table} = DOMAIN m /\ \A t \in DOMAIN m : longer[t] = m[t]
    BY <1>1, <1>2, <2>1
  <2>3. Without(longer, {table}) = [t \in DOMAIN m |-> m[t]]
    BY <2>2 DEF Without, Restrict
  <2> QED
    BY <1>2, <2>1, <2>3 DEF IsMap
<1> QED
  BY <1>1, <1>2

(* A record more. *)
LEMMA LongerSequence ==
    ASSUME NEW s, IsSequence(s), NEW e
    PROVE  IsSequence(Append(s, e)) /\ Len(Append(s, e)) = Len(s) + 1
<1>1. PICK S : s \in Seq(S)
  BY DEF IsSequence
<1>2. s \in Seq(S \cup {e}) /\ Len(s) \in Nat
  BY <1>1, LenProperties, SeqMonotonic
<1> QED
  BY <1>2, AppendProperties DEF IsSequence

LEMMA EmptyIsSequence == IsSequence(<<>>)
  BY EmptySeq DEF IsSequence

(* A directory as a program may find it. *)
LEMMA StartKeeps ==
    ASSUME DirectoryInit
    PROVE  DbInv /\ CatalogKeeps
<1>1. temporary = NoCatalog /\ schemas_ = NoTables /\ stage = "closed" /\ creating = {}
  BY DEF DirectoryInit, NotOpen
<1>2. CASE StartEmpty
  <2>1. /\ catalog = NoCatalog /\ table_files = NoTables /\ acknowledged = NoTables
        /\ inserted = [t \in Tables |-> <<>>]
    BY <1>2 DEF StartEmpty
  <2>2. IsMap(inserted) /\ DOMAIN inserted = Tables /\ \A t \in Tables : inserted[t] = <<>>
    BY <2>1 DEF IsMap
  <2> QED
    BY <1>1, <2>1, <2>2, NoTablesMap, EmptyIsSequence
       DEF DbInv, TablesKnown, FilesFilled, CatalogFollows, CatalogKeeps
<1>3. ASSUME NEW directory, IsDirectory(directory), StartWith(directory)
      PROVE  DbInv /\ CatalogKeeps
  <2> DEFINE known == DOMAIN directory.tables
             rows == [t \in known |-> directory.tables[t].rows]
             schemas == [t \in known |-> Integers_(directory.tables[t].columns)]
             record(t) == [n \in DOMAIN rows[t] |-> StoredRow(directory, rows[t][n])]
  <2>1. known \subseteq Tables /\ \A t \in known : IsSequence(rows[t])
    BY <1>3 DEF IsDirectory, IsSequence
  <2>2. /\ catalog = [header |-> Header(directory), lines |-> schemas]
        /\ DOMAIN table_files = known /\ IsMap(table_files)
        /\ \A t \in known : table_files[t] = record(t)
        /\ acknowledged = schemas
        /\ IsMap(inserted) /\ DOMAIN inserted = Tables
        /\ \A t \in known : inserted[t] = rows[t]
        /\ \A t \in Tables \ known : inserted[t] = <<>>
    BY <1>3, <2>1 DEF StartWith, IsMap
  <2>3. \A t \in known : IsSequence(table_files[t]) /\ Len(table_files[t]) = Len(inserted[t])
    <3>1. SUFFICES ASSUME NEW t \in known
                   PROVE  IsSequence(record(t)) /\ Len(record(t)) = Len(rows[t])
      BY <2>2
    <3>2. PICK s, r : s = rows[t] /\ r = record(t)
      OBVIOUS
    <3>3. PICK S : s \in Seq(S)
      BY <2>1, <3>2 DEF IsSequence
    <3>4. PICK n \in Nat : n = Len(s) /\ DOMAIN s = 1 .. n
      BY <3>3, LenProperties
    <3>5. r = [i \in 1 .. n |-> StoredRow(directory, s[i])]
      BY <3>2, <3>4
    <3>6. r \in [1 .. n -> {r[i] : i \in 1 .. n}]
      BY <3>5
    <3>7. r \in Seq({r[i] : i \in 1 .. n}) /\ Len(r) = n
      BY <3>6, LenProperties, SeqDef
    <3> QED
      BY <3>2, <3>4, <3>7 DEF IsSequence
  <2>4. IsMap(catalog.lines) /\ DOMAIN catalog.lines = known /\ DOMAIN acknowledged = known
    BY <2>2 DEF IsMap
  <2>5. \A t \in Tables : IsSequence(inserted[t])
    BY <2>1, <2>2, EmptyIsSequence
  <2>6. \A t \in known : Loaded[t] = acknowledged[t]
    BY <2>2 DEF Loaded, Header, Integers_
  <2>7. DbInv
    BY <1>1, <2>1, <2>2, <2>3, <2>4, <2>5, NoTablesMap
       DEF DbInv, TablesKnown, FilesFilled, CatalogFollows
  <2> QED
    BY <2>2, <2>3, <2>4, <2>6, <2>7 DEF CatalogKeeps
<1> QED
  BY <1>2, <1>3 DEF DirectoryInit

(* Each step keeps the invariant, and what was acknowledged. *)
LEMMA LoadCatalogKeeps ==
    ASSUME DbInv, LoadCatalog
    PROVE  DbInv' /\ (CatalogKeeps => CatalogKeeps')
<1>1. /\ UNCHANGED <<catalog, temporary, table_files, creating, acknowledged, inserted>>
      /\ schemas_' = Loaded /\ stage' = "open" /\ stage = "closed"
  BY DEF LoadCatalog
<1>2. IsMap(Loaded) /\ DOMAIN Loaded = DOMAIN catalog.lines /\ creating = {}
  BY <1>1, LoadedMap DEF DbInv, CatalogFollows
<1>3. Loaded' = Loaded
  BY <1>1 DEF Loaded
<1>4. SchemasAfterFailure' = Loaded
  <2>1. PICK m : m = Loaded
    OBVIOUS
  <2>2. schemas_' = m /\ creating' = {}
    BY <1>1, <1>2, <2>1
  <2>3. SchemasAfterFailure' = Without(m, {})
    BY <2>2 DEF SchemasAfterFailure, Without, Restrict
  <2> QED
    BY <1>2, <2>1, <2>3, WithoutNothing
<1>5. IsMap(schemas_') /\ IsMap(table_files') /\ IsMap(catalog.lines)' /\ IsMap(inserted')
  BY <1>1, <1>2 DEF DbInv
<1>6. TablesKnown' /\ FilesFilled'
  BY <1>1, <1>2 DEF DbInv, TablesKnown, FilesFilled
<1>7. CatalogFollows'
  BY <1>1, <1>2, <1>3, <1>4 DEF CatalogFollows
<1> QED
  BY <1>1, <1>3, <1>5, <1>6, <1>7 DEF DbInv, CatalogKeeps

(* The constructor makes a catalog. *)
LEMMA NewCatalogKeeps ==
    ASSUME DbInv, NewCatalog
    PROVE  DbInv' /\ (CatalogKeeps => CatalogKeeps')
<1>1. /\ UNCHANGED <<catalog, temporary, table_files, creating, acknowledged, inserted>>
      /\ schemas_' = NoTables /\ stage' = "write" /\ stage = "closed" /\ catalog = NoCatalog
  BY DEF NewCatalog
<1>2. creating = {} /\ Loaded' = Loaded /\ NoCatalog' = NoCatalog
  BY <1>1 DEF DbInv, CatalogFollows, Loaded, NoCatalog, NoTables
<1>3. TablesKnown' /\ FilesFilled' /\ CatalogFollows'
  BY <1>1, <1>2, NoTablesMap DEF DbInv, TablesKnown, FilesFilled, CatalogFollows
<1>4. IsMap(schemas_') /\ IsMap(table_files') /\ IsMap(catalog.lines)' /\ IsMap(inserted')
  BY <1>1, NoTablesMap DEF DbInv
<1> QED
  BY <1>1, <1>2, <1>3, <1>4 DEF DbInv, CatalogKeeps

(* CREATE TABLE makes the file, and the schema in memory. *)
LEMMA CreateTableKeeps ==
    ASSUME DbInv, NEW table \in Tables, NEW schema, CreateTable(table, schema)
    PROVE  DbInv' /\ (CatalogKeeps => CatalogKeeps')
<1>1. PICK m, f : m = Extended(schemas_, table, schema) /\ f = Extended(table_files, table, <<>>)
  OBVIOUS
<1>2. /\ UNCHANGED <<catalog, temporary, acknowledged, inserted>>
      /\ schemas_' = m /\ table_files' = f /\ creating' = {table}
      /\ stage' = "write" /\ stage = "open"
      /\ table \notin DOMAIN schemas_ /\ table \notin DOMAIN table_files
  BY <1>1 DEF CreateTable, Creatable
<1>3. creating = {} /\ IsMap(schemas_) /\ (catalog = NoCatalog \/ Loaded = SchemasAfterFailure)
  BY <1>2 DEF DbInv, CatalogFollows
<1>4. /\ IsMap(m) /\ DOMAIN m = DOMAIN schemas_ \cup {table}
      /\ Without(m, {table}) = schemas_
  BY <1>1, <1>2, <1>3, ExtendedMap
<1>5. /\ IsMap(f) /\ DOMAIN f = DOMAIN table_files \cup {table}
      /\ f[table] = <<>> /\ \A t \in DOMAIN table_files : f[t] = table_files[t]
  <2>1. PICK value : value = <<>>
    OBVIOUS
  <2>2. f = Extended(table_files, table, value)
    BY <1>1, <2>1
  <2>3. /\ IsMap(f) /\ DOMAIN f = DOMAIN table_files \cup {table} /\ f[table] = value
        /\ \A t \in DOMAIN table_files : t # table => f[t] = table_files[t]
    BY <2>2 DEF Extended, IsMap
  <2> QED
    BY <1>2, <2>1, <2>3
<1>6. SchemasAfterFailure = schemas_
  BY <1>3, WithoutNothing DEF SchemasAfterFailure
<1>7. SchemasAfterFailure' = schemas_
  <2>1. SchemasAfterFailure' = Without(m, {table})
    BY <1>2 DEF SchemasAfterFailure, Without, Restrict
  <2> QED
    BY <1>4, <2>1
<1>8. Loaded' = Loaded /\ NoCatalog' = NoCatalog
  BY <1>2 DEF Loaded, NoCatalog, NoTables
<1>9. TablesKnown'
  BY <1>2, <1>3, <1>4, <1>5 DEF DbInv, TablesKnown
<1>10. FilesFilled'
  BY <1>2, <1>5, EmptyIsSequence DEF DbInv, FilesFilled
<1>11. CatalogFollows'
  BY <1>2, <1>3, <1>6, <1>7, <1>8 DEF CatalogFollows
<1>12. CatalogKeeps => CatalogKeeps'
  BY <1>2, <1>5, <1>8 DEF CatalogKeeps
<1> QED
  BY <1>2, <1>4, <1>5, <1>9, <1>10, <1>11, <1>12 DEF DbInv

(* The temporary file is written. *)
LEMMA WriteTemporaryKeeps ==
    ASSUME DbInv, WriteTemporary
    PROVE  DbInv' /\ (CatalogKeeps => CatalogKeeps')
<1>1. /\ UNCHANGED <<catalog, table_files, schemas_, creating, acknowledged, inserted>>
      /\ temporary' = Contents /\ stage' = "rename" /\ stage = "write"
  BY DEF WriteTemporary
<1>2. /\ Loaded' = Loaded /\ NoCatalog' = NoCatalog /\ Contents' = Contents
      /\ SchemasAfterFailure' = SchemasAfterFailure
  BY <1>1 DEF Loaded, NoCatalog, NoTables, Contents, SchemasAfterFailure
<1>3. TablesKnown' /\ FilesFilled' /\ CatalogFollows'
  BY <1>1, <1>2 DEF DbInv, TablesKnown, FilesFilled, CatalogFollows
<1> QED
  BY <1>1, <1>2, <1>3 DEF DbInv, CatalogKeeps

(* A call failed, and the creation is undone. *)
LEMMA ThrowingKeeps ==
    ASSUME DbInv, Throwing, UNCHANGED <<catalog, temporary>>,
           stage \in {"write", "rename_again"}
    PROVE  DbInv' /\ (CatalogKeeps => CatalogKeeps')
<1>1. PICK m, f : /\ m = SchemasAfterFailure
                  /\ f \in {Without(table_files, creating), table_files}
                  /\ table_files' = f
  BY DEF Throwing
<1>2. /\ UNCHANGED <<catalog, temporary, acknowledged, inserted>>
      /\ table_files' = f /\ creating' = {}
      /\ \/ creating = {} /\ stage' = "closed" /\ schemas_' = NoTables
         \/ creating # {} /\ stage' = "open" /\ schemas_' = m
  BY <1>1 DEF Throwing
<1>3. /\ IsMap(m) /\ DOMAIN m = DOMAIN schemas_ \ creating
      /\ IsMap(f) /\ DOMAIN table_files \ creating \subseteq DOMAIN f
      /\ DOMAIN f \subseteq DOMAIN table_files
      /\ \A t \in DOMAIN f : f[t] = table_files[t]
  <2>1. /\ IsMap(m) /\ DOMAIN m = DOMAIN schemas_ \ creating
    BY <1>1, WithoutMap DEF SchemasAfterFailure
  <2>2. CASE f = Without(table_files, creating)
    <3>1. /\ IsMap(f) /\ DOMAIN f = DOMAIN table_files \ creating
          /\ \A t \in DOMAIN table_files \ creating : f[t] = table_files[t]
      BY <2>2, WithoutMap DEF DbInv
    <3> QED
      BY <2>1, <3>1
  <2>3. CASE f = table_files
    BY <2>1, <2>3 DEF DbInv
  <2> QED
    BY <1>1, <2>2, <2>3
<1>4. Loaded' = Loaded /\ NoCatalog' = NoCatalog
  BY <1>2 DEF Loaded, NoCatalog, NoTables
<1>5. stage' = "open" => SchemasAfterFailure' = m
  <2>1. SUFFICES ASSUME schemas_' = m
                 PROVE  SchemasAfterFailure' = m
    BY <1>2
  <2>2. SchemasAfterFailure' = Without(m, {})
    BY <1>2, <2>1 DEF SchemasAfterFailure, Without, Restrict
  <2> QED
    BY <1>3, <2>2, WithoutNothing
<1>6. catalog = NoCatalog \/ Loaded = m
  BY <1>1 DEF DbInv, CatalogFollows
<1>7. TablesKnown'
  BY <1>2, <1>3, NoTablesMap DEF DbInv, TablesKnown
<1>8. FilesFilled'
  BY <1>2, <1>3 DEF DbInv, FilesFilled
<1>9. CatalogFollows'
  BY <1>2, <1>4, <1>5, <1>6 DEF CatalogFollows
<1>10. CatalogKeeps => CatalogKeeps'
  BY <1>2, <1>3, <1>4 DEF DbInv, TablesKnown, CatalogKeeps
<1>11. IsMap(schemas_') /\ IsMap(table_files') /\ IsMap(catalog.lines)' /\ IsMap(inserted')
  BY <1>2, <1>3, NoTablesMap DEF DbInv
<1> QED
  BY <1>7, <1>8, <1>9, <1>10, <1>11 DEF DbInv

(* The new catalog takes the place of the old one, or of none. *)
LEMMA RenameKeeps ==
    ASSUME DbInv, Rename
    PROVE  DbInv' /\ (CatalogKeeps => CatalogKeeps')
<1>1. PICK a, n : /\ a = [t \in DOMAIN acknowledged \cup creating |->
                             IF t \in creating THEN schemas_[t] ELSE acknowledged[t]]
                  /\ n = [t \in Tables |-> IF t \in creating THEN <<>> ELSE inserted[t]]
  OBVIOUS
<1>2. /\ UNCHANGED <<table_files, schemas_>>
      /\ catalog' = temporary /\ temporary' = NoCatalog
      /\ stage' = "open" /\ creating' = {} /\ acknowledged' = a /\ inserted' = n
      /\ stage \in {"rename", "rename_again"}
  BY <1>1 DEF Rename, CreationReturns
<1>3. temporary = Contents /\ (catalog = NoCatalog \/ Loaded = SchemasAfterFailure)
  BY <1>2 DEF DbInv, CatalogFollows
<1>4. catalog' = [header |-> "V2", lines |-> schemas_]
  BY <1>2, <1>3 DEF Contents
<1>5. Loaded' = schemas_
  BY <1>4 DEF Loaded
<1>6. SchemasAfterFailure' = schemas_
  <2>1. SchemasAfterFailure' = Without(schemas_, {})
    BY <1>2 DEF SchemasAfterFailure, Without, Restrict
  <2> QED
    BY <2>1, WithoutNothing DEF DbInv
<1>7. CatalogFollows'
  BY <1>2, <1>5, <1>6 DEF CatalogFollows
<1>8. /\ DOMAIN a = DOMAIN acknowledged \cup creating
      /\ \A t \in DOMAIN a : a[t] = IF t \in creating THEN schemas_[t] ELSE acknowledged[t]
      /\ DOMAIN n = Tables /\ IsMap(n)
      /\ \A t \in Tables : n[t] = IF t \in creating THEN <<>> ELSE inserted[t]
  BY <1>1 DEF IsMap
<1>9. catalog.lines' = schemas_
  BY <1>4
<1>10. TablesKnown'
  BY <1>2, <1>8, <1>9 DEF DbInv, TablesKnown
<1>11. FilesFilled'
  BY <1>2, <1>8, EmptyIsSequence DEF DbInv, FilesFilled
<1>12. IsMap(schemas_') /\ IsMap(table_files') /\ IsMap(catalog.lines)' /\ IsMap(inserted')
  BY <1>2, <1>8, <1>9 DEF DbInv
<1>13. ASSUME CatalogKeeps
       PROVE  CatalogKeeps'
  <2>1. SUFFICES ASSUME NEW t \in DOMAIN a
                 PROVE  /\ t \in DOMAIN schemas_ /\ schemas_[t] = a[t]
                        /\ t \in DOMAIN table_files /\ Len(table_files[t]) = Len(n[t])
    BY <1>2, <1>5, <1>9 DEF CatalogKeeps
  <2>2. CASE t \in creating
    BY <1>8, <2>2 DEF DbInv, TablesKnown, FilesFilled
  <2>3. CASE t \notin creating
    <3>1. /\ t \in DOMAIN acknowledged /\ t \in DOMAIN catalog.lines
          /\ Loaded[t] = acknowledged[t]
          /\ t \in DOMAIN table_files /\ Len(table_files[t]) = Len(inserted[t])
      BY <1>8, <1>13, <2>3 DEF CatalogKeeps
    <3>2. catalog # NoCatalog
      BY <3>1, NoTablesMap
    <3>3. PICK m : m = Loaded /\ m = SchemasAfterFailure
      BY <1>3, <3>2
    <3>4. DOMAIN m = DOMAIN catalog.lines
      <4>1. DOMAIN Loaded = DOMAIN catalog.lines
        BY LoadedMap DEF DbInv
      <4> QED
        BY <3>3, <4>1
    <3>5. /\ DOMAIN m = DOMAIN schemas_ \ creating
          /\ \A s \in DOMAIN schemas_ \ creating : m[s] = schemas_[s]
      <4>1. m = Without(schemas_, creating)
        BY <3>3 DEF SchemasAfterFailure
      <4> QED
        BY <4>1, WithoutMap
    <3>6. t \in Tables
      BY <3>1 DEF DbInv, TablesKnown
    <3> QED
      BY <1>8, <2>3, <3>1, <3>3, <3>4, <3>5, <3>6
  <2> QED
    BY <2>2, <2>3
<1> QED
  BY <1>7, <1>10, <1>11, <1>12, <1>13 DEF DbInv

(* The catalog is removed: only the invariant is kept. *)
LEMMA RemoveCatalogKeeps ==
    ASSUME DbInv, RemoveCatalog
    PROVE  DbInv'
<1>1. /\ UNCHANGED <<temporary, table_files, schemas_, creating, acknowledged, inserted>>
      /\ catalog' = NoCatalog \/ catalog' = catalog
      /\ stage' = "rename_again" /\ stage = "rename"
  BY DEF RemoveCatalog
<1>2. /\ NoCatalog' = NoCatalog /\ Contents' = Contents
      /\ SchemasAfterFailure' = SchemasAfterFailure
      /\ catalog' = catalog => Loaded' = Loaded
  BY <1>1 DEF Loaded, NoCatalog, NoTables, Contents, SchemasAfterFailure
<1>3. /\ catalog.lines' = catalog.lines \/ catalog.lines' = NoTables
  BY <1>1, NoTablesMap
<1>4. TablesKnown' /\ FilesFilled'
  BY <1>1, <1>3, NoTablesMap DEF DbInv, TablesKnown, FilesFilled
<1>5. CatalogFollows'
  BY <1>1, <1>2 DEF DbInv, CatalogFollows
<1>6. IsMap(schemas_') /\ IsMap(table_files') /\ IsMap(catalog.lines)' /\ IsMap(inserted')
  BY <1>1, <1>3, NoTablesMap DEF DbInv
<1> QED
  BY <1>4, <1>5, <1>6 DEF DbInv

(* INSERT. *)
LEMMA AppendRowKeeps ==
    ASSUME DbInv, NEW table \in Tables, NEW record, NEW row, AppendRow(table, record, row)
    PROVE  DbInv' /\ (CatalogKeeps => CatalogKeeps')
<1>1. PICK f, n : /\ f = [table_files EXCEPT ![table] = Append(@, record)]
                  /\ n = [inserted EXCEPT ![table] = Append(@, row)]
  OBVIOUS
<1>2. /\ UNCHANGED <<catalog, temporary, schemas_, stage, creating, acknowledged>>
      /\ table_files' = f /\ inserted' = n /\ stage = "open" /\ table \in DOMAIN schemas_
  BY <1>1 DEF AppendRow
<1>3. /\ IsMap(table_files) /\ IsMap(inserted) /\ DOMAIN inserted = Tables
      /\ table \in DOMAIN table_files /\ DOMAIN table_files \subseteq Tables /\ creating = {}
      /\ \A t \in DOMAIN table_files : IsSequence(table_files[t])
      /\ \A t \in Tables : IsSequence(inserted[t])
  BY <1>2 DEF DbInv, TablesKnown, FilesFilled, CatalogFollows
<1>4. /\ DOMAIN f = DOMAIN table_files /\ IsMap(f)
      /\ f[table] = Append(table_files[table], record)
      /\ \A t \in DOMAIN table_files \ {table} : f[t] = table_files[t]
      /\ DOMAIN n = Tables /\ IsMap(n)
      /\ n[table] = Append(inserted[table], row)
      /\ \A t \in Tables \ {table} : n[t] = inserted[t]
  BY <1>1, <1>3 DEF IsMap
<1>5. /\ IsSequence(f[table]) /\ Len(f[table]) = Len(table_files[table]) + 1
      /\ IsSequence(n[table]) /\ Len(n[table]) = Len(inserted[table]) + 1
  BY <1>3, <1>4, LongerSequence
<1>6. /\ NoCatalog' = NoCatalog /\ Contents' = Contents
      /\ SchemasAfterFailure' = SchemasAfterFailure /\ Loaded' = Loaded
  BY <1>2 DEF Loaded, NoCatalog, NoTables, Contents, SchemasAfterFailure
<1>7. TablesKnown' /\ CatalogFollows'
  BY <1>2, <1>4, <1>6 DEF DbInv, TablesKnown, CatalogFollows
<1>8. FilesFilled'
  BY <1>2, <1>3, <1>4, <1>5 DEF FilesFilled
<1>9. ASSUME CatalogKeeps
      PROVE  CatalogKeeps'
  <2>1. SUFFICES ASSUME NEW t \in DOMAIN acknowledged
                 PROVE  /\ t \in DOMAIN catalog.lines /\ Loaded[t] = acknowledged[t]
                        /\ t \in DOMAIN f /\ Len(f[t]) = Len(n[t])
    BY <1>2, <1>6 DEF CatalogKeeps
  <2>2. /\ t \in DOMAIN catalog.lines /\ Loaded[t] = acknowledged[t]
        /\ t \in DOMAIN table_files /\ Len(table_files[t]) = Len(inserted[t])
    BY <1>9 DEF CatalogKeeps
  <2>3. CASE t = table
    BY <1>4, <1>5, <2>2, <2>3
  <2>4. CASE t # table
    BY <1>3, <1>4, <2>2, <2>4
  <2> QED
    BY <2>3, <2>4
<1> QED
  BY <1>2, <1>4, <1>7, <1>8, <1>9 DEF DbInv

(* The program ends, or is killed. *)
LEMMA CloseKeeps ==
    ASSUME DbInv, CloseDatabase
    PROVE  DbInv' /\ (CatalogKeeps => CatalogKeeps')
<1>1. /\ UNCHANGED <<catalog, temporary, table_files, acknowledged, inserted>>
      /\ schemas_' = NoTables /\ stage' = "closed" /\ creating' = {}
  BY DEF CloseDatabase
<1>2. Loaded' = Loaded
  BY <1>1 DEF Loaded
<1>3. TablesKnown' /\ FilesFilled' /\ CatalogFollows'
  BY <1>1, NoTablesMap DEF DbInv, TablesKnown, FilesFilled, CatalogFollows
<1>4. IsMap(schemas_') /\ IsMap(table_files') /\ IsMap(catalog.lines)' /\ IsMap(inserted')
  BY <1>1, NoTablesMap DEF DbInv
<1> QED
  BY <1>1, <1>2, <1>3, <1>4 DEF DbInv, CatalogKeeps

(* All steps together. *)
LEMMA NextKeeps ==
    ASSUME DbInv, [DirectoryNext]_(database)
    PROVE  /\ DbInv'
           /\ CatalogKeeps => CatalogKeeps' \/ RemoveCatalog
<1>1. CASE UNCHANGED database
  <2>1. UNCHANGED <<catalog, temporary, table_files, schemas_, stage, creating, acknowledged, inserted>>
    BY <1>1 DEF database
  <2>2. /\ NoCatalog' = NoCatalog /\ Contents' = Contents
        /\ SchemasAfterFailure' = SchemasAfterFailure /\ Loaded' = Loaded
    BY <2>1 DEF Loaded, NoCatalog, NoTables, Contents, SchemasAfterFailure
  <2>3. TablesKnown' /\ FilesFilled' /\ CatalogFollows'
    BY <2>1, <2>2 DEF DbInv, TablesKnown, FilesFilled, CatalogFollows
  <2> QED
    BY <2>1, <2>2, <2>3 DEF DbInv, CatalogKeeps
<1>2. CASE WriteTemporaryFails \/ RenameFailsAgain
  BY <1>2, ThrowingKeeps DEF WriteTemporaryFails, RenameFailsAgain
<1>3. CASE Persist
  BY <1>2, <1>3, LoadCatalogKeeps, NewCatalogKeeps, WriteTemporaryKeeps, RenameKeeps,
     RemoveCatalogKeeps DEF Persist
<1> QED
  BY <1>1, <1>3, CreateTableKeeps, AppendRowKeeps, CloseKeeps DEF DirectoryNext

(* The invariant of the directory. *)
LEMMA DirectoryInvariant == DirectorySpec => []DbInv
<1>1. DbInv /\ [DirectoryNext]_(database) => DbInv'
  BY NextKeeps
<1> QED
  BY <1>1, StartKeeps, PTL DEF DirectorySpec

(* Between statements the catalog is what the program has in memory, after any
   failures and kills and for any tables (load_catalog, persist_catalog and the
   undoing in CREATE TABLE). *)
THEOREM DirectoryMemoryIsCatalog == DirectorySpec => []MemoryIsCatalog
<1>1. DbInv => MemoryIsCatalog
  <2>1. DbInv /\ stage = "open" => SchemasAfterFailure = schemas_
    BY WithoutNothing DEF DbInv, CatalogFollows, SchemasAfterFailure
  <2> QED
    BY <2>1 DEF DbInv, CatalogFollows, MemoryIsCatalog
<1> QED
  BY <1>1, DirectoryInvariant, PTL

(* No step loses a schema or a row, except that persist_catalog removes the
   catalog after a rename that failed. *)
THEOREM DirectoryOnlyRemovalLoses == DirectorySpec => OnlyRemovalLoses
<1>1. DbInv /\ [DirectoryNext]_(database)
         => [CatalogKeeps
               => CatalogKeeps' \/ (stage = "rename" /\ stage' = "rename_again")]_(database)
  BY NextKeeps DEF RemoveCatalog
<1> QED
  BY <1>1, DirectoryInvariant, PTL DEF DirectorySpec, OnlyRemovalLoses

(* If no rename fails, whatever else does and whenever the program is killed,
   every table whose creation returned is in the catalog with its schema and has
   all its rows. *)
THEOREM DirectoryKeeps ==
    ASSUME "rename" \notin Faults
    PROVE  DirectorySpec => []CatalogKeeps
<1>1. DbInv /\ CatalogKeeps /\ [DirectoryNext]_(database) => CatalogKeeps'
  BY NextKeeps DEF RemoveCatalog
<1> QED
  BY <1>1, StartKeeps, DirectoryInvariant, PTL DEF DirectorySpec

=============================================================================
