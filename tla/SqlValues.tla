----------------------------- MODULE SqlValues -----------------------------
(***************************************************************************)
(* The values of the SQL commands and their stored form                    *)
(* (src/query/tuple.cpp): INT, TEXT, DATE and HOUR, conversion between     *)
(* them, comparison, and the two formats of a record.                      *)
(*                                                                         *)
(* A text is a sequence of symbols, each a character or a word.  Texts of  *)
(* the form of a date or an hour are known with their numbers; the checks  *)
(* and the encoding of those numbers are modelled.  The operators are      *)
(* pure; one that throws yields Throws.                                    *)
(***************************************************************************)
EXTENDS Integers, Sequences

CONSTANTS DateFields,  \* the texts "YYYY-MM-DD", each with its three numbers
          HourFields,  \* the texts "HH:MM" and "HH:MM:SS", each with its numbers
          ByteOrder    \* the symbols of texts, by their bytes

ASSUME TextFieldsAssumption ==
    /\ \A text \in DOMAIN DateFields : DateFields[text] \in Nat \X Nat \X Nat
    /\ \A text \in DOMAIN HourFields :
          HourFields[text] \in (Nat \X Nat) \cup (Nat \X Nat \X Nat)

Throws == [ok |-> FALSE]
Gives(value) == [ok |-> TRUE, value |-> value]

Int32(n) == [type |-> "INT", data |-> n]
Text(symbols) == [type |-> "TEXT", data |-> symbols]
Date(encoded) == [type |-> "DATE", data |-> encoded]
Hour(seconds) == [type |-> "HOUR", data |-> seconds]

-----------------------------------------------------------------------------
(* Dates and hours *)

leap_year(year) == year % 400 = 0 \/ (year % 4 = 0 /\ year % 100 # 0)

DAYS == <<31, 28, 31, 30, 31, 30, 31, 31, 30, 31, 30, 31>>

days_in_month(year, month) ==
    IF month = 2 /\ leap_year(year) THEN 29 ELSE DAYS[month]

IsDate(year, month, day) ==
    year >= 1 /\ month \in 1 .. 12 /\ day \in 1 .. days_in_month(year, month)

EncodedDate(year, month, day) == year * 10000 + month * 100 + day

DateOf(fields) ==
    IF IsDate(fields[1], fields[2], fields[3])
    THEN Gives(Date(EncodedDate(fields[1], fields[2], fields[3])))
    ELSE Throws

parse_date(text) == IF text \in DOMAIN DateFields THEN DateOf(DateFields[text]) ELSE Throws

\* The text has these numbers, the year with at least four digits.
format_date(encoded) == <<encoded \div 10000, (encoded \div 100) % 100, encoded % 100>>

\* from_date_encoded formats the number and parses the text.
from_date_encoded(encoded) == DateOf(format_date(encoded))

IsHour(hour, minute, second) == hour <= 23 /\ minute <= 59 /\ second <= 59

EncodedHour(hour, minute, second) == hour * 3600 + minute * 60 + second

\* Seconds are optional.
parse_hour(text) ==
    IF text \notin DOMAIN HourFields THEN Throws
    ELSE LET fields == HourFields[text]
             second == IF Len(fields) = 3 THEN fields[3] ELSE 0
         IN  IF IsHour(fields[1], fields[2], second)
             THEN Gives(Hour(EncodedHour(fields[1], fields[2], second)))
             ELSE Throws

format_hour(seconds) == <<seconds \div 3600, (seconds % 3600) \div 60, seconds % 60>>

from_hour_seconds(seconds) ==
    IF seconds < 0 \/ seconds >= 24 * 3600 THEN Throws ELSE Gives(Hour(seconds))

\* to_string, for a date or an hour the numbers of the text.
to_string(value) ==
    CASE value.type = "DATE" -> format_date(value.data)
      [] value.type = "HOUR" -> format_hour(value.data)
      [] OTHER -> value.data

-----------------------------------------------------------------------------
(* Conversion and comparison *)

coerce(value, target) ==
    CASE value.type = target -> Gives(value)
      [] value.type = "TEXT" /\ target = "DATE" -> parse_date(value.data)
      [] value.type = "TEXT" /\ target = "HOUR" -> parse_hour(value.data)
      [] OTHER -> Throws

Byte(symbol) == CHOOSE i \in DOMAIN ByteOrder : ByteOrder[i] = symbol

\* std::string's <: the first symbol that differs decides, or the length.
TextLess(left, right) ==
    \E n \in 0 .. Len(left) :
        /\ n < Len(right)
        /\ \A i \in 1 .. n : left[i] = right[i]
        /\ n < Len(left) => Byte(left[n + 1]) < Byte(right[n + 1])

SameValue(left, right) == left.type = right.type /\ left.data = right.data

Less(left, right) ==
    IF left.type = "TEXT" THEN TextLess(left.data, right.data)
    ELSE left.data < right.data

\* compare of database.cpp: Value::compare throws between types, == does not.
compare(left, op, right) ==
    IF left.type # right.type /\ op \notin {"=", "!="} THEN Throws
    ELSE Gives(CASE op = "=" -> SameValue(left, right)
                 [] op = "!=" -> ~SameValue(left, right)
                 [] op = "<" -> Less(left, right)
                 [] op = "<=" -> SameValue(left, right) \/ Less(left, right)
                 [] op = ">" -> ~SameValue(left, right) /\ ~Less(left, right)
                 [] op = ">=" -> ~Less(left, right))

-----------------------------------------------------------------------------
(* Records.  head is what the first four bytes hold, as two u16: the magic
   number of the tagged format, or, in the historical one, the number of
   columns and the lower half of the first int32. *)

TUPLE_MAGIC == <<21572, 12630>>  \* 0x31565444, "DTV1"

serialize(tuple) == [head |-> TUPLE_MAGIC, fields |-> tuple]

Historical(ints) == [head |-> <<Len(ints), ints[1] % 65536>>, fields |-> ints]

ReadField(field) ==
    CASE field.type = "DATE" -> from_date_encoded(field.data)
      [] field.type = "HOUR" -> from_hour_seconds(field.data)
      [] OTHER -> Gives(field)

\* The tags and the types of the fields agree, as serialize wrote them; what
\* is checked is that each number is one of its type.
deserialize(record) ==
    IF record.head = TUPLE_MAGIC
    THEN IF \A i \in DOMAIN record.fields : ReadField(record.fields[i]).ok
         THEN Gives([i \in DOMAIN record.fields |-> ReadField(record.fields[i]).value])
         ELSE Throws
    ELSE IF Len(record.fields) = record.head[1]
         THEN Gives([i \in DOMAIN record.fields |-> Int32(record.fields[i])])
         ELSE Throws

=============================================================================
