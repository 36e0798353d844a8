---------------------------- MODULE VolcanoPlan ----------------------------
(***************************************************************************)
(* A query plan of operators (src/query): a nested loop join of a          *)
(* sequential scan with a selection over another one.  The caller opens    *)
(* it, asks for tuples one by one and closes it, in any order; between two *)
(* calls rows may be inserted in the tables.                               *)
(*                                                                         *)
(* The calls of open and next on the join run loops; each turn is a step   *)
(* here.                                                                   *)
(***************************************************************************)
EXTENDS Integers, Sequences, SequencesExt

CONSTANTS Values,       \* of the column the tables are joined on
          Selected,     \* what the predicate of the selection accepts
          MaxTableRows, \* rows per table
          MaxCalls      \* calls of next between two of open

ASSUME SelectedAssumption == Selected \subseteq Values
ASSUME PlanBoundsAssumption == MaxTableRows \in Nat /\ MaxCalls \in Nat

VARIABLES
    left, right,     \* the tables: the value of each row
    cursor_,         \* rows the left scan has returned
    opened_,         \* of the left scan
    right_cursor_,   \* rows the right scan has returned
    current_left_,   \* the row the join is at, or 0
    right_rows_,     \* the rows of the right side, by number
    right_index_,
    doing,           \* "open" or "next" while one of these runs
    calls,           \* calls of next since open
    joined           \* history: the pairs returned since open, by row numbers

plan_vars == <<left, right, cursor_, opened_, right_cursor_, current_left_, right_rows_,
               right_index_, doing, calls, joined>>

plan == <<cursor_, opened_, right_cursor_, current_left_, right_rows_, right_index_>>

PlanInit ==
    /\ left = <<>> /\ right = <<>>
    /\ cursor_ = 0 /\ opened_ = FALSE /\ right_cursor_ = 0
    /\ current_left_ = 0 /\ right_rows_ = <<>> /\ right_index_ = 0
    /\ doing = "idle" /\ calls = 0 /\ joined = <<>>

-----------------------------------------------------------------------------
\* Mutant: the scan goes on where it was when it is opened again.
CursorKept(cursor) == cursor

CursorAtOpen(cursor) == 0

\* SeqScan::next: the row after the cursor, if the scan is open and has one.
HasRow(table, cursor) == cursor < Len(table)

\* Mutant: the scan returns the same row again.
SameRow(cursor) == IF cursor = 0 THEN 1 ELSE cursor

NextRow(cursor) == cursor + 1

\* open: the right side is opened ...
Open ==
    /\ doing = "idle"
    /\ right_rows_' = <<>>
    /\ right_cursor_' = CursorAtOpen(right_cursor_)
    /\ doing' = "open"
    /\ calls' = 0 /\ joined' = <<>>
    /\ UNCHANGED <<left, right, cursor_, opened_, current_left_, right_index_>>

\* ... read to its end, as Selection::next lets its rows through ...
ReadRight ==
    /\ doing = "open" /\ HasRow(right, right_cursor_)
    /\ right_cursor_' = NextRow(right_cursor_)
    /\ right_rows_' = IF right[right_cursor_'] \in Selected
                      THEN Append(right_rows_, right_cursor_')
                      ELSE right_rows_
    /\ UNCHANGED <<left, right, cursor_, opened_, current_left_, right_index_, doing, calls, joined>>

\* ... and closed; the left side is opened and its first row fetched.
OpenLeft ==
    /\ doing = "open" /\ ~HasRow(right, right_cursor_)
    /\ opened_' = TRUE
    /\ LET first == CursorAtOpen(cursor_)
       IN  IF HasRow(left, first)
           THEN cursor_' = NextRow(first) /\ current_left_' = cursor_'
           ELSE cursor_' = first /\ current_left_' = 0
    /\ right_index_' = 0
    /\ doing' = "idle"
    /\ UNCHANGED <<left, right, right_cursor_, right_rows_, calls, joined>>

CallNext ==
    /\ doing = "idle" /\ calls < MaxCalls
    /\ doing' = "next" /\ calls' = calls + 1
    /\ UNCHANGED <<left, right, plan, joined>>

Joins(i, j) == left[i] = right[j]

\* The inner loop: the next right row; a match is returned.  The predicate is
\* taken not to throw.
CompareNext ==
    /\ doing = "next" /\ current_left_ # 0
    /\ right_index_ < Len(right_rows_)
    /\ right_index_' = right_index_ + 1
    /\ LET j == right_rows_[right_index_']
       IN  IF Joins(current_left_, j)
           THEN joined' = Append(joined, <<current_left_, j>>) /\ doing' = "idle"
           ELSE UNCHANGED <<joined, doing>>
    /\ UNCHANGED <<left, right, cursor_, opened_, right_cursor_, current_left_, right_rows_, calls>>

\* Mutant: the right side is not started again.
IndexKept == right_index_

IndexOfNextLeft == 0

\* The outer loop: left_->next().
NextLeft ==
    /\ doing = "next" /\ current_left_ # 0
    /\ right_index_ >= Len(right_rows_)
    /\ IF opened_ /\ HasRow(left, cursor_)
       THEN cursor_' = NextRow(cursor_) /\ current_left_' = cursor_'
       ELSE current_left_' = 0 /\ UNCHANGED cursor_
    /\ right_index_' = IndexOfNextLeft
    /\ UNCHANGED <<left, right, opened_, right_cursor_, right_rows_, doing, calls, joined>>

\* std::nullopt
ReturnNothing ==
    /\ doing = "next" /\ current_left_ = 0
    /\ doing' = "idle"
    /\ UNCHANGED <<left, right, plan, calls, joined>>

ClosePlan ==
    /\ doing = "idle"
    /\ opened_' = FALSE
    /\ current_left_' = 0 /\ right_rows_' = <<>> /\ right_index_' = 0
    /\ UNCHANGED <<left, right, cursor_, right_cursor_, doing, calls, joined>>

\* The caller inserts between two calls.
InsertLeft(value) ==
    /\ doing = "idle" /\ Len(left) < MaxTableRows
    /\ left' = Append(left, value)
    /\ UNCHANGED <<right, plan, doing, calls, joined>>

InsertRight(value) ==
    /\ doing = "idle" /\ Len(right) < MaxTableRows
    /\ right' = Append(right, value)
    /\ UNCHANGED <<left, plan, doing, calls, joined>>

Running == ReadRight \/ OpenLeft \/ CompareNext \/ NextLeft \/ ReturnNothing

PlanNext ==
    \/ Open
    \/ CallNext
    \/ Running
    \/ ClosePlan
    \/ \E value \in Values : InsertLeft(value) \/ InsertRight(value)

\* A call that has begun is carried on: there is one thread and nothing blocks.
PlanSpec == PlanInit /\ [][PlanNext]_plan_vars /\ WF_plan_vars(Running)

-----------------------------------------------------------------------------
\* Pairs of rows in the order of the two loops.
Before(p, q) == p[1] < q[1] \/ (p[1] = q[1] /\ p[2] < q[2])

\* The join of what the plan reads: the left table, and the selected rows that
\* the right one had when the plan was opened.
Join ==
    {p \in (DOMAIN left) \X (1 .. right_cursor_) :
        right[p[2]] \in Selected /\ Joins(p[1], p[2])}

(* What an open plan has returned is a beginning of the join, in order, without
   gaps and repetitions, whether it was opened for the first time or again,
   half-way through or closed before, and whatever was inserted since. *)
ReturnsJoin ==
    LET returned == ToSet(joined)
    IN  opened_ =>
            /\ \A m, n \in DOMAIN joined : m < n => Before(joined[m], joined[n])
            /\ returned \subseteq Join
            /\ \A p \in Join \ returned, q \in returned : Before(q, p)

(* When the left side ends, the whole join of that moment has been returned,
   with the left rows inserted while it ran.  A left side that is empty ends in
   open, so the rows it gets later are not returned: next returns nothing then,
   although the join is not empty, until the plan is opened again. *)
ReturnsAll ==
    [][LET ends == \/ current_left_ # 0 /\ doing' = "next"
                   \/ doing = "open" /\ doing' = "idle"
       IN  opened_' /\ ends /\ current_left_' = 0 => ToSet(joined') = Join']_plan_vars

(* open returns, and next, with a tuple or with nothing (their loops). *)
NextReturns == doing # "idle" ~> doing = "idle"

=============================================================================
