---------------------------- MODULE StoredCursor ----------------------------
(***************************************************************************)
(* What a script is promised of a stored result, and nothing of how: it    *)
(* is stored, read row by row in order or from a row sought, and freed;    *)
(* what a fetch gives comes from the current row of the result that is     *)
(* stored, and without a result there is no current row.                   *)
(***************************************************************************)
EXTENDS Integers

CONSTANTS Queries,            \* numbers of queries, not 0
          Sizes               \* how many rows a result may have

VARIABLES result,             \* the stored result: its query, its rows, rows fetched
          row,                \* the current row: its query, its number from 1
          shown               \* the row that the last fetch gave data of

vars == <<result, row, shown>>

NoResult == [query |-> 0, rows |-> 0, next |-> 0]
NoRow == [query |-> 0, at |-> 0]

Init == result = NoResult /\ row = NoRow /\ shown = NoRow

Store ==
    /\ result = NoResult
    /\ \E q \in Queries, n \in Sizes : result' = [query |-> q, rows |-> n, next |-> 0]
    /\ shown' = NoRow
    /\ UNCHANGED row

Free == result' = NoResult /\ row' = NoRow /\ shown' = NoRow

(* The next row becomes the current one; behind the last there is none.    *)
Fetch ==
    /\ result # NoResult
    /\ \/ /\ result.next < result.rows
          /\ result' = [result EXCEPT !.next = @ + 1]
          /\ row' = [query |-> result.query, at |-> result.next + 1]
       \/ /\ result.next = result.rows
          /\ row' = NoRow
          /\ UNCHANGED result
    /\ shown' \in {NoRow, row'}

(* Data of the current row is given again. *)
Reread ==
    /\ row # NoRow
    /\ shown' = row
    /\ UNCHANGED <<result, row>>

(* The next row to fetch is chosen; the current row stays. *)
Seek ==
    /\ result # NoResult
    /\ \E k \in 0 .. result.rows : result' = [result EXCEPT !.next = k]
    /\ shown' = NoRow
    /\ UNCHANGED row

(* Whatever else a script calls gives it no row. *)
Other == shown' = NoRow /\ UNCHANGED <<result, row>>

Next == Store \/ Free \/ Fetch \/ Reread \/ Seek \/ Other

Spec == Init /\ [][Next]_vars
=============================================================================
