----------------------------- MODULE ResultSet -----------------------------
(***************************************************************************)
(* One connected handle as its scripts see it: the results of its queries, *)
(* and the cursor (the members result and row of MySQL/Mysql.cpp) through  *)
(* which the fetch natives read them.  Each native is one step; so is the  *)
(* execution of a threaded query, whose steps are those of QueryThread.    *)
(* Error() is the last thing a native calls, so what a script does in      *)
(* OnMysqlError comes after the native, and is a step like any other.      *)
(*                                                                         *)
(* A row is the pointer the code holds, named by the query it came from.   *)
(* The pointer may outlive its result, or never have been assigned: data   *)
(* "shown" from such a row stands for whatever the memory holds.           *)
(***************************************************************************)
EXTENDS Integers, Sequences

CONSTANTS MaxQueries,         \* bound of the model: queries made on the handle
          MaxRows,            \* bound of the model: rows of a result
          UnsetRow            \* what the member row may be before it is assigned

ASSUME ResultSetAssumption ==
    /\ MaxQueries \in Nat
    /\ MaxRows \in Nat
    /\ UnsetRow \subseteq {"NULL", "other"} /\ UnsetRow # {}

VARIABLES
    made,         \* number of queries the scripts have made
    queued,       \* queryQueue: threaded queries to execute
    parsing,      \* a threaded query was executed, its callback has not returned
    state,        \* what mysql_real_query returned: "none" is -1, "ok" is 0
    wire,         \* the rows that wait on the connection
    result,       \* MySQL::result: its query, its rows and libmysql's cursor
    row,          \* MySQL::row
    shown,        \* the row that the last native gave data of; ghost
    freed         \* mysql_free_result was called, nothing stored since; ghost

queryVars == <<made, queued, parsing, state, wire>>
cursorVars == <<result, row>>
vars == <<queryVars, cursorVars, shown, freed>>

Sizes == 0 .. MaxRows
Queries == 1 .. MaxQueries

NoRows == [query |-> 0, rows |-> 0]
NoResult == [query |-> 0, rows |-> 0, next |-> 0]
NoRow == [query |-> 0, at |-> 0]
WildRow == [query |-> -1, at |-> 0]

Rows == [query : Queries, rows : Sizes] \cup {NoRows}
Results == {r \in [query : Queries, rows : Sizes, next : Sizes] : r.next <= r.rows}
                \cup {NoResult}
RowPointers == [query : Queries, at : 1 .. MaxRows] \cup {NoRow, WildRow}

TypeOK ==
    /\ made \in 0 .. MaxQueries
    /\ queued \in Seq(Queries)
    /\ parsing \in BOOLEAN
    /\ state \in {"none", "ok", "failed"}
    /\ wire \in Rows
    /\ result \in Results
    /\ row \in RowPointers
    /\ shown \in RowPointers
    /\ freed \in BOOLEAN

(* mysql_init and mysql_connect have succeeded.  The constructor does not  *)
(* initialise row.                                                         *)
Init ==
    /\ made = 0 /\ queued = <<>> /\ parsing = FALSE
    /\ state = "none" /\ wire = NoRows
    /\ result = NoResult
    /\ \/ "NULL" \in UnsetRow /\ row = NoRow
       \/ "other" \in UnsetRow /\ row = WildRow
    /\ shown = NoRow /\ freed = FALSE

-----------------------------------------------------------------------------
(* Queries.                                                                *)

(* mysql_real_query on this connection: refused while rows wait on it.     *)
Execute(q) ==
    \/ /\ wire = NoRows
       /\ \E n \in Sizes : wire' \in {NoRows, [query |-> q, rows |-> n]}
       /\ state' = "ok"
    \/ state' = "failed" /\ UNCHANGED wire

(* mysql_query or mysql_query_array with a resultid.                       *)
QueueQuery ==
    /\ made < MaxQueries
    /\ result' = NoResult
    /\ made' = made + 1
    /\ queued' = Append(queued, made + 1)
    /\ shown' = NoRow
    /\ UNCHANGED <<parsing, state, wire, row, freed>>

(* mysql_query or mysql_query_array without one.                           *)
RunQuery ==
    /\ made < MaxQueries
    /\ result' = NoResult
    /\ made' = made + 1
    /\ Execute(made + 1)
    /\ shown' = NoRow
    /\ UNCHANGED <<queued, parsing, row, freed>>

(* The query thread executes and pops the oldest threaded query.           *)
ExecuteQueued ==
    /\ queued # <<>> /\ ~parsing
    /\ Execute(Head(queued))
    /\ parsing' = (state' = "ok")
    /\ queued' = Tail(queued)
    /\ UNCHANGED <<made, cursorVars, shown, freed>>

(* ProcessTick has called the scripts and clears the flag.                 *)
CallbackReturns ==
    /\ parsing
    /\ parsing' = FALSE
    /\ UNCHANGED <<made, queued, state, wire, cursorVars, shown, freed>>

-----------------------------------------------------------------------------
(* Results.                                                                *)

(* Defect: a result that is already stored is not refused.                 *)
StoreResultAgain ==
    /\ state = "ok" /\ wire # NoRows
    /\ result' = [query |-> wire.query, rows |-> wire.rows, next |-> 0]
    /\ wire' = NoRows /\ freed' = FALSE /\ shown' = NoRow
    /\ UNCHANGED <<made, queued, parsing, state, row>>

(* The rows are stored; there may be none to store, or the connection may  *)
(* fail while they are read.                                               *)
StoreResult ==
    /\ result = NoResult /\ state = "ok"
    /\ wire' = NoRows
    /\ \/ /\ wire # NoRows
          /\ result' = [query |-> wire.query, rows |-> wire.rows, next |-> 0]
          /\ freed' = FALSE
       \/ UNCHANGED <<result, freed>>
    /\ shown' = NoRow
    /\ UNCHANGED <<made, queued, parsing, state, row>>

(* Defect: row is not reset.                                               *)
FreeResultKeepsRow ==
    /\ result' = NoResult
    /\ state' = "none"
    /\ freed' = TRUE
    /\ shown' = NoRow
    /\ UNCHANGED <<made, queued, parsing, wire, row>>

FreeResult ==
    /\ result' = NoResult /\ row' = NoRow
    /\ state' = "none"
    /\ freed' = TRUE
    /\ shown' = NoRow
    /\ UNCHANGED <<made, queued, parsing, wire>>

-----------------------------------------------------------------------------
(* The cursor.  Column numbers lie within the result; a column that is     *)
(* NULL, or has another name, gives no data.                               *)

AtEnd == result.next = result.rows

(* mysql_fetch_row: the next row, or NULL behind the last.                 *)
NextRow == IF AtEnd THEN NoRow ELSE [query |-> result.query, at |-> result.next + 1]

FetchNext ==
    /\ result # NoResult
    /\ row' = NextRow
    /\ result' = IF AtEnd THEN result ELSE [result EXCEPT !.next = @ + 1]

(* The text of the whole row.                                              *)
FetchRow ==
    /\ FetchNext
    /\ shown' = row'
    /\ UNCHANGED <<queryVars, freed>>

(* mysql_fetch_int, _float and _string: the first column of the next row.  *)
FetchFirst ==
    /\ FetchNext
    /\ shown' \in {row', NoRow}
    /\ UNCHANGED <<queryVars, freed>>

(* The next row becomes the current one, and no data is given.             *)
FetchRowData ==
    /\ FetchNext
    /\ shown' = NoRow
    /\ UNCHANGED <<queryVars, freed>>

(* The row whose columns are read: the current one, else the next.         *)
UseRow ==
    \/ row # NoRow /\ result # NoResult /\ UNCHANGED cursorVars
    \/ row = NoRow /\ FetchNext

(* mysql_fetch_field and mysql_fetch_field_num.                            *)
FetchField ==
    /\ UseRow
    /\ shown' \in {row', NoRow}
    /\ UNCHANGED <<queryVars, freed>>

(* Defect: the cursor is moved behind the end of the result.               *)
DataSeekUnchecked ==
    /\ result # NoResult
    /\ \E k \in 0 .. result.rows + 1 : result' = [result EXCEPT !.next = k]
    /\ shown' = NoRow
    /\ UNCHANGED <<queryVars, row, freed>>

(* libmysql takes any row number, and stops at the end of the result.      *)
DataSeek ==
    /\ result # NoResult
    /\ \E k \in 0 .. result.rows : result' = [result EXCEPT !.next = k]
    /\ shown' = NoRow
    /\ UNCHANGED <<queryVars, row, freed>>

(* The natives above when they refuse (no result stored, one stored        *)
(* already, no query executed), and those that change nothing here: they   *)
(* count rows or columns, or only use the connection.                      *)
GiveNoRow ==
    /\ shown' = NoRow
    /\ UNCHANGED <<queryVars, cursorVars, freed>>

-----------------------------------------------------------------------------
Query == QueueQuery \/ RunQuery

Read ==
    \/ StoreResult \/ FreeResult
    \/ FetchRow \/ FetchFirst \/ FetchRowData \/ FetchField \/ DataSeek
    \/ GiveNoRow

Background == ExecuteQueued \/ CallbackReturns

(* Scripts call the natives in any order.                                  *)
Next == Query \/ Read \/ Background

Spec == Init /\ [][Next]_vars

(* Scripts call mysql_free_result when they have connected, and after they *)
(* have stored a result, before any of them makes another query.           *)
FreeFirstNext == (freed /\ Query) \/ Read \/ Background

FreeFirstSpec == Init /\ [][FreeFirstNext]_vars

-----------------------------------------------------------------------------
OfStoredResult(r) == r.query = result.query /\ r.at \in 1 .. result.rows

(* What a fetch gives to a script is data of the result that is stored,    *)
(* never of one that was freed and never from a pointer that was not set   *)
(* (Mysql.cpp:252, 292 take the current row, or fetch one if there is none).*)
FetchesStoredResult == shown # NoRow => OfStoredResult(shown)

(* The inductive invariant behind FetchesStoredResult.  A row that is set  *)
(* is one of the stored result, except before the first query, when there  *)
(* can be no result to read through it.                                    *)
NothingQueried == result = NoResult /\ wire = NoRows /\ state = "none" /\ queued = <<>>

RowInv ==
    /\ freed => row = NoRow /\ result = NoResult
    /\ row # NoRow => (NothingQueried /\ ~freed) \/ OfStoredResult(row)
    /\ FetchesStoredResult

(* The pointer is hidden while there is no result to read through it.      *)
Cursor == INSTANCE StoredCursor
              WITH row <- IF result = NoResult THEN NoRow ELSE row

(* Scripts that free before they query have the cursor of StoredCursor.    *)
Implements == Cursor!Spec
=============================================================================
