-------------------------- MODULE ResultSetProofs --------------------------
(***************************************************************************)
(* Theorems about ResultSet, for any number of queries and rows.           *)
(***************************************************************************)
EXTENDS ResultSet, TLAPS

USE ResultSetAssumption

(* Rows and pointers have few forms.                                       *)
LEMMA ResultForms ==
    ASSUME TypeOK
    PROVE  /\ result # NoResult =>
                /\ result.query \in Queries
                /\ result.rows \in Sizes /\ result.next \in 0 .. result.rows
                /\ result = [query |-> result.query, rows |-> result.rows, next |-> result.next]
           /\ row \notin {NoRow, WildRow} => row \in [query : Queries, at : 1 .. MaxRows]
           /\ wire # NoRows => wire.query \in Queries /\ wire.rows \in Sizes
BY DEF TypeOK, Results, RowPointers, Rows, NoResult, NoRow, NoRows, WildRow, Sizes, Queries

(* Any change of the cursor by mysql_fetch_row keeps the types.            *)
LEMMA FetchNextType ==
    ASSUME TypeOK, FetchNext
    PROVE  result' \in Results /\ row' \in RowPointers
<1>1. /\ result.query \in Queries
      /\ result.rows \in Sizes /\ result.next \in 0 .. result.rows
      /\ result = [query |-> result.query, rows |-> result.rows, next |-> result.next]
      /\ result \in Results
  BY ResultForms DEF FetchNext, TypeOK
<1>2. CASE AtEnd
  BY <1>1, <1>2 DEF FetchNext, NextRow, RowPointers
<1>3. CASE ~AtEnd
  <2>1. result.next + 1 \in 1 .. result.rows /\ result.next + 1 \in Sizes
    BY <1>1, <1>3 DEF AtEnd, Sizes
  <2>2. result' = [query |-> result.query, rows |-> result.rows, next |-> result.next + 1]
    BY <1>1, <1>3 DEF FetchNext
  <2>3. row' = [query |-> result.query, at |-> result.next + 1]
    BY <1>3 DEF FetchNext, NextRow
  <2>4. result' \in Results
    BY <1>1, <2>1, <2>2 DEF Results
  <2>5. row' \in RowPointers
    BY <1>1, <2>1, <2>3 DEF RowPointers, Sizes
  <2> QED  BY <2>4, <2>5
<1> QED  BY <1>2, <1>3

LEMMA ExecuteType ==
    ASSUME TypeOK, NEW q \in Queries, Execute(q)
    PROVE  wire' \in Rows /\ state' \in {"none", "ok", "failed"}
BY DEF TypeOK, Execute, Rows

LEMMA QueryType == TypeOK /\ (Query \/ Background) => TypeOK'
<1> SUFFICES ASSUME TypeOK, Query \/ Background PROVE TypeOK'
  OBVIOUS
<1>1. CASE QueueQuery
  <2>1. made \in Nat /\ made + 1 \in Queries /\ queued \in Seq(Queries)
    BY <1>1 DEF QueueQuery, TypeOK, Queries
  <2>2. Append(queued, made + 1) \in Seq(Queries)  BY <2>1
  <2>3. made' \in 0 .. MaxQueries  BY <1>1, <2>1 DEF QueueQuery, Queries
  <2> QED
    BY <1>1, <2>2, <2>3 DEF QueueQuery, TypeOK, Results, RowPointers
<1>2. CASE RunQuery
  <2>1. made + 1 \in Queries /\ made + 1 \in 0 .. MaxQueries
    BY <1>2 DEF RunQuery, TypeOK, Queries
  <2>2. wire' \in Rows /\ state' \in {"none", "ok", "failed"}
    BY <1>2, <2>1, ExecuteType DEF RunQuery
  <2> QED
    BY <1>2, <2>1, <2>2 DEF RunQuery, TypeOK, Results, RowPointers
<1>3. CASE ExecuteQueued
  <2>1. queued \in Seq(Queries) /\ queued # <<>>  BY <1>3 DEF ExecuteQueued, TypeOK
  <2>2. Head(queued) \in Queries /\ Tail(queued) \in Seq(Queries)  BY <2>1
  <2>3. wire' \in Rows /\ state' \in {"none", "ok", "failed"}
    BY <1>3, <2>2, ExecuteType DEF ExecuteQueued
  <2> QED
    BY <1>3, <2>2, <2>3 DEF ExecuteQueued, TypeOK, cursorVars
<1>4. CASE CallbackReturns
  BY <1>4 DEF CallbackReturns, TypeOK, cursorVars
<1> QED  BY <1>1, <1>2, <1>3, <1>4 DEF Query, Background

LEMMA ReadType == TypeOK /\ Read => TypeOK'
<1> SUFFICES ASSUME TypeOK, Read PROVE TypeOK'
  OBVIOUS
<1> USE DEF queryVars, cursorVars
<1>1. NoRow \in RowPointers /\ NoResult \in Results /\ NoRows \in Rows
  BY DEF RowPointers, Results, Rows
<1>2. CASE StoreResult
  <2>1. result' \in Results
    <3>1. CASE wire # NoRows /\ result' = [query |-> wire.query, rows |-> wire.rows, next |-> 0]
      <4>1. wire.query \in Queries /\ wire.rows \in Sizes  BY <3>1, ResultForms
      <4> QED  BY <3>1, <4>1 DEF Results, Sizes
    <3>2. CASE result' = result  BY <3>2 DEF TypeOK
    <3> QED  BY <1>2, <3>1, <3>2 DEF StoreResult
  <2> QED  BY <1>1, <1>2, <2>1 DEF StoreResult, TypeOK
<1>3. CASE FreeResult  BY <1>1, <1>3 DEF FreeResult, TypeOK
<1>4. CASE FetchRow \/ FetchFirst
  BY <1>1, <1>4, FetchNextType DEF FetchRow, FetchFirst, TypeOK
<1>5. CASE FetchRowData
  BY <1>1, <1>5, FetchNextType DEF FetchRowData, TypeOK, AtEnd
<1>6. CASE FetchField
  <2>1. result' \in Results /\ row' \in RowPointers
    BY <1>6, FetchNextType DEF FetchField, UseRow, TypeOK
  <2> QED  BY <1>1, <1>6, <2>1 DEF FetchField, TypeOK
<1>7. CASE DataSeek
  <2>1. PICK k \in 0 .. result.rows : result' = [result EXCEPT !.next = k]
    BY <1>7 DEF DataSeek
  <2>2. /\ result.query \in Queries /\ result.rows \in Sizes
        /\ result = [query |-> result.query, rows |-> result.rows, next |-> result.next]
    BY <1>7, ResultForms DEF DataSeek
  <2>3. k \in Sizes /\ k <= result.rows  BY <2>2 DEF Sizes
  <2>4. result' = [query |-> result.query, rows |-> result.rows, next |-> k]  BY <2>1, <2>2
  <2>5. result' \in Results  BY <2>2, <2>3, <2>4 DEF Results
  <2> QED  BY <1>1, <1>7, <2>5 DEF DataSeek, TypeOK
<1>8. CASE GiveNoRow
  BY <1>1, <1>8 DEF GiveNoRow, TypeOK
<1> QED  BY <1>2, <1>3, <1>4, <1>5, <1>6, <1>7, <1>8 DEF Read

(* The types hold whatever scripts call: libmysql's cursor stays within    *)
(* the stored result, at its end included.                                 *)
THEOREM ResultTypeCorrect == Spec => []TypeOK
<1>1. Init => TypeOK
  <2> SUFFICES ASSUME Init PROVE TypeOK
    OBVIOUS
  <2>1. made \in 0 .. MaxQueries /\ queued \in Seq(Queries)
    BY DEF Init
  <2>2. wire \in Rows /\ result \in Results
    BY DEF Init, Rows, Results
  <2>3. row \in RowPointers /\ shown \in RowPointers
    BY DEF Init, RowPointers
  <2>4. /\ parsing \in BOOLEAN /\ state \in {"none", "ok", "failed"}
        /\ freed \in BOOLEAN
    BY DEF Init
  <2> QED  BY <2>1, <2>2, <2>3, <2>4 DEF TypeOK
<1>2. TypeOK /\ [Next]_vars => TypeOK'
  <2>1. TypeOK /\ UNCHANGED vars => TypeOK'
    BY DEF TypeOK, vars, queryVars, cursorVars
  <2> QED  BY <2>1, QueryType, ReadType DEF Next
<1> QED  BY <1>1, <1>2, PTL DEF Spec

-----------------------------------------------------------------------------
(* The invariant under the discipline of FreeFirstSpec.                    *)

LEMMA FreeFirstType == FreeFirstSpec => []TypeOK
<1>1. FreeFirstSpec => Spec
  <2>1. [FreeFirstNext]_vars => [Next]_vars  BY DEF FreeFirstNext, Next
  <2> QED  BY <2>1, PTL DEF FreeFirstSpec, Spec
<1> QED  BY <1>1, ResultTypeCorrect, PTL

(* A row just fetched is one of the stored result.                         *)
LEMMA FetchNextInv ==
    ASSUME TypeOK, FetchNext
    PROVE  /\ row' # NoRow => OfStoredResult(row)'
           /\ result' # NoResult
<1>1. /\ result.query \in Queries
      /\ result.rows \in Sizes /\ result.next \in 0 .. result.rows
      /\ result = [query |-> result.query, rows |-> result.rows, next |-> result.next]
  BY ResultForms DEF FetchNext
<1>2. CASE AtEnd
  BY <1>2 DEF FetchNext, NextRow
<1>3. CASE ~AtEnd
  <2>1. result.next + 1 \in 1 .. result.rows
    BY <1>1, <1>3 DEF AtEnd, Sizes
  <2>2. result' = [query |-> result.query, rows |-> result.rows, next |-> result.next + 1]
    BY <1>1, <1>3 DEF FetchNext
  <2>3. row' = [query |-> result.query, at |-> result.next + 1]
    BY <1>3 DEF FetchNext, NextRow
  <2>4. result.query # 0  BY <1>1 DEF Queries
  <2> QED  BY <2>1, <2>2, <2>3, <2>4 DEF OfStoredResult, NoResult
<1> QED  BY <1>2, <1>3

(* Reading the current row, or fetching one.                               *)
LEMMA UseRowInv ==
    ASSUME TypeOK, RowInv, UseRow
    PROVE  /\ row' # NoRow => OfStoredResult(row)'
           /\ result' # NoResult /\ ~freed
<1>1. result # NoResult  BY DEF UseRow, FetchNext
<1>2. ~freed  BY <1>1 DEF RowInv
<1>3. CASE row # NoRow /\ UNCHANGED cursorVars
  BY <1>1, <1>3 DEF RowInv, NothingQueried, cursorVars, OfStoredResult
<1>4. CASE FetchNext  BY <1>2, <1>4, FetchNextInv
<1> QED  BY <1>2, <1>3, <1>4 DEF UseRow

LEMMA QueryInv == TypeOK /\ RowInv /\ ((freed /\ Query) \/ Background) => RowInv'
<1> SUFFICES ASSUME TypeOK, RowInv, (freed /\ Query) \/ Background PROVE RowInv'
  OBVIOUS
<1>1. CASE freed /\ Query
  BY <1>1 DEF Query, QueueQuery, RunQuery, RowInv, FetchesStoredResult
<1>2. CASE Background
  <2>1. UNCHANGED <<cursorVars, shown, freed>>
    BY <1>2 DEF Background, ExecuteQueued, CallbackReturns
  <2>2. CASE row = NoRow
    BY <2>1, <2>2 DEF RowInv, FetchesStoredResult, OfStoredResult, cursorVars
  <2>3. CASE OfStoredResult(row)
    BY <2>1, <2>3 DEF RowInv, FetchesStoredResult, OfStoredResult, cursorVars
  <2>4. CASE NothingQueried /\ ~freed
    <3>1. CallbackReturns  BY <1>2, <2>4 DEF Background, ExecuteQueued, NothingQueried
    <3>2. NothingQueried' /\ ~freed'
      BY <2>1, <2>4, <3>1 DEF CallbackReturns, NothingQueried, cursorVars
    <3> QED  BY <2>1, <2>4, <3>2 DEF RowInv, FetchesStoredResult, OfStoredResult, cursorVars
  <2> QED  BY <2>2, <2>3, <2>4 DEF RowInv
<1> QED  BY <1>1, <1>2

LEMMA ReadInv == TypeOK /\ RowInv /\ Read => RowInv'
<1> SUFFICES ASSUME TypeOK, RowInv, Read PROVE RowInv'
  OBVIOUS
<1> USE DEF RowInv, FetchesStoredResult
<1>1. CASE StoreResult
  <2>1. ~NothingQueried /\ result = NoResult  BY <1>1 DEF StoreResult, NothingQueried
  <2>2. row = NoRow
    <3>1. SUFFICES ASSUME OfStoredResult(row) PROVE FALSE
      BY <2>1
    <3>2. result.rows = 0  BY <2>1 DEF NoResult
    <3> QED  BY <3>1, <3>2 DEF OfStoredResult
  <2> QED  BY <1>1, <2>1, <2>2 DEF StoreResult
<1>2. CASE GiveNoRow
  BY <1>2 DEF GiveNoRow,
              queryVars, cursorVars,
              NothingQueried, OfStoredResult
<1>3. CASE FreeResult  BY <1>3 DEF FreeResult
<1>4. CASE FetchRow \/ FetchFirst \/ FetchRowData
  <2>1. FetchNext /\ UNCHANGED freed /\ shown' \in {row', NoRow}
    BY <1>4 DEF FetchRow, FetchFirst, FetchRowData
  <2>2. ~freed  BY <2>1 DEF FetchNext
  <2> QED  BY <2>1, <2>2, FetchNextInv
<1>5. CASE FetchField
  <2>1. UseRow /\ UNCHANGED freed /\ shown' \in {row', NoRow}
    BY <1>5 DEF FetchField
  <2> QED  BY <2>1, UseRowInv
<1>6. CASE DataSeek
  <2>1. result # NoResult /\ ~freed /\ ~freed' /\ row' = row /\ shown' = NoRow
    BY <1>6 DEF DataSeek
  <2>2. result'.query = result.query /\ result'.rows = result.rows
    <3>1. PICK k \in 0 .. result.rows : result' = [result EXCEPT !.next = k]
      BY <1>6 DEF DataSeek
    <3> QED  BY <2>1, <3>1, ResultForms
  <2> QED  BY <2>1, <2>2 DEF NothingQueried, OfStoredResult
<1> QED  BY <1>1, <1>2, <1>3, <1>4, <1>5, <1>6 DEF Read

(* If scripts call mysql_free_result before they query again, the row that *)
(* MySQL::row points to is one of the stored result, although query() does *)
(* not reset it (Mysql.cpp:130-134), the constructor does not set it, and  *)
(* threaded queries are executed at any moment.                            *)
THEOREM FreeFirstCorrect == FreeFirstSpec => []RowInv
<1>1. Init => RowInv
  BY DEF Init, RowInv, NothingQueried, FetchesStoredResult
<1>2. TypeOK /\ RowInv /\ [FreeFirstNext]_vars => RowInv'
  <2>1. TypeOK /\ RowInv /\ UNCHANGED vars => RowInv'
    BY DEF vars, queryVars, cursorVars, RowInv, NothingQueried,
           FetchesStoredResult, OfStoredResult
  <2> QED  BY <2>1, QueryInv, ReadInv DEF FreeFirstNext
<1> QED  BY <1>1, <1>2, FreeFirstType, PTL DEF FreeFirstSpec

(* With the same discipline every fetch gives data of the stored result.   *)
THEOREM FetchesAreOfStoredResult == FreeFirstSpec => []FetchesStoredResult
<1>1. RowInv => FetchesStoredResult  BY DEF RowInv
<1> QED  BY <1>1, FreeFirstCorrect, PTL

-----------------------------------------------------------------------------
(* The refinement of StoredCursor.                                         *)

(* Whatever gives no row and leaves the cursor alone.                      *)
LEMMA RefineOther ==
    ASSUME UNCHANGED cursorVars, shown' = NoRow
    PROVE  Cursor!Other
BY DEF cursorVars, Cursor!Other, NoRow, Cursor!NoRow

LEMMA RefineFetch ==
    ASSUME TypeOK, FetchNext, shown' \in {NoRow, row'}
    PROVE  Cursor!Fetch
<1>1. /\ result # NoResult /\ result' # NoResult
      /\ result.rows \in Nat /\ result.next \in 0 .. result.rows
  BY ResultForms, FetchNextInv DEF FetchNext, Sizes
<1>2. CASE AtEnd
  BY <1>1, <1>2 DEF AtEnd, FetchNext, NextRow, Cursor!Fetch, NoResult, Cursor!NoResult,
                    NoRow, Cursor!NoRow
<1>3. CASE ~AtEnd
  <2>1. result.next < result.rows  BY <1>1, <1>3 DEF AtEnd
  <2> QED  BY <1>1, <1>3, <2>1 DEF AtEnd, FetchNext, NextRow, Cursor!Fetch, NoResult,
                    Cursor!NoResult, NoRow, Cursor!NoRow
<1> QED  BY <1>2, <1>3

LEMMA RefineUse ==
    ASSUME TypeOK, UseRow, shown' \in {NoRow, row'}
    PROVE  Cursor!Fetch \/ Cursor!Reread \/ Cursor!Other
<1>1. CASE FetchNext  BY <1>1, RefineFetch
<1>2. CASE row # NoRow /\ result # NoResult /\ UNCHANGED cursorVars
  <2>1. CASE shown' = NoRow  BY <1>2, <2>1, RefineOther
  <2>2. CASE shown' = row'
    BY <1>2, <2>2 DEF cursorVars, Cursor!Reread, NoRow, Cursor!NoRow
  <2> QED  BY <2>1, <2>2
<1> QED  BY <1>1, <1>2 DEF UseRow

LEMMA RefineRead == TypeOK /\ RowInv /\ Read => Cursor!Next
<1> SUFFICES ASSUME TypeOK, RowInv, Read PROVE Cursor!Next
  OBVIOUS
<1>1. CASE StoreResult
  <2>1. CASE /\ wire # NoRows /\ shown' = NoRow /\ row' = row
             /\ result' = [query |-> wire.query, rows |-> wire.rows, next |-> 0]
    <3>1. wire.query \in Queries /\ wire.rows \in Sizes  BY <2>1, ResultForms
    <3>2. result = NoResult /\ result' # NoResult
      BY <1>1, <2>1, <3>1 DEF StoreResult, NoResult, Queries
    <3>3. row = NoRow
      <4>1. ~NothingQueried /\ result.rows = 0  BY <1>1, <3>2 DEF StoreResult, NothingQueried, NoResult
      <4> QED  BY <4>1 DEF RowInv, OfStoredResult
    <3>4. Cursor!Store
      BY <2>1, <3>1, <3>2, <3>3 DEF Cursor!Store, NoResult, Cursor!NoResult, NoRow, Cursor!NoRow
    <3> QED  BY <3>4 DEF Cursor!Next
  <2>2. CASE UNCHANGED cursorVars /\ shown' = NoRow
    BY <2>2, RefineOther DEF Cursor!Next
  <2> QED  BY <1>1, <2>1, <2>2 DEF StoreResult, cursorVars
<1>2. CASE GiveNoRow
  BY <1>2, RefineOther DEF GiveNoRow, Cursor!Next
<1>3. CASE FreeResult
  BY <1>3 DEF FreeResult, Cursor!Next, Cursor!Free, NoResult, Cursor!NoResult, NoRow, Cursor!NoRow
<1>4. CASE FetchRow \/ FetchFirst \/ FetchRowData
  <2>1. FetchNext /\ shown' \in {NoRow, row'}  BY <1>4 DEF FetchRow, FetchFirst, FetchRowData
  <2> QED  BY <2>1, RefineFetch DEF Cursor!Next
<1>5. CASE FetchField
  <2>1. UseRow /\ shown' \in {NoRow, row'}  BY <1>5 DEF FetchField
  <2> QED  BY <2>1, RefineUse DEF Cursor!Next
<1>6. CASE DataSeek
  <2>1. result # NoResult /\ result.query \in Queries  BY <1>6, ResultForms DEF DataSeek
  <2>2. PICK k \in 0 .. result.rows : result' = [result EXCEPT !.next = k]
    BY <1>6 DEF DataSeek
  <2>3. result' # NoResult
    <3>1. result'.query = result.query  BY <2>1, <2>2, ResultForms
    <3> QED  BY <2>1, <3>1 DEF NoResult, Queries
  <2>4. Cursor!Seek
    BY <1>6, <2>1, <2>2, <2>3 DEF DataSeek, Cursor!Seek, NoResult, Cursor!NoResult,
           NoRow, Cursor!NoRow
  <2> QED  BY <2>4 DEF Cursor!Next
<1> QED  BY <1>1, <1>2, <1>3, <1>4, <1>5, <1>6 DEF Read

LEMMA RefineQuery ==
    ASSUME RowInv, (freed /\ Query) \/ Background
    PROVE  [Cursor!Next]_Cursor!vars
<1>1. CASE freed /\ Query
  <2>1. UNCHANGED cursorVars /\ shown' = NoRow
    BY <1>1 DEF Query, QueueQuery, RunQuery, RowInv, cursorVars
  <2> QED  BY <2>1, RefineOther DEF Cursor!Next
<1>2. CASE Background
  BY <1>2 DEF Background, ExecuteQueued, CallbackReturns, cursorVars, Cursor!vars
<1> QED  BY <1>1, <1>2

(* With the same discipline a script has the cursor that StoredCursor      *)
(* promises: a result is stored, read in order or from a row sought, and   *)
(* freed; queries, executed or queued, come between without a trace.       *)
THEOREM FreeFirstImplements == FreeFirstSpec => Implements
<1>1. Init => Cursor!Init
  BY DEF Init, Cursor!Init, NoResult, Cursor!NoResult, NoRow, Cursor!NoRow
<1>2. TypeOK /\ RowInv /\ [FreeFirstNext]_vars => [Cursor!Next]_Cursor!vars
  <2>1. UNCHANGED vars => UNCHANGED Cursor!vars
    BY DEF vars, cursorVars, Cursor!vars
  <2> QED  BY <2>1, RefineRead, RefineQuery DEF FreeFirstNext
<1> QED
  BY <1>1, <1>2, FreeFirstType, FreeFirstCorrect, PTL DEF FreeFirstSpec, Implements, Cursor!Spec
=============================================================================
