----------------------- MODULE PipelineRefinement -----------------------
(***************************************************************************)
(* The pipeline implements AsyncQueries, whatever scripts call.  On a      *)
(* handle whose object is not replaced the unanswered queries are known    *)
(* from issued and answered (ExactlyOnceInOrder), so a step that changes   *)
(* neither, whatever it does to the queues, stutters.  On any other        *)
(* handle, lost to AsyncQueries, OnceInv is left: an answer that comes     *)
(* late is to a query that was not answered yet.                           *)
(***************************************************************************)
EXTENDS AtMostOnceProofs

USE ParameterAssumption

Numbers(n, m) == [i \in 1 .. m - n |-> n + i]

UnansweredAreTheRest ==
    \A h \in Original :
        /\ Len(answered[h]) <= issued[h]
        /\ Unanswered(h) = Numbers(Len(answered[h]), issued[h])
        /\ \A i \in 1 .. Len(answered[h]) : answered[h][i].query = i

(* By ExactlyOnceInOrder the unanswered queries are those after the       *)
(* answered ones.                                                          *)
LEMMA InvUnanswered == TypeOK /\ PipelineInv => UnansweredAreTheRest
<1> SUFFICES ASSUME TypeOK, PipelineInv, NEW h \in Original
             PROVE  /\ Len(answered[h]) <= issued[h]
                    /\ Unanswered(h) = Numbers(Len(answered[h]), issued[h])
                    /\ \A i \in 1 .. Len(answered[h]) : answered[h][i].query = i
  BY DEF UnansweredAreTheRest
<1> DEFINE w == Unanswered(h)
           n == Len(answered[h])
<1>1. w \in Seq(Nat)
  BY UndeliveredFacts, UnexecutedFacts, ConcatProperties DEF Unanswered
<1>2. n \in Nat /\ issued[h] \in Nat
  BY DEF TypeOK, HistoryTypes, Original
<1>3. /\ n + Len(w) = issued[h]
      /\ \A i \in 1 .. Len(w) : w[i] = n + i
      /\ \A i \in 1 .. n : answered[h][i].query = i
  BY InvExactlyOnce DEF ExactlyOnceInOrder
<1> HIDE DEF w, n
<1>4. Len(w) \in Nat /\ w = [i \in 1 .. Len(w) |-> w[i]]
  BY <1>1
<1>5. Len(w) = issued[h] - n /\ n <= issued[h]
  BY <1>2, <1>3, <1>4
<1>6. w = Numbers(n, issued[h])
  BY <1>3, <1>4, <1>5 DEF Numbers
<1> QED  BY <1>3, <1>5, <1>6 DEF w, n

(* Numbers in a row, with one more at the end or one less at the front.    *)
LEMMA NumbersAppend ==
    ASSUME NEW n \in Nat, NEW m \in Nat, n <= m
    PROVE  Numbers(n, m + 1) = Append(Numbers(n, m), m + 1)
<1> DEFINE a == Numbers(n, m)
           b == Numbers(n, m + 1)
<1>1. a \in Seq(Nat) /\ b \in Seq(Nat) /\ Len(a) = m - n /\ Len(b) = (m + 1) - n
  BY DEF Numbers
<1>2. /\ \A i \in 1 .. m - n : a[i] = n + i
      /\ \A i \in 1 .. (m + 1) - n : b[i] = n + i
  BY DEF Numbers
<1> HIDE DEF a, b
<1>3. Append(a, m + 1) \in Seq(Nat) /\ Len(Append(a, m + 1)) = (m + 1) - n
  BY <1>1
<1>4. ASSUME NEW i \in 1 .. (m + 1) - n PROVE b[i] = Append(a, m + 1)[i]
  <2>1. CASE i \in 1 .. m - n  BY <1>1, <1>2, <2>1
  <2>2. CASE i = (m - n) + 1  BY <1>1, <1>2, <2>2
  <2>3. i \in 1 .. m - n \/ i = (m - n) + 1  OBVIOUS
  <2> QED  BY <2>1, <2>2, <2>3
<1>5. b = Append(a, m + 1)
  BY <1>1, <1>3, <1>4, SeqEqual
<1> QED  BY <1>5 DEF a, b

LEMMA NumbersTail ==
    ASSUME NEW n \in Nat, NEW m \in Nat, n < m
    PROVE  /\ Numbers(n, m) # <<>>
           /\ Head(Numbers(n, m)) = n + 1
           /\ Tail(Numbers(n, m)) = Numbers(n + 1, m)
<1> DEFINE a == Numbers(n, m)
           b == Numbers(n + 1, m)
<1>1. a \in Seq(Nat) /\ b \in Seq(Nat) /\ Len(a) = m - n /\ Len(b) = m - (n + 1)
  BY DEF Numbers
<1>2. /\ \A i \in 1 .. m - n : a[i] = n + i
      /\ \A i \in 1 .. m - (n + 1) : b[i] = (n + 1) + i
  BY DEF Numbers
<1> HIDE DEF a, b
<1>3. a # <<>> /\ Head(a) = n + 1
  BY <1>1, <1>2
<1>4. /\ Tail(a) \in Seq(Nat) /\ Len(Tail(a)) = m - (n + 1)
      /\ \A i \in 1 .. m - (n + 1) : Tail(a)[i] = a[i + 1]
  BY <1>1, <1>3, TailFacts
<1>5. \A i \in 1 .. m - (n + 1) : Tail(a)[i] = b[i]
  BY <1>2, <1>4
<1>6. Tail(a) = b
  BY <1>1, <1>4, <1>5, SeqEqual
<1> QED  BY <1>3, <1>6 DEF a, b

(* A step that answers nothing and replaces no object. *)
LEMMA RefineQuiet ==
    ASSUME UnansweredAreTheRest, UnansweredAreTheRest', UNCHANGED <<replaced, history>>
    PROVE  UNCHANGED Async!vars
<1>1. ASSUME NEW h \in Handles
      PROVE  (IF h \in replaced THEN <<>> ELSE Unanswered(h))'
               = (IF h \in replaced THEN <<>> ELSE Unanswered(h))
  BY DEF UnansweredAreTheRest, history, Original
<1> QED  BY <1>1 DEF history, Async!vars

(* An object is replaced: nothing more is promised of the handle. *)
LEMMA RefineLose ==
    ASSUME UnansweredAreTheRest, UnansweredAreTheRest', UNCHANGED history,
           NEW h \in Handles, replaced' = replaced \cup {h}
    PROVE  Async!Lose(h)
<1>1. ASSUME NEW g \in Handles, g # h
      PROVE  (IF g \in replaced THEN <<>> ELSE Unanswered(g))'
               = (IF g \in replaced THEN <<>> ELSE Unanswered(g))
  BY <1>1 DEF UnansweredAreTheRest, history, Original
<1> QED  BY <1>1 DEF history, Async!Lose

LEMMA RefineSubmit ==
    ASSUME TypeOK, UnansweredAreTheRest, UnansweredAreTheRest',
           NEW t \in Threads, NEW h \in Handles, QueueQuery(t, h)
    PROVE  Async!Submit(h)
<1>1. /\ issued' = [issued EXCEPT ![h] = @ + 1]
      /\ UNCHANGED <<answered, replaced>>
      /\ issued \in [Handles -> Nat] /\ Len(answered[h]) \in Nat
  BY DEF QueueQuery, TypeOK, HistoryTypes, tableVars
<1>2. ASSUME NEW g \in Original, g # h PROVE Unanswered(g)' = Unanswered(g)
  BY <1>1, <1>2 DEF UnansweredAreTheRest, Original
<1>3. ASSUME h \in Original
      PROVE  Unanswered(h)' = Append(Unanswered(h), issued[h] + 1)
  BY <1>1, <1>3, NumbersAppend DEF UnansweredAreTheRest, Original
<1> DEFINE pending == [g \in Handles |-> IF g \in replaced THEN <<>> ELSE Unanswered(g)]
<1>4. pending' = [pending EXCEPT ![h] = IF h \in replaced THEN @ ELSE Append(@, issued[h] + 1)]
  BY <1>1, <1>2, <1>3 DEF Original
<1> QED  BY <1>1, <1>4 DEF Async!Submit

(* The callback for the oldest unanswered query of an original handle. *)
LEMMA RefineAnswer ==
    ASSUME TypeOK, UnansweredAreTheRest, UnansweredAreTheRest',
           NEW h \in Original, NEW q, NEW c \in Callbacks, Record(h, q, c),
           UNCHANGED <<issued, replaced>>
    PROVE  Async!Answer(h)
<1> DEFINE n == Len(answered[h])
           e == [query |-> q, callback |-> c]
           S == [query : Nat, callback : Callbacks]
<1>1. /\ answered \in [Handles -> Seq(S)] /\ h \in Handles
      /\ issued[h] \in Nat /\ n \in Nat
  <2>1. answered \in [Handles -> Seq(S)] /\ issued[h] \in Nat /\ h \in Handles
    BY DEF TypeOK, HistoryTypes, Original
  <2> HIDE DEF S
  <2>2. answered[h] \in Seq(S)  BY <2>1
  <2> QED  BY <2>1, <2>2
<1>2. answered' = [answered EXCEPT ![h] = Append(@, e)]
  BY DEF Record
<1> HIDE DEF S
<1>3. ASSUME NEW g \in Original, g # h PROVE Unanswered(g)' = Unanswered(g)
  <2>1. answered'[g] = answered[g] /\ g \in Original'  BY <1>1, <1>2, <1>3 DEF Original
  <2> QED  BY <2>1 DEF UnansweredAreTheRest
<1>4. answered'[h] = Append(answered[h], e) /\ h \in Original'
  BY <1>1, <1>2 DEF Original
<1>5. Len(answered'[h]) = n + 1 /\ answered'[h][n + 1] = e
  BY <1>1, <1>4
<1>6. n + 1 <= issued[h] /\ q = n + 1
  <2>1. n + 1 <= issued[h]  BY <1>1, <1>4, <1>5 DEF UnansweredAreTheRest
  <2>2. answered'[h][n + 1].query = n + 1
    <3>1. \A i \in 1 .. Len(answered'[h]) : answered'[h][i].query = i
      BY <1>4 DEF UnansweredAreTheRest
    <3> QED  BY <1>1, <1>5, <3>1
  <2> QED  BY <1>5, <2>1, <2>2
<1>7. Unanswered(h) = Numbers(n, issued[h]) /\ Unanswered(h)' = Numbers(n + 1, issued[h])
  BY <1>4, <1>5 DEF UnansweredAreTheRest
<1>8. Unanswered(h) # <<>> /\ Head(Unanswered(h)) = q /\ Unanswered(h)' = Tail(Unanswered(h))
  BY <1>1, <1>6, <1>7, NumbersTail
<1> DEFINE pending == [g \in Handles |-> IF g \in replaced THEN <<>> ELSE Unanswered(g)]
<1>9. pending' = [pending EXCEPT ![h] = Tail(@)] /\ pending[h] = Unanswered(h)
  BY <1>1, <1>3, <1>8 DEF Original
<1> QED  BY <1>2, <1>8, <1>9 DEF Async!Answer, Async!AnswerWith, Async!Callbacks, Callbacks

(* A callback for a handle that was lost before. *)
LEMMA RefineLate ==
    ASSUME NEW h \in replaced, NEW q, NEW c \in Callbacks, Record(h, q, c), NotYet(h, q, c),
           UnansweredAreTheRest, UnansweredAreTheRest', TypeOK, UNCHANGED <<issued, replaced>>
    PROVE  Async!AnswerLate(h)
<1>1. ASSUME NEW g \in Original PROVE Unanswered(g)' = Unanswered(g)
  <2>1. answered'[g] = answered[g] /\ g \in Original'
    BY DEF Original, Record, TypeOK, HistoryTypes
  <2> QED  BY <2>1 DEF UnansweredAreTheRest
<1>2. UNCHANGED [g \in Handles |-> IF g \in replaced THEN <<>> ELSE Unanswered(g)]
  BY <1>1 DEF Original
<1>3. Async!AnswerWith(h, q, c)  BY DEF Record, Async!AnswerWith
<1>4. /\ q \in 1 .. issued[h] /\ c \in Async!Callbacks
      /\ \A i \in 1 .. Len(answered[h]) :
            /\ answered[h][i].query # q
            /\ answered[h][i].callback = c => answered[h][i].query < q
  BY DEF NotYet, Async!Callbacks, Callbacks
<1> QED  BY <1>2, <1>3, <1>4 DEF Async!AnswerLate

LEMMA RefineCallback ==
    ASSUME TypeOK, UnansweredAreTheRest, UnansweredAreTheRest',
           NEW h \in Handles, NEW q, NEW c \in Callbacks, Record(h, q, c), NotYet(h, q, c),
           UNCHANGED <<issued, replaced>>
    PROVE  Async!Next
<1>1. CASE h \in replaced  BY <1>1, RefineLate DEF Async!Next
<1>2. CASE h \notin replaced
  <2>1. h \in Original  BY <1>2 DEF Original
  <2> QED  BY <2>1, RefineAnswer DEF Async!Next
<1> QED  BY <1>1, <1>2

(* mysql_query submits, Error() and ProcessTick answer, mysql_close loses,  *)
(* and so does a mysql_init that overwrites an object; all else stutters.  *)
LEMMA RefineStep ==
    ASSUME TypeOK, OnceInv, UnansweredAreTheRest, UnansweredAreTheRest', [Next]_vars
    PROVE  [Async!Next]_Async!vars
<1>1. CASE \E t \in Threads, h \in Handles : QueueQuery(t, h)
  BY <1>1, RefineSubmit DEF Async!Next
<1>2. CASE ReportError
  <2>1. /\ qh \in Handles /\ Record(qh, qcur, "OnMysqlError") /\ InHand(qh) = {qcur}
        /\ UNCHANGED <<issued, replaced>>
    BY <1>2 DEF ReportError, TypeOK, ThreadTypes, AtHandle, InHand, tableVars
  <2>2. NotYet(qh, qcur, "OnMysqlError")  BY <2>1, ReportNew
  <2>3. "OnMysqlError" \in Callbacks  BY DEF Callbacks
  <2> QED  BY <2>1, <2>2, <2>3, RefineCallback
<1>3. CASE TickDeliver
  <2>1. /\ sh \in Handles /\ Record(sh, Head(threadQueue[sh]), "OnMysqlQuery")
        /\ Undelivered(sh) = threadQueue[sh] /\ threadQueue[sh] # <<>>
        /\ UNCHANGED <<issued, replaced>>
    BY <1>3 DEF TickDeliver, ReadyToDeliver, Undelivered, tableVars
  <2>2. NotYet(sh, Head(threadQueue[sh]), "OnMysqlQuery")  BY <2>1, DeliverNew
  <2>3. "OnMysqlQuery" \in Callbacks  BY DEF Callbacks
  <2> QED  BY <2>1, <2>2, <2>3, RefineCallback
<1>4. CASE UNCHANGED <<replaced, history>>
  BY <1>4, RefineQuiet
<1>5. CASE \E t \in Threads, h \in Handles : Close(t, h)
  <2> PICK t \in Threads, h \in Handles : Close(t, h)  BY <1>5
  <2>1. replaced' = replaced \cup {h} /\ UNCHANGED history  BY DEF Close
  <2> QED  BY <2>1, RefineLose DEF Async!Next
<1>6. CASE \E t \in Threads : CreateObject(t)
  <2> PICK t \in Threads : CreateObject(t)  BY <1>6
  <2>1. creating[t] \in Handles  BY DEF CreateObject, TypeOK, TableTypes
  <2>2. /\ replaced' \in {replaced, replaced \cup {creating[t]}}
        /\ UNCHANGED history
    BY DEF CreateObject
  <2>3. CASE replaced' = replaced  BY <1>4, <2>2, <2>3
  <2>4. CASE replaced' = replaced \cup {creating[t]}
    BY <2>1, <2>2, <2>4, RefineLose DEF Async!Next
  <2> QED  BY <2>2, <2>3, <2>4
<1>7. CASE QueryThreadStep
  <2>1. ReportError \/ UNCHANGED <<replaced, history>>
    BY <1>7 DEF QueryThreadStep, StartThread, Scan, ScanPastTable, QueryThreadDangling, SkipHandle,
       TakeQuery, ExecuteOk, ExecuteFails, SetParsing, PushResult, ErrorReturns, PopQuery, Crash,
       tableVars
  <2> QED  BY <1>2, <1>4, <2>1
<1>8. CASE ServerStep
  <2>1. TickDeliver \/ UNCHANGED <<replaced, history>>
    BY <1>8 DEF ServerStep, TickStart, TickEnd, TickPastTable, TickDangling, TickSkip, TickPop,
       TickClear, Crash, tableVars
  <2> QED  BY <1>3, <1>4, <2>1
<1>9. CASE ScriptStep
  <2>1. \/ \E t \in Threads, h \in Handles : QueueQuery(t, h) \/ Close(t, h)
        \/ \E t \in Threads : CreateObject(t)
        \/ UNCHANGED <<replaced, history>>
    BY <1>9 DEF ScriptStep, ClaimSlot, CreateInUse, CloseDone, Connect, RunQuery, StoreResult,
       FreeResult, CallInUse, StoreInUse, CallOnEmptySlot, ConnectWithoutMysql, CallOnDeleted, Crash,
       tableVars
  <2> QED  BY <1>1, <1>4, <1>5, <1>6, <2>1
<1>10. CASE UNCHANGED vars
  BY <1>4, <1>10 DEF vars, tableVars, history
<1> QED  BY <1>7, <1>8, <1>9, <1>10 DEF Next

(* The two queues, the two threads and the flag parsing (Thread.cpp) keep  *)
(* what AsyncQueries promises, whatever scripts call on whichever thread:  *)
(* every threaded query is answered once and in order by OnMysqlQuery or   *)
(* OnMysqlError, on each handle until it is closed or lost to a second     *)
(* mysql_init, and at most once, in the order of either callback, after.   *)
THEOREM PipelineImplements == Spec => Implements
<1>1. Init => Async!Init
  BY DEF Init, Async!Init, Unanswered, Undelivered, Unexecuted, Rest
<1>2. Spec => []UnansweredAreTheRest
  BY TypeCorrect, PipelineCorrect, InvUnanswered, PTL
<1>3. TypeOK /\ OnceInv /\ UnansweredAreTheRest /\ UnansweredAreTheRest' /\ [Next]_vars
        => [Async!Next]_Async!vars
  BY RefineStep
<1> QED  BY <1>1, <1>2, <1>3, TypeCorrect, OrderKept, PTL DEF Spec, Implements, Async!Spec
=============================================================================
